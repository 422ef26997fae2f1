----------------------------- MODULE Datagrams -----------------------------
(***************************************************************************)
(* The two pairs of c/networks that talk in datagrams.  6_06: send_msg     *)
(* sends one message, the server prints what it receives.  6_07: the       *)
(* client sends one datagram and waits for the answer, in which the server *)
(* tells how many datagrams and how many bytes it has received.            *)
(*                                                                         *)
(* The network may lose, duplicate and reorder what is under way between   *)
(* hosts; what the server sends to itself stays on its host and arrives.   *)
(***************************************************************************)
EXTENDS Integers, Sequences, FiniteSets, SequencesExt

CONSTANTS
  Clients,     (* the senders, each on an address of its own               *)
  Server,      (* the server's own address                                 *)
  Host,        (* the four numbers of its IP address                       *)
  Texts,       (* the IP addresses typed: sequences of digits and dots     *)
  PortTexts,   (* the ports typed: sequences of digits                     *)
  Messages,    (* what is sent: sequences of "p", printable, and "n"       *)
  DgramSize,   (* dgram_size: how much of a datagram is received           *)
  MaxInt,      (* the largest int                                          *)
  StdioRoom,   (* how many headers fill the buffer of a stdio stream       *)
  MaxTurns,    (* bound: how many turns of its loop the server takes       *)
  MaxTimeouts, (* bound: how many of them are time-outs                    *)
  MaxLost,     (* bound: how many datagrams are lost                       *)
  MaxCopies    (* bound: how many are duplicated                           *)

ASSUME AddressAssumption == Server \notin Clients
ASSUME InputAssumption ==
  /\ Messages \subseteq Seq({"p", "n"}) /\ PortTexts \subseteq Seq(0 .. 9)
  /\ Texts \subseteq Seq(0 .. 10)

(* A port is read with the powers of ten that its digits stand for, which   *)
(* are ints: of a longer text (more than ten digits, where an int has 32    *)
(* bits) some would not fit, and what comes out is not described here.      *)
ASSUME PortAssumption ==
  /\ MaxInt \in Nat /\ (MaxInt + 1) % 2^15 = 0 /\ StdioRoom \in Nat \ {0}
  /\ \A n \in PortTexts : n # <<>> => 10^(Len(n) - 1) <= MaxInt
ASSUME BoundAssumption ==
  /\ DgramSize \in Nat /\ MaxTurns \in Nat /\ MaxTimeouts \in Nat
  /\ MaxLost \in Nat /\ MaxCopies \in Nat

Dot == 10      (* a digit is its value                                     *)
ip_max_dots == 3
max_ip_num == 255
num_max_len == 4
min_port_value == 1024
max_port_value == 49151

VARIABLES
  prog,        (* "6_06" or "6_07": which pair is run                      *)
  tty,         (* the server's standard output is a terminal               *)
  port,        (* the port the server is bound to; 0 before                *)
  counter,     (* dg_counter                                               *)
  total,       (* dg_total_size                                            *)
  addr,        (* whose address addr holds; at first the server's own      *)
  client,      (* what each client is doing                                *)
  asked,       (* what those who sent to this host were given              *)
  told,        (* the two numbers in the answer it got                     *)
  net,         (* the datagrams on their way to the server                 *)
  back,        (* the answers on their way to the clients                  *)
  losses, copies,      (* how many were lost, and duplicated               *)
  held,        (* whose headers its stdio stream holds, not yet written    *)
  out,         (* the write() calls of the printing server                 *)
  log          (* history: what the turns of the server's loop received    *)

vars == <<prog, tty, port, counter, total, addr, client, asked, told, net, back,
          losses, copies, held, out, log>>

-----------------------------------------------------------------------------
Least(S) == CHOOSE i \in S : \A j \in S : i <= j
Number(digits) == FoldLeft(LAMBDA n, d : 10 * n + d, 0, digits)

(* get_num_from_ip(): one dot is skipped, then the digits up to the next    *)
(* are taken; no digits make 0.  The text from there on is what is left.    *)
SkipDot(text) == IF text # <<>> /\ Head(text) = Dot THEN Tail(text) ELSE text
Field(text) ==
  LET dots == {i \in DOMAIN text : text[i] = Dot}
  IN  IF dots = {} THEN text ELSE SubSeq(text, 1, Least(dots) - 1)
Part(text) == Field(SkipDot(text))
PartIsValid(text) ==
  Len(Part(text)) < num_max_len /\ Number(Part(text)) <= max_ip_num
AfterPart(text) ==
  SubSeq(SkipDot(text), Len(Part(text)) + 1, Len(SkipDot(text)))

(* What is left of a text after n numbers.                                  *)
Left(text, n) == LET left[k \in 0 .. n] == IF k = 0 THEN text ELSE AfterPart(left[k - 1])
                 IN  left[n]
check_ip_is_valid(text) ==
  /\ Cardinality({i \in DOMAIN text : text[i] = Dot}) = ip_max_dots
  /\ \A n \in 0 .. ip_max_dots : Left(text, n) # <<>> => PartIsValid(Left(text, n))
get_ip_as_num(text) == [k \in 1 .. 4 |-> Number(Part(Left(text, k - 1)))]

(* inet_aton(): up to four numbers, octal ones after a 0; the last fills    *)
(* the bytes that are left.                                                 *)
Value(digits) ==
  IF digits # <<>> /\ Head(digits) = 0 THEN FoldLeft(LAMBDA n, d : 8 * n + d, 0, digits)
  ELSE Number(digits)
Numbers(text) == 1 + Cardinality({i \in DOMAIN text : text[i] = Dot})
NumberAt(text, k) == Part(Left(text, k - 1))
aton_is_valid(text) ==
  LET last == Numbers(text)
  IN  /\ text # <<>> /\ Head(text) # Dot /\ last <= 4
      /\ \A k \in 1 .. last :
           LET digits == NumberAt(text, k)
           IN  /\ digits # <<>>
               /\ Head(digits) = 0 => \A i \in DOMAIN digits : digits[i] < 8
               /\ Value(digits) < IF k < last THEN 2^8 ELSE 2^(8 * (5 - last))
inet_aton(text) ==
  LET last == Numbers(text)
  IN  [k \in 1 .. 4 |-> IF k < last THEN Value(NumberAt(text, k))
                        ELSE (Value(NumberAt(text, last)) \div 2^(8 * (4 - k))) % 2^8]

(* 6_06 gathers ports in an unsigned short, 6_07 in an int that wraps.      *)
get_port_as_num(digits) == Number(digits) % 2^16
get_num(digits) == ((Number(digits) + MaxInt + 1) % (2 * (MaxInt + 1))) - MaxInt - 1
PortOf(digits) == IF prog = "6_06" THEN get_port_as_num(digits) ELSE get_num(digits)
check_port_is_valid(p) == min_port_value <= p /\ p <= max_port_value

(* The length of the answer: two numbers and a space.  An int has at most   *)
(* ten digits.                                                              *)
Digits(n) == Least({k \in 1 .. 10 : k = 10 \/ n < 10^k})
Width(n) == IF n < 0 THEN 1 + Digits(-n) ELSE Digits(n)
AnswerText(n, t) == [i \in 1 .. Width(n) + 1 + Width(t) |-> "p"]

Received(msg) == SubSeq(msg, 1, IF Len(msg) < DgramSize THEN Len(msg) ELSE DgramSize)
MutShown(msg) ==
  [i \in 1 .. DgramSize |-> IF i <= Len(msg) /\ msg[i] = "p" THEN "p" ELSE "?"]
Shown(msg) == [i \in DOMAIN Received(msg) |-> IF msg[i] = "p" THEN "p" ELSE "?"]

-----------------------------------------------------------------------------
Init ==
  /\ prog \in {"6_06", "6_07"} /\ tty \in BOOLEAN /\ (prog = "6_07" => ~tty)
  /\ port = 0 /\ counter = 0 /\ total = 0 /\ addr = Server
  /\ client = [c \in Clients |-> "new"]
  /\ asked = [c \in Clients |-> [text |-> <<>>, number |-> <<>>, msg |-> <<>>]]
  /\ told = [c \in Clients |-> <<>>]
  /\ net = {} /\ back = {} /\ losses = 0 /\ copies = 0
  /\ held = <<>> /\ out = <<>> /\ log = <<>>

(* The server starts; with a bad port it ends before it has done anything.  *)
Start(n) ==
  /\ port = 0 /\ check_port_is_valid(PortOf(n))
  /\ port' = PortOf(n)
  /\ UNCHANGED <<prog, tty, counter, total, addr, client, asked, told, net, back,
                 losses, copies, held, out, log>>

(* A client or sender runs until its datagram is sent.                      *)
AddressIsValid(text) ==
  IF prog = "6_06" THEN check_ip_is_valid(text) ELSE aton_is_valid(text)
AddressOf(text) == IF prog = "6_06" THEN get_ip_as_num(text) ELSE inet_aton(text)
Asks(c, text, n, msg) ==
  /\ client[c] = "new"
  /\ LET sent == AddressIsValid(text) /\ check_port_is_valid(PortOf(n))
         here == sent /\ AddressOf(text) = Host
     IN  /\ client' = [client EXCEPT ![c] = IF ~sent THEN "failed"
                        ELSE IF prog = "6_06" THEN "done" ELSE "waits"]
         /\ IF ~here THEN UNCHANGED <<asked, net>>
            ELSE /\ asked' = [asked EXCEPT ![c] = [text |-> text, number |-> n, msg |-> msg]]
                 /\ net' = net \cup {[from |-> c, to |-> PortOf(n), msg |-> msg]}
  /\ UNCHANGED <<prog, tty, port, counter, total, addr, told, back, losses, copies,
                 held, out, log>>

(* One turn of 6_06's loop: header and line end go through the stdio        *)
(* stream, the content is written at once.  On a terminal the stream writes *)
(* each line out; elsewhere when its buffer is full.  Headers are taken to  *)
(* be of one length, and the one that finds it full to stay behind whole.   *)
Headers(senders) == [what |-> "headers", of |-> senders, msg |-> <<>>]
Content(d) == [what |-> "content", of |-> <<d.from>>, msg |-> Shown(d.msg)]
Shows(d) ==
  /\ prog = "6_06"
  /\ addr' = d.from
  /\ \/ tty /\ out' = out \o <<Headers(<<d.from>>), Content(d)>> /\ UNCHANGED held
     \/ /\ ~tty /\ Len(held) < StdioRoom
        /\ held' = Append(held, d.from) /\ out' = Append(out, Content(d))
     \/ /\ ~tty /\ Len(held) >= StdioRoom
        /\ held' = <<d.from>> /\ out' = out \o <<Headers(held), Content(d)>>
  /\ UNCHANGED <<counter, total, back>>

Sends(to, n, t, others) ==
  IF to = Server
  THEN /\ net' = others \cup {[from |-> Server, to |-> port, msg |-> AnswerText(n, t)]}
       /\ UNCHANGED back
  ELSE /\ back' = back \cup {[to |-> to, n |-> n, t |-> t]}
       /\ net' = others

MutAnswers(to, size, others) ==
  /\ counter' = counter + 1 /\ total' = total + size
  /\ addr' = to
  /\ Sends(addr, counter', total', others)
QuietAnswers(to, size, others) ==
  /\ counter' = counter + 1 /\ total' = total + size
  /\ addr' = to
  /\ IF size = 0 THEN net' = others /\ UNCHANGED back
     ELSE Sends(to, counter', total', others)

(* One turn of 6_07's: size is the result of recvfrom(), to whom the address *)
(* stands in addr.  The test of len is true whatever was received.          *)
Answers(to, size, others) ==
  /\ counter' = counter + 1 /\ total' = total + size
  /\ addr' = to
  /\ Sends(to, counter', total', others)

(* A datagram is received; the network may have a copy of it.               *)
Receive(d) ==
  /\ port # 0 /\ d \in net /\ d.to = port /\ Len(log) < MaxTurns
  /\ log' = Append(log, [kind |-> "datagram", from |-> d.from,
                         size |-> Len(Received(d.msg))])
  /\ \E others \in {net \ {d}} \cup
        (IF copies < MaxCopies /\ d.from # Server THEN {net} ELSE {}) :
       /\ copies' = IF d \in others THEN copies + 1 ELSE copies
       /\ \/ Shows(d) /\ net' = others
          \/ /\ prog = "6_07"
             /\ Answers(d.from, Len(Received(d.msg)), others)
             /\ UNCHANGED <<held, out>>
  /\ UNCHANGED <<prog, tty, port, client, asked, told, losses>>

(* SO_RCVTIMEO: recvfrom() returns -1 and leaves addr and len alone.  6_06  *)
(* goes round its loop again; 6_07 takes it for a datagram.  One that the   *)
(* server sent itself would have been there already.                        *)
Timeouts == Cardinality({i \in DOMAIN log : log[i].kind = "timeout"})
TimeOut ==
  /\ prog = "6_07" /\ port # 0 /\ \A d \in net : d.from # Server
  /\ Len(log) < MaxTurns /\ Timeouts < MaxTimeouts
  /\ log' = Append(log, [kind |-> "timeout", from |-> addr, size |-> -1])
  /\ Answers(addr, -1, net)
  /\ UNCHANGED <<prog, tty, port, client, asked, told, losses, copies, held, out>>

(* The client's recvfrom(): its time-out was not set, because setsockopt()  *)
(* refuses the pointer it is given, so it waits for as long as it takes.    *)
Hear(c) ==
  /\ client[c] = "waits"
  /\ \E a \in back :
       /\ a.to = c
       /\ client' = [client EXCEPT ![c] = "done"]
       /\ told' = [told EXCEPT ![c] = <<a.n, a.t>>]
       /\ back' = back \ {a}
  /\ UNCHANGED <<prog, tty, port, counter, total, addr, asked, net, losses, copies,
                 held, out, log>>

(* The network drops a datagram, or nobody is there to receive it.          *)
Lose ==
  /\ losses < MaxLost /\ losses' = losses + 1
  /\ \/ \E d \in net : d.from # Server /\ net' = net \ {d} /\ UNCHANGED back
     \/ \E a \in back : back' = back \ {a} /\ UNCHANGED net
  /\ UNCHANGED <<prog, tty, port, counter, total, addr, client, asked, told, copies,
                 held, out, log>>

Unreachable ==
  /\ \/ \E d \in net : d.to # port /\ net' = net \ {d} /\ UNCHANGED back
     \/ \E a \in back : client[a.to] # "waits" /\ back' = back \ {a} /\ UNCHANGED net
  /\ UNCHANGED <<prog, tty, port, counter, total, addr, client, asked, told, losses,
                 copies, held, out, log>>

ReceiveFrom(c) == \E d \in net : d.from = c /\ Receive(d)

Next ==
  \/ \E n \in PortTexts : Start(n)
  \/ \E c \in Clients, text \in Texts, n \in PortTexts, msg \in Messages :
       Asks(c, text, n, msg)
  \/ \E c \in Clients \cup {Server} : ReceiveFrom(c)
  \/ TimeOut \/ Lose \/ Unreachable
  \/ \E c \in Clients : Hear(c)

(* The server's loop does not stop, it takes the datagrams of its queue in  *)
(* turn, and what the network does not lose arrives.                        *)
Spec ==
  /\ Init /\ [][Next]_vars
  /\ \A c \in Clients : WF_vars(ReceiveFrom(c)) /\ WF_vars(Hear(c))

-----------------------------------------------------------------------------
(* What a client is told is what the server had counted when it answered    *)
(* this client: the turns up to then, and the sum of what recvfrom()        *)
(* returned in them; nobody is told the numbers of somebody else, however   *)
(* the datagrams are reordered, lost or duplicated.  And if nothing comes   *)
(* in the server's first five seconds, it answers itself: from then on      *)
(* exactly one answer to itself is always under way; if the first thing to  *)
(* come is a datagram, there never is one.                                  *)
AnswersAreExact ==
  /\ \A c \in Clients : told[c] # <<>> =>
       LET n == told[c][1]
           sizes == [i \in 1 .. n |-> log[i].size]
       IN  /\ n \in DOMAIN log /\ log[n].from = c
           /\ told[c][2] = FoldLeft(LAMBDA x, y : x + y, 0, sizes)
  /\ prog = "6_07" =>
       Cardinality({d \in net : d.from = Server}) =
         (IF log # <<>> /\ log[1].kind = "timeout" THEN 1 ELSE 0)

(* The printing server shows what was sent to it, as it received it, cut at *)
(* dgram_size and with "?" for what cannot be printed; the sender had named *)
(* this host, but for a dot before the first number, which is passed over   *)
(* (and a number that is not there, which is 0), and, up to 2^16, this      *)
(* port.  On a terminal each content follows its own header; elsewhere the  *)
(* contents of StdioRoom datagrams come first, then their headers at once,  *)
(* and the last headers do not come out.                                    *)
FieldNumber(text, k) ==
  LET at(i) == Cardinality({j \in 1 .. i : text[j] = Dot})
      digits == {i \in DOMAIN text : text[i] # Dot /\ at(i) = k - 1}
  IN  IF digits = {} THEN 0
      ELSE Number(SubSeq(text, Least(digits), Least(digits) + Cardinality(digits) - 1))
Named(text) == [k \in 1 .. 4 |-> FieldNumber(text, k)]
IsContent(item, turn) ==
  /\ item.what = "content" /\ item.of = <<turn.from>> /\ Len(item.msg) = turn.size
  /\ \A j \in 1 .. turn.size : item.msg[j] = "p" <=> asked[turn.from].msg[j] = "p"
SentHere(turn) ==
  /\ Number(asked[turn.from].number) % 2^16 = port
  /\ Named(SkipDot(asked[turn.from].text)) = Host
ShownByLine ==
  /\ Len(out) = 2 * Len(log)
  /\ \A i \in DOMAIN log : out[2 * i - 1] = Headers(<<log[i].from>>) /\ IsContent(out[2 * i], log[i])
ShownByBlock ==
  /\ log = <<>> => out = <<>>
  /\ \A n \in 0 .. Len(log), k \in 1 .. StdioRoom :
       LET i == n * StdioRoom + k
           spot == n * (StdioRoom + 1) + k
       IN  i \in DOMAIN log =>
             /\ IsContent(out[spot], log[i])
             /\ n > 0 => out[n * (StdioRoom + 1)] =
                           Headers([j \in 1 .. StdioRoom |-> log[(n - 1) * StdioRoom + j].from])
             /\ i = Len(log) => Len(out) = spot
Printed ==
  prog = "6_06" =>
    /\ \A i \in DOMAIN log : SentHere(log[i])
    /\ IF tty THEN ShownByLine ELSE ShownByBlock

(* A datagram that is under way to the server is printed, or answered and   *)
(* the answer heard, unless the network loses something (or the bound on    *)
(* the server's turns is reached): time-outs and the server's talk with     *)
(* itself do not keep it from its clients.                                  *)
Served(c) ==
  IF prog = "6_06" THEN \E i \in DOMAIN log : log[i].from = c
  ELSE client[c] = "done"
EveryoneIsServed ==
  \A c \in Clients :
    (port # 0 /\ \E d \in net : d.from = c /\ d.to = port)
      ~> (Served(c) \/ losses > 0 \/ Len(log) = MaxTurns)
=============================================================================
