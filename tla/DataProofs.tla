----------------------------- MODULE DataProofs -----------------------------
(***************************************************************************)
(* Proofs about programs that hand on data.                                *)
(*                                                                         *)
(* Datagrams (6_06, 6_07), first: for any number of clients, any messages, *)
(* ports and addresses, any length of a datagram, and a network that       *)
(* loses, copies and reorders as much as it likes.                         *)
(*                                                                         *)
(* Then what MCFiles holds. FileCipher (5_06, as C): for every length of   *)
(* the file, every size of the buffer, any finite number of commands and   *)
(* any keys. FileFill (5_05, as F): for every size of the file and of the  *)
(* buffer, every stretch and any number of writes that fail or are cut     *)
(* short. IntReport (5_03, 2_54, as R): for every width of an int, every   *)
(* size of the buffer and any files. TextFilters (4_09_1, 4_09_2, 5_03,    *)
(* 5_28, 5_30, as Text): for every alphabet, any text, and any numbers of  *)
(* lines and of columns. The last part puts these four together.           *)
(***************************************************************************)
EXTENDS Datagrams, MCFiles, SumTheorems, SequenceTheorems, FiniteSetTheorems

Peers == Clients \cup {Server}
Turns == [kind : {"datagram", "timeout"}, from : Peers, size : Int]
Bytes == {"p", "n"}

(* What the first n turns received, and an answer that is right about them. *)
Sizes(n) == [i \in 1 .. n |-> log[i].size]
Exact(c, n, t) == n \in 1 .. Len(log) /\ log[n].from = c /\ t = SeqTotal(Sizes(n))

Types ==
  /\ log \in Seq(Turns) /\ addr \in Peers
  /\ told \in [Clients -> Seq(Int)]
  /\ \A d \in net : d.from \in Peers /\ d.msg \in Seq(Bytes)
  /\ \A a \in back : a.to \in Clients
Counted == prog = "6_07" => counter = Len(log) /\ total = SeqTotal(Sizes(Len(log)))
BackExact == \A a \in back : Exact(a.to, a.n, a.t)
ToldExact == \A c \in Clients : told[c] # <<>> => Exact(c, told[c][1], told[c][2])

(* The server's talk with itself: it begins when the first turn is a        *)
(* time-out and addr still holds the server's address, and never otherwise. *)
Own == {d \in net : d.from = Server}
OwnTalk ==
  prog = "6_07" =>
    /\ log = <<>> => addr = Server /\ Own = {}
    /\ log # <<>> =>
         /\ port # 0
         /\ log[1].kind = "datagram" => addr # Server /\ Own = {}
         /\ log[1].kind = "timeout" => \E d \in net : d.to = port /\ Own = {d}

DInv == Types /\ Counted /\ BackExact /\ ToldExact /\ OwnTalk

-----------------------------------------------------------------------------
(* The answer is a text of at least three characters. *)
LEMMA DigitsType == \A n : Digits(n) \in Nat
<1> SUFFICES ASSUME NEW n PROVE Digits(n) \in Nat
  OBVIOUS
<1> DEFINE T == {k \in 1 .. 10 : k = 10 \/ n < 10^k}
<1>1. T \in SUBSET Nat /\ 10 \in T
  OBVIOUS
<1> HIDE DEF T
<1>2. PICK k \in T : \A j \in T : k <= j
  BY <1>1, LeastOf
<1>3. Least(T) \in T
  BY <1>2 DEF Least
<1>4. Digits(n) = Least(T)
  BY DEF Digits, T
<1> QED BY <1>1, <1>3, <1>4

LEMMA AnswerType ==
  ASSUME NEW n, NEW t
  PROVE  AnswerText(n, t) \in Seq(Bytes)
<1>1. Width(n) \in Nat /\ Width(t) \in Nat
  BY DigitsType DEF Width
<1> DEFINE w == Width(n) + 1 + Width(t)
<1>2. w \in Nat
  BY <1>1
<1> HIDE DEF w
<1>3. [i \in 1 .. w |-> "p"] \in Seq(Bytes)
  BY <1>2 DEF Bytes
<1> QED BY <1>3 DEF AnswerText, w

(* What is received of a datagram is a datagram. *)
LEMMA ReceivedType ==
  ASSUME NEW msg \in Seq(Bytes)
  PROVE  /\ Len(Received(msg)) \in Nat /\ Len(Received(msg)) <= Len(msg)
         /\ Received(msg) \in Seq(Bytes)
         /\ \A j \in 1 .. Len(Received(msg)) : Received(msg)[j] = msg[j]
<1> DEFINE m == IF Len(msg) < DgramSize THEN Len(msg) ELSE DgramSize
<1>1. Len(msg) \in Nat /\ \A i \in 1 .. Len(msg) : msg[i] \in Bytes
  BY LenProperties, ElementOfSeq
<1>2. m \in Nat /\ m <= Len(msg)
  BY <1>1, BoundAssumption
<1> HIDE DEF m
<1>3. 1 \in Int /\ m \in Int /\ \A i \in 1 .. m : msg[i] \in Bytes
  BY <1>1, <1>2
<1>4. /\ SubSeq(msg, 1, m) \in Seq(Bytes)
      /\ Len(SubSeq(msg, 1, m)) = IF 1 <= m THEN m - 1 + 1 ELSE 0
      /\ \A i \in 1 .. m - 1 + 1 : SubSeq(msg, 1, m)[i] = msg[1 + i - 1]
  BY <1>3, SubSeqProperties
<1>5. Received(msg) = SubSeq(msg, 1, m)
  BY DEF Received, m
<1>6. Len(Received(msg)) = m
  BY <1>2, <1>4, <1>5
<1> QED BY <1>1, <1>2, <1>4, <1>5, <1>6

(* One turn more leaves the turns before it, and their sums, as they were.  *)
LEMMA SumsKept ==
  ASSUME log \in Seq(Turns), NEW e \in Turns, log' = Append(log, e)
  PROVE  /\ log' \in Seq(Turns) /\ Len(log) \in Nat /\ Len(log') = Len(log) + 1
         /\ log'[Len(log) + 1] = e /\ \A i \in 1 .. Len(log) : log'[i] = log[i]
         /\ \A n \in 1 .. Len(log) : Sizes(n)' = Sizes(n)
         /\ SeqTotal(Sizes(Len(log)))' = SeqTotal(Sizes(Len(log))) + e.size
<1>1. /\ log' \in Seq(Turns) /\ Len(log) \in Nat /\ Len(log') = Len(log) + 1
      /\ log'[Len(log) + 1] = e /\ \A i \in 1 .. Len(log) : log'[i] = log[i]
  BY AppendProperties, LenProperties
<1>2. ASSUME NEW n \in 1 .. Len(log) PROVE Sizes(n)' = Sizes(n)
  <2>1. \A i \in 1 .. n : log'[i] = log[i]
    BY <1>1
  <2> QED BY <2>1 DEF Sizes
<1>3. SeqTotal(Sizes(Len(log)))' = SeqTotal(Sizes(Len(log))) + e.size
  <2> DEFINE m == Len(log)
             s == [i \in 1 .. m |-> log[i].size]
             r == [i \in 1 .. m + 1 |-> log'[i].size]
  <2>1. \A x \in Turns : x.size \in Int
    BY DEF Turns
  <2>2. \A i \in 1 .. m : log[i] \in Turns
    BY ElementOfSeq
  <2>3. \A i \in 1 .. m : log[i].size \in Int
    BY <2>1, <2>2
  <2>4. m \in Nat /\ e.size \in Int /\ log'[m + 1].size = e.size
        /\ \A i \in 1 .. m : log'[i].size = log[i].size
    BY <1>1, <2>1
  <2> HIDE DEF m
  <2>5. s \in [1 .. m -> Int]
    BY <2>3
  <2>6. r \in [1 .. m + 1 -> Int] /\ r[m + 1] = e.size
    <3>1. \A i \in 1 .. m + 1 : i \in 1 .. m \/ i = m + 1
      BY <2>4
    <3>2. \A i \in 1 .. m + 1 : log'[i].size \in Int
      BY <2>3, <2>4, <3>1
    <3>3. m + 1 \in 1 .. m + 1
      BY <2>4
    <3> QED BY <2>4, <3>2, <3>3
  <2>7. \A i \in 1 .. m : r[i] = s[i]
    <3>1. \A i \in 1 .. m : i \in 1 .. m + 1
      BY <2>4
    <3> QED BY <2>4, <3>1
  <2> HIDE DEF s, r
  <2>8. SeqTotal(r) = SeqTotal(s) + r[m + 1]
    BY <2>4, <2>5, <2>6, <2>7, TotalMore
  <2>9. r = Sizes(Len(log))' /\ s = Sizes(Len(log))
    BY <1>1 DEF Sizes, r, s, m
  <2>10. SeqTotal(Sizes(Len(log)))' = SeqTotal(r)
    BY <2>9
  <2> QED BY <2>6, <2>8, <2>9, <2>10
<1> QED BY <1>1, <1>2, <1>3

LEMMA ExactKept ==
  ASSUME log \in Seq(Turns), NEW e \in Turns, log' = Append(log, e),
         NEW c, NEW n, NEW t, Exact(c, n, t)
  PROVE  n \in 1 .. Len(log') /\ log'[n].from = c /\ t = SeqTotal(Sizes(n)')
<1>1. n \in 1 .. Len(log) /\ log[n].from = c /\ t = SeqTotal(Sizes(n))
  BY DEF Exact
<1>2. /\ Len(log) \in Nat /\ Len(log') = Len(log) + 1
      /\ log'[n] = log[n] /\ Sizes(n)' = Sizes(n)
  BY <1>1, SumsKept
<1> QED BY <1>1, <1>2
-----------------------------------------------------------------------------
LEMMA DInit == Init => DInv
<1> SUFFICES ASSUME Init PROVE DInv
  OBVIOUS
<1>1. /\ log = <<>> /\ addr = Server /\ told = [c \in Clients |-> <<>>] /\ net = {} /\ back = {}
      /\ counter = 0 /\ total = 0
  BY DEF Init
<1>2. <<>> \in Seq(Turns) /\ <<>> \in Seq(Int) /\ Len(<<>>) = 0 /\ 1 .. 0 = {}
  OBVIOUS
<1>3. Types
  BY <1>1, <1>2 DEF Types, Peers
<1>4. SeqTotal(Sizes(0)) = 0
  <2>1. Sizes(0) \in [1 .. 0 -> Int]
    BY DEF Sizes
  <2> QED BY <2>1, TotalNone
<1>5. Counted
  BY <1>1, <1>2, <1>4 DEF Counted
<1>6. BackExact /\ ToldExact /\ OwnTalk
  BY <1>1 DEF BackExact, ToldExact, OwnTalk, Own
<1> QED BY <1>3, <1>5, <1>6 DEF DInv

(* A turn in which 6_07 answers: what it says is exact. *)
LEMMA AnswerExact ==
  ASSUME DInv, NEW e \in Turns, log' = Append(log, e), prog = "6_07", prog' = prog,
         NEW others \in SUBSET net, Answers(e.from, e.size, others), told' = told
  PROVE  Types' /\ Counted' /\ BackExact' /\ ToldExact'
<1>1. /\ Types /\ counter = Len(log) /\ total = SeqTotal(Sizes(Len(log)))
      /\ BackExact /\ ToldExact
  BY DEF DInv, Counted
<1>2. /\ log' \in Seq(Turns) /\ Len(log) \in Nat /\ Len(log') = Len(log) + 1
      /\ log'[Len(log) + 1] = e
      /\ SeqTotal(Sizes(Len(log)))' = SeqTotal(Sizes(Len(log))) + e.size
  BY <1>1, SumsKept DEF Types
<1>3. /\ counter' = counter + 1 /\ total' = total + e.size /\ addr' = e.from
      /\ Sends(e.from, counter', total', others)
  BY DEF Answers
<1>4. Counted'
  BY <1>1, <1>2, <1>3 DEF Counted
<1>5. e.from \in Peers
  BY DEF Turns
<1> PICK m, v : m = counter + 1 /\ v = total + e.size
  OBVIOUS
<1>6. counter' = m /\ total' = v /\ Exact(e.from, m, v)'
  <2>1. counter' = m /\ total' = v /\ m = Len(log') /\ m \in 1 .. Len(log')
    BY <1>1, <1>2, <1>3
  <2>2. log'[m].from = e.from
    BY <1>1, <1>2
  <2>3. v = SeqTotal(Sizes(Len(log))')
    BY <1>1, <1>2
  <2>4. Sizes(Len(log))' = Sizes(m)'
    BY <2>1 DEF Sizes
  <2>5. v = SeqTotal(Sizes(m)')
    BY <2>3, <2>4
  <2>6. Exact(e.from, m, v)'
    BY <2>1, <2>2, <2>5 DEF Exact
  <2> QED BY <2>1, <2>6
<1>7. \A d \in net' : d.from \in Peers /\ d.msg \in Seq(Bytes)
  <2>1. \A d \in others : d.from \in Peers /\ d.msg \in Seq(Bytes)
    BY <1>1 DEF Types
  <2>2. net' \subseteq others \cup {[from |-> Server, to |-> port, msg |-> AnswerText(counter', total')]}
    BY <1>3 DEF Sends
  <2>3. AnswerText(counter', total') \in Seq(Bytes)
    BY AnswerType
  <2> QED BY <2>1, <2>2, <2>3 DEF Peers
<1>8. \A a \in back' : a \in back \/ (a.to = e.from /\ a.n = counter' /\ a.t = total' /\ e.from # Server)
  BY <1>3 DEF Sends
<1>9. BackExact'
  <2> SUFFICES ASSUME NEW a \in back' PROVE Exact(a.to, a.n, a.t)'
    BY DEF BackExact
  <2>1. CASE a \in back
    BY <1>1, <2>1, ExactKept DEF Types, BackExact, Exact
  <2>2. CASE a \notin back
    BY <1>6, <1>8, <2>2 DEF Exact
  <2> QED BY <2>1, <2>2
<1>10. ToldExact'
  <2> SUFFICES ASSUME NEW c \in Clients, told[c] # <<>> PROVE Exact(c, told[c][1], told[c][2])'
    BY DEF ToldExact
  <2>1. Exact(c, told[c][1], told[c][2])
    BY <1>1 DEF ToldExact
  <2> QED BY <1>1, <2>1, ExactKept DEF Types, Exact
<1>11. Types'
  BY <1>1, <1>2, <1>3, <1>5, <1>7, <1>8 DEF Types, Peers
<1> QED BY <1>4, <1>9, <1>10, <1>11

(* A turn in which 6_06 prints. *)
LEMMA ShownInv ==
  ASSUME DInv, NEW e \in Turns, log' = Append(log, e), prog = "6_06", prog' = prog,
         net' \in SUBSET net, addr' \in Peers, told' = told, back' = back
  PROVE  DInv'
<1>1. Types /\ BackExact /\ ToldExact
  BY DEF DInv
<1>2. Types'
  BY <1>1, SumsKept DEF Types
<1>3. BackExact'
  <2> SUFFICES ASSUME NEW a \in back PROVE Exact(a.to, a.n, a.t)'
    BY DEF BackExact
  <2> QED BY <1>1, ExactKept DEF Types, BackExact, Exact
<1>4. ToldExact'
  <2> SUFFICES ASSUME NEW c \in Clients, told[c] # <<>> PROVE Exact(c, told[c][1], told[c][2])'
    BY DEF ToldExact
  <2>1. Exact(c, told[c][1], told[c][2])
    BY <1>1 DEF ToldExact
  <2> QED BY <1>1, <2>1, ExactKept DEF Types, Exact
<1>5. Counted' /\ OwnTalk'
  BY DEF Counted, OwnTalk
<1> QED BY <1>2, <1>3, <1>4, <1>5 DEF DInv

LEMMA FirstKind ==
  ASSUME Types, log # <<>>
  PROVE  log[1] \in Turns /\ log[1].kind \in {"datagram", "timeout"}
<1>1. Len(log) \in Nat /\ Len(log) # 0
  BY EmptySeq, LenProperties DEF Types
<1>2. 1 \in 1 .. Len(log)
  BY <1>1
<1>3. log[1] \in Turns
  BY <1>2, ElementOfSeq DEF Types
<1> QED BY <1>3 DEF Turns

(* The first turn decides; later ones leave it where it is. *)
LEMMA FirstTurn ==
  ASSUME Types, NEW e \in Turns, log' = Append(log, e)
  PROVE  /\ log' # <<>>
         /\ log = <<>> => log'[1] = e
         /\ log # <<>> => log'[1] = log[1] /\ log[1] \in Turns
<1>1. /\ log' \in Seq(Turns) /\ Len(log) \in Nat /\ Len(log') = Len(log) + 1
      /\ log'[Len(log) + 1] = e /\ \A i \in 1 .. Len(log) : log'[i] = log[i]
  BY SumsKept DEF Types
<1>2. log' # <<>>
  <2>1. Len(<<>>) = 0
    OBVIOUS
  <2> QED BY <1>1, <2>1
<1>3. log = <<>> => Len(log) = 0
  OBVIOUS
<1>4. log # <<>> => 1 \in 1 .. Len(log) /\ log[1] \in Turns
  <2>1. log # <<>> => Len(log) # 0
    BY EmptySeq DEF Types
  <2> QED BY <1>1, <2>1, FirstKind
<1> QED BY <1>1, <1>2, <1>3, <1>4

LEMMA ReceiveInv ==
  ASSUME DInv, NEW d \in net, Receive(d)
  PROVE  DInv'
<1> DEFINE e == [kind |-> "datagram", from |-> d.from, size |-> Len(Received(d.msg))]
<1>1. Types
  BY DEF DInv
<1>2. d.from \in Peers /\ Len(Received(d.msg)) \in Nat
  BY <1>1, ReceivedType DEF Types
<1>3. e \in Turns
  BY <1>2 DEF Turns
<1>4. /\ port # 0 /\ d.to = port /\ log' = Append(log, e)
      /\ UNCHANGED <<prog, port, told>>
  BY DEF Receive
<1>5. PICK others : /\ others \in {net \ {d}} \cup {net}
                    /\ d.from = Server => others = net \ {d}
                    /\ \/ Shows(d) /\ net' = others
                       \/ prog = "6_07" /\ Answers(d.from, Len(Received(d.msg)), others)
  BY DEF Receive
<1>6. others \in SUBSET net
  BY <1>5
<1>7. CASE Shows(d) /\ net' = others
  BY <1>1, <1>2, <1>3, <1>4, <1>6, <1>7, ShownInv DEF Shows
<1>8. CASE prog = "6_07" /\ Answers(d.from, Len(Received(d.msg)), others)
  <2>1. e.from = d.from /\ e.size = Len(Received(d.msg)) /\ e.kind = "datagram"
    OBVIOUS
  <2> HIDE DEF e
  <2>2. Types' /\ Counted' /\ BackExact' /\ ToldExact'
    BY <1>3, <1>4, <1>6, <1>8, <2>1, AnswerExact
  <2>3. addr' = d.from /\ Sends(d.from, counter', total', others)
    BY <1>8 DEF Answers
  <2>4. /\ log' # <<>> /\ log = <<>> => log'[1] = e
        /\ log # <<>> => log'[1] = log[1] /\ log[1] \in Turns
    BY <1>1, <1>3, <1>4, FirstTurn
  <2>5. OwnTalk
    BY DEF DInv
  <2>6. OwnTalk'
    <3>1. CASE d.from = Server
      <4> DEFINE own == [from |-> Server, to |-> port, msg |-> AnswerText(counter', total')]
      <4>1. d \in Own
        BY <3>1 DEF Own
      <4>2. log # <<>> /\ log[1].kind = "timeout"
        BY <1>8, <2>4, <2>5, <4>1 DEF OwnTalk, Turns
      <4>3. Own = {d}
        BY <1>8, <2>5, <4>1, <4>2 DEF OwnTalk
      <4>4. others = net \ {d} /\ net' = others \cup {own}
        BY <1>5, <2>3, <3>1 DEF Sends
      <4>5. Own' = {own}
        BY <4>3, <4>4 DEF Own
      <4>6. own \in net' /\ own.to = port
        BY <4>4
      <4> HIDE DEF own
      <4>7. \E x \in net' : x.to = port' /\ Own' = {x}
        BY <1>4, <4>5, <4>6
      <4> QED BY <1>4, <2>4, <4>2, <4>7 DEF OwnTalk
    <3>2. CASE d.from # Server
      <4>1. net' = others /\ Own' = Own
        BY <1>5, <2>3, <3>2 DEF Sends, Own
      <4>2. CASE log = <<>>
        BY <1>4, <1>8, <2>1, <2>3, <2>4, <2>5, <3>2, <4>1, <4>2 DEF OwnTalk
      <4>3. CASE log # <<>>
        <5>1. log[1].kind = "timeout" => \E x \in net' : x.to = port' /\ Own' = {x}
          <6> SUFFICES ASSUME log[1].kind = "timeout" PROVE \E x \in net' : x.to = port' /\ Own' = {x}
            OBVIOUS
          <6>1. PICK x \in net : x.to = port /\ Own = {x}
            BY <1>8, <2>5, <4>3 DEF OwnTalk
          <6>2. x \in net'
            BY <4>1, <6>1 DEF Own
          <6> QED BY <1>4, <4>1, <6>1, <6>2
        <5>2. log[1].kind = "datagram" => addr' # Server /\ Own' = {}
          BY <1>8, <2>3, <2>5, <3>2, <4>1, <4>3 DEF OwnTalk
        <5> QED BY <1>4, <2>4, <4>3, <5>1, <5>2 DEF OwnTalk
      <4> QED BY <4>2, <4>3
    <3> QED BY <3>1, <3>2
  <2> QED BY <2>2, <2>6 DEF DInv
<1> QED BY <1>5, <1>7, <1>8

LEMMA TimeOutInv ==
  ASSUME DInv, TimeOut
  PROVE  DInv'
<1> DEFINE e == [kind |-> "timeout", from |-> addr, size |-> -1]
<1>1. Types /\ OwnTalk
  BY DEF DInv
<1>2. e \in Turns
  BY <1>1 DEF Turns, Types
<1>3. e.from = addr /\ e.size = -1 /\ e.kind = "timeout"
  OBVIOUS
<1>4. /\ prog = "6_07" /\ port # 0 /\ (\A d \in net : d.from # Server) /\ log' = Append(log, e)
      /\ Answers(addr, -1, net) /\ UNCHANGED <<prog, port, told>>
  BY DEF TimeOut
<1> HIDE DEF e
<1>5. Types' /\ Counted' /\ BackExact' /\ ToldExact'
  <2>1. net \in SUBSET net
    OBVIOUS
  <2> QED BY <1>2, <1>3, <1>4, <2>1, AnswerExact
<1>6. addr' = addr /\ Sends(addr, counter', total', net) /\ Own = {}
  BY <1>4 DEF Answers, Own
<1>7. /\ log' # <<>> /\ log = <<>> => log'[1] = e
      /\ log # <<>> => log'[1] = log[1] /\ log[1] \in Turns
  BY <1>1, <1>2, <1>4, FirstTurn
<1>8. CASE log = <<>>
  <2> DEFINE own == [from |-> Server, to |-> port, msg |-> AnswerText(counter', total')]
  <2>1. addr = Server
    BY <1>1, <1>4, <1>8 DEF OwnTalk
  <2>2. net' = net \cup {own}
    BY <1>6, <2>1 DEF Sends
  <2>3. Own' = {own} /\ own \in net' /\ own.to = port
    BY <1>6, <2>2 DEF Own
  <2> HIDE DEF own
  <2>4. \E x \in net' : x.to = port' /\ Own' = {x}
    BY <1>4, <2>3
  <2>5. OwnTalk'
    BY <1>3, <1>4, <1>7, <1>8, <2>4 DEF OwnTalk
  <2> QED BY <1>5, <2>5 DEF DInv
<1>9. CASE log # <<>>
  <2>1. log[1].kind # "timeout"
    BY <1>1, <1>4, <1>6, <1>9 DEF OwnTalk
  <2>2. addr # Server /\ log[1].kind = "datagram"
    BY <1>1, <1>4, <1>7, <1>9, <2>1 DEF OwnTalk, Turns
  <2>3. net' = net /\ Own' = {}
    BY <1>6, <2>2 DEF Sends, Own
  <2>4. OwnTalk'
    BY <1>4, <1>6, <1>7, <1>9, <2>2, <2>3 DEF OwnTalk
  <2> QED BY <1>5, <2>4 DEF DInv
<1> QED BY <1>8, <1>9

-----------------------------------------------------------------------------
(* The clients and the network: the log stays as it is. *)
LEMMA StartInv ==
  ASSUME DInv, NEW n, Start(n)
  PROVE  DInv'
<1>1. port = 0 /\ UNCHANGED <<prog, counter, total, addr, told, net, back, log>>
  BY DEF Start
<1>2. log = <<>> \/ prog # "6_07"
  BY <1>1 DEF DInv, OwnTalk
<1>3. OwnTalk'
  BY <1>1, <1>2 DEF DInv, OwnTalk, Own
<1> QED BY <1>1, <1>3 DEF DInv, Types, Counted, BackExact, ToldExact, Exact, Sizes

LEMMA QuietInv ==
  ASSUME DInv, UNCHANGED <<prog, port, counter, total, addr, log>>,
         told' \in [Clients -> Seq(Int)],
         \A c \in Clients : told'[c] # <<>> => Exact(c, told'[c][1], told'[c][2]),
         back' \in SUBSET back, prog = "6_07" => Own' = Own,
         \A d \in net' : d.from \in Peers /\ d.msg \in Seq(Bytes)
  PROVE  DInv'
<1>1. Types' /\ Counted'
  BY DEF DInv, Types, Counted, Sizes
<1>2. \A c, n, t : Exact(c, n, t) => n \in 1 .. Len(log') /\ log'[n].from = c /\ t = SeqTotal(Sizes(n)')
  BY DEF Exact, Sizes
<1>3. BackExact' /\ ToldExact'
  BY <1>2 DEF DInv, BackExact, ToldExact, Exact
<1>4. OwnTalk'
  <2>1. \A d : d \in Own' => d \in net'
    BY DEF Own
  <2> QED BY <2>1 DEF DInv, OwnTalk
<1> QED BY <1>1, <1>3, <1>4 DEF DInv

LEMMA AsksInv ==
  ASSUME DInv, NEW c \in Clients, NEW ip, NEW n, NEW msg \in Messages, Asks(c, ip, n, msg)
  PROVE  DInv'
<1>1. /\ UNCHANGED <<prog, port, counter, total, addr, log, told, back>>
      /\ \/ net' = net
         \/ net' = net \cup {[from |-> c, to |-> PortOf(n), msg |-> msg]}
  BY DEF Asks
<1>2. msg \in Seq(Bytes) /\ c # Server /\ c \in Peers
  BY InputAssumption, AddressAssumption DEF Bytes, Peers
<1>3. Own' = Own
  BY <1>1, <1>2 DEF Own
<1>4. \A d \in net' : d.from \in Peers /\ d.msg \in Seq(Bytes)
  BY <1>1, <1>2 DEF DInv, Types
<1> QED BY <1>1, <1>3, <1>4, QuietInv DEF DInv, Types, ToldExact

LEMMA HearInv ==
  ASSUME DInv, NEW c \in Clients, Hear(c)
  PROVE  DInv'
<1>1. PICK a \in back : a.to = c /\ told' = [told EXCEPT ![c] = <<a.n, a.t>>] /\ back' = back \ {a}
  BY DEF Hear
<1>2. UNCHANGED <<prog, port, counter, total, addr, log, net>>
  BY DEF Hear
<1>3. Exact(c, a.n, a.t) /\ Types /\ ToldExact
  BY <1>1 DEF DInv, BackExact
<1>4. a.n \in Int /\ a.t \in Int
  <2>1. Len(log) \in Nat /\ a.n \in 1 .. Len(log)
    BY <1>3, LenProperties DEF Types, Exact
  <2>2. a.n \in Nat /\ \A i \in 1 .. a.n : i \in 1 .. Len(log)
    BY <2>1
  <2>3. \A i \in 1 .. a.n : log[i].size \in Int
    <3>1. \A i \in 1 .. a.n : log[i] \in Turns
      BY <1>3, <2>2, ElementOfSeq DEF Types
    <3> QED BY <3>1 DEF Turns
  <2>4. Sizes(a.n) \in [1 .. a.n -> Int]
    BY <2>3 DEF Sizes
  <2> DEFINE m == a.n
             s == Sizes(m)
             r == [i \in 1 .. m + 1 |-> IF i <= m THEN s[i] ELSE 0]
  <2>5. m \in Nat /\ s \in [1 .. m -> Int]
    BY <2>2, <2>4
  <2> HIDE DEF m, s
  <2>6. r \in [1 .. m + 1 -> Int] /\ \A i \in 1 .. m : r[i] = s[i]
    BY <2>5
  <2> HIDE DEF r
  <2>7. SeqTotal(s) \in Int
    BY <2>5, <2>6, TotalMore
  <2> QED BY <1>3, <2>2, <2>7 DEF Exact, s, m
<1>5. told' \in [Clients -> Seq(Int)]
  BY <1>1, <1>3, <1>4 DEF Types
<1>6. \A b \in Clients : told'[b] # <<>> => Exact(b, told'[b][1], told'[b][2])
  <2> SUFFICES ASSUME NEW b \in Clients, told'[b] # <<>>
      PROVE  Exact(b, told'[b][1], told'[b][2])
    OBVIOUS
  <2>1. CASE b = c
    <3>1. told'[b] = <<a.n, a.t>>
      BY <1>1, <1>3, <2>1 DEF Types
    <3>2. told'[b][1] = a.n /\ told'[b][2] = a.t
      BY <3>1
    <3> QED BY <1>3, <2>1, <3>2
  <2>2. CASE b # c
    <3>1. told'[b] = told[b]
      BY <1>1, <1>3, <2>2 DEF Types
    <3> QED BY <1>3, <3>1 DEF ToldExact
  <2> QED BY <2>1, <2>2
<1>7. Own' = Own
  BY <1>2 DEF Own
<1> QED BY <1>1, <1>2, <1>3, <1>5, <1>6, <1>7, QuietInv DEF Types

LEMMA NetworkInv ==
  ASSUME DInv, Lose \/ Unreachable
  PROVE  DInv'
<1>1. /\ UNCHANGED <<prog, port, counter, total, addr, log, told>>
      /\ net' \in SUBSET net /\ back' \in SUBSET back
      /\ \/ net' = net
         \/ \E d \in net : (d.from # Server \/ d.to # port) /\ net' = net \ {d}
  <2>1. CASE Lose
    BY <2>1 DEF Lose
  <2>2. CASE Unreachable
    BY <2>2 DEF Unreachable
  <2> QED BY <2>1, <2>2
<1>2. Types /\ ToldExact /\ OwnTalk
  BY DEF DInv
<1>3. \A d \in net' : d.from \in Peers /\ d.msg \in Seq(Bytes)
  BY <1>1, <1>2 DEF Types
<1>4. ASSUME prog = "6_07" PROVE Own' = Own
  <2>1. \A d \in Own : d.to = port
    <3>1. CASE log = <<>>
      BY <1>2, <1>4, <3>1 DEF OwnTalk
    <3>2. CASE log # <<>>
      <4>1. log[1].kind \in {"datagram", "timeout"}
        BY <1>2, <3>2, FirstKind
      <4> QED BY <1>2, <1>4, <3>2, <4>1 DEF OwnTalk
    <3> QED BY <3>1, <3>2
  <2> QED BY <1>1, <2>1 DEF Own
<1>5. told' \in [Clients -> Seq(Int)]
  BY <1>1, <1>2 DEF Types
<1>6. \A c \in Clients : told'[c] # <<>> => Exact(c, told'[c][1], told'[c][2])
  BY <1>1, <1>2 DEF ToldExact
<1> QED BY <1>1, <1>3, <1>4, <1>5, <1>6, QuietInv

LEMMA DNext == DInv /\ [Next]_vars => DInv'
<1> SUFFICES ASSUME DInv, [Next]_vars PROVE DInv'
  OBVIOUS
<1>1. CASE UNCHANGED vars
  <2>1. UNCHANGED <<prog, port, counter, total, addr, told, net, back, log>>
    BY <1>1 DEF vars
  <2> QED BY <2>1 DEF DInv, Types, Counted, BackExact, ToldExact, OwnTalk, Own, Exact, Sizes
<1>2. ASSUME NEW c \in Clients \cup {Server}, ReceiveFrom(c) PROVE DInv'
  BY <1>2, ReceiveInv DEF ReceiveFrom
<1>3. CASE Next
  BY <1>2, <1>3, StartInv, AsksInv, TimeOutInv, NetworkInv, HearInv DEF Next
<1> QED BY <1>1, <1>3

LEMMA DExact == DInv => AnswersAreExact
<1> SUFFICES ASSUME DInv PROVE AnswersAreExact
  OBVIOUS
<1>1. Types /\ ToldExact /\ OwnTalk
  BY DEF DInv
<1>2. ASSUME NEW c \in Clients, told[c] # <<>>
      PROVE  LET n == told[c][1]
                 sizes == [i \in 1 .. n |-> log[i].size]
             IN  /\ n \in DOMAIN log /\ log[n].from = c
                 /\ told[c][2] = FoldLeft(LAMBDA x, y : x + y, 0, sizes)
  <2>1. Exact(c, told[c][1], told[c][2])
    BY <1>1, <1>2 DEF ToldExact
  <2>2. DOMAIN log = 1 .. Len(log)
    BY <1>1, LenProperties DEF Types
  <2> QED BY <2>1, <2>2 DEF Exact, Sizes, SeqTotal
<1>3. ASSUME prog = "6_07"
      PROVE  Cardinality({d \in net : d.from = Server}) =
               (IF log # <<>> /\ log[1].kind = "timeout" THEN 1 ELSE 0)
  <2>1. \A d : Cardinality({d}) = 1
    BY FS_Singleton
  <2>2. Cardinality({}) = 0
    BY FS_EmptySet
  <2>3. CASE log # <<>> /\ log[1].kind = "timeout"
    <3>1. \E d \in net : Own = {d}
      BY <1>1, <1>3, <2>3 DEF OwnTalk
    <3> QED BY <2>1, <2>3, <3>1 DEF Own
  <2>4. CASE log # <<>> /\ log[1].kind # "timeout"
    <3>1. log[1].kind = "datagram"
      <4>1. log[1].kind \in {"datagram", "timeout"}
        BY <1>1, <2>4, FirstKind
      <4> QED BY <2>4, <4>1
    <3>2. Own = {}
      BY <1>1, <1>3, <2>4, <3>1 DEF OwnTalk
    <3> QED BY <2>2, <2>4, <3>2 DEF Own
  <2>5. CASE log = <<>>
    <3>1. Own = {}
      BY <1>1, <1>3, <2>5 DEF OwnTalk
    <3> QED BY <2>2, <2>5, <3>1 DEF Own
  <2> QED BY <2>3, <2>4, <2>5
<1> QED BY <1>2, <1>3 DEF AnswersAreExact

(* Whatever the network does, a client of 6_07 is told what the server had  *)
(* counted when it answered this client; and the server talks to itself for *)
(* ever, one answer at a time, just when its first turn is a time-out.      *)
THEOREM AnswersExact == Spec => []AnswersAreExact
<1> QED BY DInit, DNext, DExact, PTL DEF Spec
-----------------------------------------------------------------------------
(***************************************************************************)
(* Part 2.  The address: taking numbers off the front of a text one after  *)
(* another, as get_num_from_ip() does, reads what stands between the dots. *)
(***************************************************************************)

Symbols == 0 .. 10

(* Where the number that begins after position a of u ends. *)
DotsAfter(u, a) == {i \in DOMAIN u : i > a /\ u[i] = Dot}
NextDot(u, a) == IF DotsAfter(u, a) = {} THEN Len(u) + 1 ELSE Least(DotsAfter(u, a))

LEMMA NextDotType ==
  ASSUME NEW u \in Seq(Symbols), NEW a \in 0 .. Len(u) + 1
  PROVE  /\ Len(u) \in Nat /\ DOMAIN u = 1 .. Len(u)
         /\ NextDot(u, a) \in 1 .. Len(u) + 1
         /\ a < NextDot(u, a) \/ NextDot(u, a) = Len(u) + 1
         /\ NextDot(u, a) <= Len(u) => NextDot(u, a) > a /\ u[NextDot(u, a)] = Dot
         /\ \A i \in 1 .. Len(u) : a < i /\ i < NextDot(u, a) => u[i] # Dot
<1>1. Len(u) \in Nat /\ DOMAIN u = 1 .. Len(u)
  BY LenProperties
<1>2. CASE DotsAfter(u, a) = {}
  <2>1. NextDot(u, a) = Len(u) + 1
    BY <1>2 DEF NextDot
  <2>2. \A i \in 1 .. Len(u) : a < i => u[i] # Dot
    BY <1>1, <1>2 DEF DotsAfter
  <2> QED BY <1>1, <2>1, <2>2
<1>3. CASE DotsAfter(u, a) # {}
  <2>1. DotsAfter(u, a) \in SUBSET Nat
    BY <1>1 DEF DotsAfter
  <2>2. PICK d \in DotsAfter(u, a) : \A e \in DotsAfter(u, a) : d <= e
    BY <1>3, <2>1, LeastOf
  <2>3. /\ NextDot(u, a) \in DotsAfter(u, a)
        /\ \A e \in DotsAfter(u, a) : NextDot(u, a) <= e
    BY <1>3, <2>2 DEF NextDot, Least
  <2> DEFINE b == NextDot(u, a)
  <2>4. b \in 1 .. Len(u) /\ b > a /\ u[b] = Dot
    BY <1>1, <2>3 DEF DotsAfter
  <2>5. \A i \in 1 .. Len(u) : a < i /\ u[i] = Dot => b <= i
    BY <1>1, <2>3 DEF DotsAfter
  <2> HIDE DEF b
  <2>6. \A i \in 1 .. Len(u) : a < i /\ i < b => u[i] # Dot
    BY <1>1, <2>4, <2>5
  <2>7. b \in 1 .. Len(u) + 1 /\ a < b
    BY <1>1, <2>4
  <2> QED BY <1>1, <2>4, <2>6, <2>7 DEF b
<1> QED BY <1>2, <1>3

LEMMA Stretch ==
  ASSUME NEW u \in Seq(Symbols), NEW a \in Nat \ {0}, NEW b \in Int, b <= Len(u)
  PROVE  /\ SubSeq(u, a, b) \in Seq(Symbols)
         /\ Len(SubSeq(u, a, b)) = IF a <= b THEN b - a + 1 ELSE 0
         /\ \A i \in 1 .. b - a + 1 : SubSeq(u, a, b)[i] = u[a + i - 1]
<1>1. Len(u) \in Nat /\ \A i \in 1 .. Len(u) : u[i] \in Symbols
  BY LenProperties, ElementOfSeq
<1>2. a \in Int /\ \A i \in a .. b : u[i] \in Symbols
  BY <1>1
<1> QED BY <1>2, SubSeqProperties

(* What follows a dot, or the beginning, up to the end. *)
After(u, a) == SubSeq(u, a + 1, Len(u))

LEMMA FieldIs ==
  ASSUME NEW u \in Seq(Symbols), NEW a \in 0 .. Len(u) + 1
  PROVE  Field(After(u, a)) = SubSeq(u, a + 1, NextDot(u, a) - 1)
<1> DEFINE v == After(u, a)
           b == NextDot(u, a)
           n == Len(u)
           dots == {i \in DOMAIN v : v[i] = Dot}
<1>1. /\ n \in Nat /\ DOMAIN u = 1 .. n
      /\ b \in 1 .. n + 1 /\ (a < b \/ b = n + 1) /\ (b <= n => b > a /\ u[b] = Dot)
      /\ \A i \in 1 .. n : a < i /\ i < b => u[i] # Dot
  BY NextDotType
<1>2. /\ v \in Seq(Symbols) /\ Len(v) = IF a + 1 <= n THEN n - (a + 1) + 1 ELSE 0
      /\ \A i \in 1 .. n - (a + 1) + 1 : v[i] = u[a + 1 + i - 1]
  <2>1. a + 1 \in Nat \ {0} /\ n \in Int /\ n <= n
    BY <1>1
  <2> QED BY <2>1, Stretch DEF After
<1> HIDE DEF v, b, n
<1>3. DOMAIN v = 1 .. Len(v)
  BY <1>2, LenProperties
<1>4. \A i \in DOMAIN v : i \in Nat \ {0} /\ a + i \in 1 .. n /\ v[i] = u[a + i]
  <2>1. a \in Nat
    BY <1>1
  <2> QED BY <1>1, <1>2, <1>3, <2>1
<1>5. CASE b = n + 1
  <2>1. dots = {}
    BY <1>1, <1>4, <1>5
  <2>2. b - 1 = n
    BY <1>1, <1>5
  <2> QED BY <2>1, <2>2 DEF Field, v, b, n, After
<1>6. CASE b # n + 1
  <2>1. a \in Nat /\ b \in 1 .. n /\ a < b /\ u[b] = Dot /\ a + 1 <= n
    BY <1>1, <1>6
  <2> DEFINE m == b - a
  <2>2. m \in Nat \ {0} /\ m \in 1 .. Len(v) /\ a + m = b /\ m <= n - a /\ Len(v) = n - a
    BY <1>1, <1>2, <2>1
  <2>3. m \in dots
    BY <1>3, <1>4, <2>1, <2>2
  <2>4. \A i \in dots : m <= i
    <3> SUFFICES ASSUME NEW i \in DOMAIN v, v[i] = Dot PROVE m <= i
      OBVIOUS
    <3>1. i \in Nat \ {0} /\ a + i \in 1 .. n /\ u[a + i] = Dot
      BY <1>4
    <3>2. ~(a + i < b)
      BY <1>1, <2>1, <3>1
    <3> QED BY <2>1, <2>2, <3>1, <3>2
  <2> HIDE DEF m, dots
  <2>5. dots \in SUBSET Nat
    BY <1>4 DEF dots
  <2>6. Least(dots) = m
    <3>1. Least(dots) \in dots /\ \A j \in dots : Least(dots) <= j
      BY <2>3, <2>4 DEF Least
    <3>2. Least(dots) \in Nat /\ Least(dots) <= m /\ m <= Least(dots)
      BY <2>3, <2>4, <2>5, <3>1
    <3> QED BY <2>2, <3>2
  <2>7. Field(v) = SubSeq(v, 1, m - 1)
    BY <2>3, <2>6 DEF Field, dots
  <2>8. SubSeq(v, 1, m - 1) = SubSeq(u, a + 1, b - 1)
    <3> DEFINE s == SubSeq(v, 1, m - 1)
               t == SubSeq(u, a + 1, b - 1)
    <3>1. 1 \in Nat \ {0} /\ m - 1 \in Int /\ m - 1 <= Len(v) /\ a + 1 \in Nat \ {0} /\ b - 1 \in Int /\ b - 1 <= n
      BY <1>1, <2>1, <2>2
    <3>2. /\ s \in Seq(Symbols) /\ Len(s) = IF 1 <= m - 1 THEN m - 1 - 1 + 1 ELSE 0
          /\ \A i \in 1 .. m - 1 - 1 + 1 : s[i] = v[1 + i - 1]
      BY <1>2, <3>1, Stretch
    <3>3. /\ t \in Seq(Symbols) /\ Len(t) = IF a + 1 <= b - 1 THEN b - 1 - (a + 1) + 1 ELSE 0
          /\ \A i \in 1 .. b - 1 - (a + 1) + 1 : t[i] = u[a + 1 + i - 1]
      BY <3>1, Stretch DEF n
    <3> HIDE DEF s, t
    <3>4. Len(s) = m - 1 /\ Len(t) = m - 1
      BY <2>1, <2>2, <3>2, <3>3
    <3>5. \A i \in 1 .. m - 1 : s[i] = v[i] /\ v[i] = u[a + i] /\ t[i] = u[a + i]
      <4> SUFFICES ASSUME NEW i \in 1 .. m - 1 PROVE s[i] = v[i] /\ v[i] = u[a + i] /\ t[i] = u[a + i]
        OBVIOUS
      <4>1. i \in DOMAIN v /\ i \in 1 .. m - 1 - 1 + 1 /\ 1 + i - 1 = i
        BY <1>3, <2>2
      <4>2. i \in 1 .. b - 1 - (a + 1) + 1 /\ a + 1 + i - 1 = a + i
        BY <2>1, <2>2
      <4> QED BY <1>4, <3>2, <3>3, <4>1, <4>2
    <3>6. s = t
      BY <3>2, <3>3, <3>4, <3>5, SeqEqual
    <3> QED BY <3>6 DEF s, t
  <2> QED BY <2>7, <2>8 DEF v, b
<1> QED BY <1>5, <1>6

(* The next number is taken from what follows the next dot. *)
LEMMA NextPart ==
  ASSUME NEW u \in Seq(Symbols), NEW a \in 0 .. Len(u) + 1,
         NEW ip, SkipDot(ip) = After(u, a)
  PROVE  /\ Part(ip) = SubSeq(u, a + 1, NextDot(u, a) - 1)
         /\ SkipDot(AfterPart(ip)) = After(u, NextDot(u, a))
<1> DEFINE v == After(u, a)
           b == NextDot(u, a)
           n == Len(u)
<1>1. /\ n \in Nat /\ DOMAIN u = 1 .. n
      /\ b \in 1 .. n + 1 /\ (a < b \/ b = n + 1) /\ (b <= n => b > a /\ u[b] = Dot)
      /\ \A i \in 1 .. n : a < i /\ i < b => u[i] # Dot
  BY NextDotType
<1>2. /\ v \in Seq(Symbols) /\ Len(v) = IF a + 1 <= n THEN n - (a + 1) + 1 ELSE 0
      /\ \A i \in 1 .. n - (a + 1) + 1 : v[i] = u[a + 1 + i - 1]
  <2>1. a + 1 \in Nat \ {0} /\ n \in Int /\ n <= n
    BY <1>1
  <2> QED BY <2>1, Stretch DEF After
<1>3. Part(ip) = SubSeq(u, a + 1, b - 1)
  BY FieldIs DEF Part
<1>4. Len(SubSeq(u, a + 1, b - 1)) = IF a + 1 <= b - 1 THEN b - 1 - (a + 1) + 1 ELSE 0
  <2>1. a + 1 \in Nat \ {0} /\ b - 1 \in Int /\ b - 1 <= n
    BY <1>1
  <2> QED BY <2>1, Stretch
<1> DEFINE m == Len(Part(ip))
           w == SubSeq(v, m + 1, Len(v))
<1>5. AfterPart(ip) = w
  BY DEF AfterPart
<1> HIDE DEF v, b, n, m
<1>6. m = IF a + 1 <= b - 1 THEN b - 1 - (a + 1) + 1 ELSE 0
  BY <1>3, <1>4 DEF m
<1>7. a \in Nat /\ m \in Nat /\ (a <= n => m = b - a - 1) /\ (a > n => m = 0 /\ b = n + 1 /\ Len(v) = 0)
  <2>1. a \in 0 .. n + 1
    BY DEF n
  <2>2. a \in Nat /\ a <= n + 1
    BY ONLY <1>1, <2>1
  <2>3. CASE a <= n
    <3>1. m = b - a - 1 /\ m \in Nat
      BY ONLY <1>1, <1>6, <2>2, <2>3
    <3> QED BY <1>1, <2>2, <2>3, <3>1
  <2>4. CASE ~(a <= n)
    <3>1. m = 0 /\ b = n + 1
      BY ONLY <1>1, <1>6, <2>2, <2>4
    <3>2. Len(v) = 0
      BY ONLY <1>1, <1>2, <2>2, <2>4
    <3> QED BY <2>2, <2>4, <3>1, <3>2
  <2> QED BY <2>3, <2>4
<1>8. /\ w \in Seq(Symbols) /\ Len(w) = IF m + 1 <= Len(v) THEN Len(v) - (m + 1) + 1 ELSE 0
      /\ \A i \in 1 .. Len(v) - (m + 1) + 1 : w[i] = v[m + 1 + i - 1]
  <2>1. m + 1 \in Nat \ {0} /\ Len(v) \in Int /\ Len(v) <= Len(v)
    BY <1>2, <1>7, LenProperties
  <2> QED BY <1>2, <2>1, Stretch
<1> HIDE DEF w
<1> DEFINE r == After(u, b)
<1>9. /\ r \in Seq(Symbols) /\ Len(r) = IF b + 1 <= n THEN n - (b + 1) + 1 ELSE 0
      /\ \A i \in 1 .. n - (b + 1) + 1 : r[i] = u[b + 1 + i - 1]
  <2>1. b + 1 \in Nat \ {0} /\ n \in Int /\ n <= n
    BY <1>1
  <2> QED BY <2>1, Stretch DEF After, n
<1> HIDE DEF r
<1>10. CASE b = n + 1
  <2>1. Len(w) = 0 /\ Len(r) = 0
    BY <1>1, <1>2, <1>7, <1>8, <1>9, <1>10
  <2>2. w = <<>> /\ r = <<>>
    BY <1>8, <1>9, <2>1, EmptySeq
  <2> QED BY <1>3, <1>5, <2>2 DEF SkipDot, r, b
<1>11. CASE b # n + 1
  <2>1. b \in 1 .. n /\ a < b /\ u[b] = Dot /\ Len(v) = n - a /\ m = b - a - 1
    BY <1>1, <1>2, <1>7, <1>11
  <2>2. Len(w) = n - b + 1 /\ Len(r) = n - b
    BY <1>1, <1>7, <1>8, <1>9, <2>1
  <2>3. \A i \in 1 .. n - b + 1 : w[i] = u[b + i - 1]
    <3> SUFFICES ASSUME NEW i \in 1 .. n - b + 1 PROVE w[i] = u[b + i - 1]
      OBVIOUS
    <3>1. i \in 1 .. Len(v) - (m + 1) + 1 /\ m + 1 + i - 1 \in 1 .. n - (a + 1) + 1
          /\ a + 1 + (m + 1 + i - 1) - 1 = b + i - 1
      BY <1>1, <1>7, <2>1
    <3> QED BY <1>2, <1>8, <3>1
  <2>4. w # <<>> /\ w[1] = Dot
    <3>1. 1 \in 1 .. n - b + 1 /\ b + 1 - 1 = b /\ Len(w) # 0
      BY <1>1, <2>1, <2>2
    <3>2. Len(<<>>) = 0
      OBVIOUS
    <3> QED BY <2>1, <2>3, <3>1, <3>2
  <2>5. Tail(w) \in Seq(Symbols) /\ Len(Tail(w)) = n - b /\ \A i \in 1 .. n - b : Tail(w)[i] = w[i + 1]
    <3>1. Tail(w) \in Seq(Symbols) /\ Len(Tail(w)) = Len(w) - 1 /\ \A i \in 1 .. Len(Tail(w)) : Tail(w)[i] = w[i + 1]
      BY <1>8, <2>4, HeadTailProperties
    <3>2. Len(w) - 1 = n - b
      BY <1>1, <2>1, <2>2
    <3> QED BY <3>1, <3>2
  <2>6. \A i \in 1 .. n - b : Tail(w)[i] = r[i]
    <3> SUFFICES ASSUME NEW i \in 1 .. n - b PROVE Tail(w)[i] = r[i]
      OBVIOUS
    <3>1. i + 1 \in 1 .. n - b + 1 /\ b + (i + 1) - 1 = b + i /\ i \in 1 .. n - (b + 1) + 1 /\ b + 1 + i - 1 = b + i
      BY <1>1, <2>1
    <3> QED BY <1>9, <2>3, <2>5, <3>1, SMTT(30)
  <2>7. Tail(w) = r
    BY <1>9, <2>2, <2>5, <2>6, SeqEqual
  <2>8. SkipDot(w) = Tail(w)
    <3>1. Head(w) = w[1]
      BY <1>8, <2>4
    <3> QED BY <2>4, <3>1 DEF SkipDot
  <2> QED BY <1>3, <1>5, <2>7, <2>8 DEF r, b
<1> QED BY <1>10, <1>11

(* What is left of a text after one, two and three numbers. *)
LEMMA LeftIs ==
  ASSUME NEW ip, NEW n \in 0 .. 3
  PROVE  Left(ip, n) = IF n = 0 THEN ip
                         ELSE IF n = 1 THEN AfterPart(ip)
                         ELSE IF n = 2 THEN AfterPart(AfterPart(ip))
                         ELSE AfterPart(AfterPart(AfterPart(ip)))
<1> DEFINE Is(h) == h = [k \in 0 .. n |-> IF k = 0 THEN ip ELSE AfterPart(h[k - 1])]
           left == CHOOSE h : Is(h)
           w == [k \in 0 .. n |-> IF k = 0 THEN ip
                   ELSE IF k = 1 THEN AfterPart(ip)
                   ELSE IF k = 2 THEN AfterPart(AfterPart(ip))
                   ELSE AfterPart(AfterPart(AfterPart(ip)))]
<1>1. \A k \in 0 .. n : k = 0 \/ k = 1 \/ k = 2 \/ k = 3
  OBVIOUS
<1>2. \A k \in 0 .. n : w[k] = IF k = 0 THEN ip ELSE AfterPart(w[k - 1])
  <2> SUFFICES ASSUME NEW k \in 0 .. n PROVE w[k] = IF k = 0 THEN ip ELSE AfterPart(w[k - 1])
    OBVIOUS
  <2>1. k # 0 => k - 1 \in 0 .. n
    OBVIOUS
  <2>2. (k = 1 => k - 1 = 0) /\ (k = 2 => k - 1 = 1) /\ (k = 3 => k - 1 = 2)
    OBVIOUS
  <2> QED BY <1>1, <2>1, <2>2
<1>3. Is(w)
  <2>1. w = [k \in 0 .. n |-> w[k]]
    OBVIOUS
  <2> HIDE DEF w
  <2> QED BY <1>2, <2>1
<1>4. Is(left)
  BY <1>3
<1>5. Left(ip, n) = left[n]
  BY DEF Left
<1> HIDE DEF left
<1>6. \A k \in 0 .. n : left[k] = IF k = 0 THEN ip ELSE AfterPart(left[k - 1])
  BY <1>4
<1>7. left[0] = ip
  <2>1. 0 \in 0 .. n
    OBVIOUS
  <2> QED BY <1>6, <2>1
<1>8. n >= 1 => left[1] = AfterPart(left[0])
  <2>1. n >= 1 => 1 \in 0 .. n
    OBVIOUS
  <2>2. 1 - 1 = 0 /\ 1 # 0
    OBVIOUS
  <2> QED BY <1>6, <2>1, <2>2
<1>9. n >= 2 => left[2] = AfterPart(left[1])
  <2>1. n >= 2 => 2 \in 0 .. n
    OBVIOUS
  <2>2. 2 - 1 = 1 /\ 2 # 0
    OBVIOUS
  <2> QED BY <1>6, <2>1, <2>2
<1>10. n >= 3 => left[3] = AfterPart(left[2])
  <2>1. n >= 3 => 3 \in 0 .. n
    OBVIOUS
  <2>2. 3 - 1 = 2 /\ 3 # 0
    OBVIOUS
  <2> QED BY <1>6, <2>1, <2>2
<1>11. n = 0 \/ n = 1 \/ n = 2 \/ n = 3
  OBVIOUS
<1> QED BY <1>5, <1>7, <1>8, <1>9, <1>10, <1>11

(* No digits make the number 0. *)
LEMMA NumberNone == Number(<<>>) = 0
<1> DEFINE Is(h) == h = [T \in SUBSET {} |-> IF T = {} THEN 0
                           ELSE 10 * h[T \ {Max(T)}] + <<>>[Max(T)]]
           iter == CHOOSE h : Is(h)
<1>1. DOMAIN <<>> = {}
  OBVIOUS
<1>2. Number(<<>>) = iter[{}]
  BY <1>1 DEF Number, FoldLeft, MapThenFoldSet
<1> DEFINE w == [T \in SUBSET {} |-> 0]
<1>3. Is(w)
  <2>1. \A T \in SUBSET {} : T = {}
    OBVIOUS
  <2> QED BY <2>1
<1>4. Is(iter)
  BY <1>3
<1> HIDE DEF iter
<1> QED BY <1>2, <1>4

(* The dots among the first i symbols, and the end e of the k-th number as  *)
(* they count it: from there on there are k dots at least.                  *)
Dots(u, i) == {j \in 1 .. i : u[j] = Dot}
EndOf(u, e, k) ==
  /\ e \in 0 .. Len(u) + 1
  /\ \A i \in 0 .. Len(u) :
       /\ i < e => Cardinality(Dots(u, i)) < k
       /\ i >= e => Cardinality(Dots(u, i)) >= k
  /\ e <= Len(u) => Cardinality(Dots(u, e)) = k
  /\ e \in 1 .. Len(u) => u[e] = Dot

LEMMA DotsFinite ==
  ASSUME NEW u, NEW i \in Nat
  PROVE  IsFiniteSet(Dots(u, i)) /\ Cardinality(Dots(u, i)) \in Nat
<1>1. IsFiniteSet(1 .. i)
  BY FS_Interval
<1>2. Dots(u, i) \in SUBSET (1 .. i)
  BY DEF Dots
<1>3. IsFiniteSet(Dots(u, i))
  BY <1>1, <1>2, FS_Subset
<1> QED BY <1>3, FS_CardinalityType

LEMMA FirstEnd ==
  ASSUME NEW u \in Seq(Symbols)
  PROVE  EndOf(u, 0, 0)
<1>1. Len(u) \in Nat
  BY LenProperties
<1>2. \A i \in 0 .. Len(u) : Cardinality(Dots(u, i)) \in Nat
  BY <1>1, DotsFinite
<1>3. Dots(u, 0) = {}
  BY DEF Dots
<1>4. Cardinality(Dots(u, 0)) = 0
  BY <1>3, FS_EmptySet
<1> QED BY <1>1, <1>2, <1>4 DEF EndOf

LEMMA NextEnd ==
  ASSUME NEW u \in Seq(Symbols), NEW k \in Nat, NEW e, EndOf(u, e, k)
  PROVE  /\ EndOf(u, NextDot(u, e), k + 1)
         /\ \A i \in 1 .. Len(u) :
              u[i] # Dot => (Cardinality(Dots(u, i)) = k <=> e < i /\ i < NextDot(u, e))
<1> DEFINE n == Len(u)
           b == NextDot(u, e)
           K(i) == Cardinality(Dots(u, i))
<1>1. /\ n \in Nat /\ e \in 0 .. n + 1
      /\ b \in 1 .. n + 1 /\ (e < b \/ b = n + 1) /\ (b <= n => b > e /\ u[b] = Dot)
      /\ \A i \in 1 .. n : e < i /\ i < b => u[i] # Dot
  BY NextDotType DEF EndOf
<1>2. /\ \A i \in 0 .. n : (i < e => K(i) < k) /\ (i >= e => K(i) >= k)
      /\ e <= n => K(e) = k
      /\ e \in 1 .. n => u[e] = Dot
  BY DEF EndOf
<1>3. \A i \in 0 .. n : IsFiniteSet(Dots(u, i)) /\ K(i) \in Nat
  BY <1>1, DotsFinite
<1> HIDE DEF n, b
<1>4. \A i \in 0 .. n : e <= i /\ i < b => K(i) = k
  <2> SUFFICES ASSUME NEW i \in 0 .. n, e <= i, i < b PROVE K(i) = k
    OBVIOUS
  <2>1. e \in 0 .. n /\ \A j \in 1 .. i : e < j => u[j] # Dot
    BY <1>1
  <2>2. Dots(u, i) = Dots(u, e)
    BY <1>1, <2>1 DEF Dots
  <2> QED BY <1>1, <1>2, <2>1, <2>2
<1>5. b <= n => K(b) = k + 1
  <2> SUFFICES ASSUME b <= n PROVE K(b) = k + 1
    OBVIOUS
  <2>1. b \in 1 .. n /\ b - 1 \in 0 .. n /\ e <= b - 1 /\ b - 1 < b
    BY <1>1
  <2>2. K(b - 1) = k /\ IsFiniteSet(Dots(u, b - 1))
    BY <1>3, <1>4, <2>1
  <2>3. Dots(u, b) = Dots(u, b - 1) \cup {b} /\ b \notin Dots(u, b - 1)
    BY <1>1, <2>1 DEF Dots
  <2> HIDE DEF K
  <2>4. Cardinality(Dots(u, b - 1) \cup {b}) = Cardinality(Dots(u, b - 1)) + 1
    BY <2>2, <2>3, FS_AddElement
  <2> QED BY <2>2, <2>3, <2>4 DEF K
<1>6. \A i \in 0 .. n : i >= b => K(i) >= k + 1
  <2> SUFFICES ASSUME NEW i \in 0 .. n, i >= b PROVE K(i) >= k + 1
    OBVIOUS
  <2>1. b \in 0 .. n /\ b <= i
    BY <1>1
  <2>2. Dots(u, b) \in SUBSET Dots(u, i)
    BY <1>1, <2>1 DEF Dots
  <2>3. K(b) <= K(i)
    BY <1>3, <2>2, FS_Subset
  <2>4. K(b) = k + 1 /\ K(i) \in Nat
    BY <1>1, <1>3, <1>5, <2>1
  <2> QED BY <2>3, <2>4
<1> HIDE DEF K
<1>7. \A i \in 0 .. n : i < b => K(i) < k + 1
  BY <1>1, <1>2, <1>3, <1>4
<1>8. EndOf(u, b, k + 1)
  <2>1. b \in 0 .. n + 1 /\ (b \in 1 .. n => u[b] = Dot)
    BY <1>1
  <2> QED BY <1>5, <1>6, <1>7, <2>1 DEF EndOf, n, K
<1>9. \A i \in 1 .. n : u[i] # Dot => (K(i) = k <=> e < i /\ i < b)
  <2> SUFFICES ASSUME NEW i \in 1 .. n, u[i] # Dot PROVE K(i) = k <=> e < i /\ i < b
    OBVIOUS
  <2>1. i \in 0 .. n /\ i # e /\ K(i) \in Nat
    BY <1>1, <1>2, <1>3
  <2>2. CASE i < e
    BY <1>1, <1>2, <2>1, <2>2
  <2>3. CASE e < i /\ i < b
    BY <1>1, <1>4, <2>1, <2>3
  <2>4. CASE i >= b
    BY <1>1, <1>6, <2>1, <2>4
  <2> QED BY <1>1, <2>1, <2>2, <2>3, <2>4
<1> QED BY <1>8, <1>9 DEF n, b, K

(* So a number found by counting dots is the one between two ends. *)
LEMMA FieldNumberIs ==
  ASSUME NEW u \in Seq(Symbols), NEW k \in Nat, NEW e, EndOf(u, e, k)
  PROVE  FieldNumber(u, k + 1) = Number(SubSeq(u, e + 1, NextDot(u, e) - 1))
<1> DEFINE n == Len(u)
           b == NextDot(u, e)
           digits == {i \in DOMAIN u : u[i] # Dot /\ Cardinality({j \in 1 .. i : u[j] = Dot}) = k + 1 - 1}
<1>1. /\ n \in Nat /\ DOMAIN u = 1 .. n /\ e \in 0 .. n + 1
      /\ b \in 1 .. n + 1 /\ (e < b \/ b = n + 1) /\ (b <= n => b > e /\ u[b] = Dot)
      /\ \A i \in 1 .. n : e < i /\ i < b => u[i] # Dot
  BY NextDotType DEF EndOf
<1>2. k + 1 - 1 = k
  OBVIOUS
<1>3. \A i \in 1 .. n : u[i] # Dot => (Cardinality(Dots(u, i)) = k <=> e < i /\ i < b)
  BY NextEnd
<1>4. digits = {i \in 1 .. n : u[i] # Dot /\ e < i /\ i < b}
  BY <1>1, <1>2, <1>3 DEF Dots
<1>5. FieldNumber(u, k + 1) =
        IF digits = {} THEN 0
        ELSE Number(SubSeq(u, Least(digits), Least(digits) + Cardinality(digits) - 1))
  BY DEF FieldNumber
<1> HIDE DEF n, b, digits
<1>6. digits = e + 1 .. b - 1
  BY <1>1, <1>4
<1>7. CASE e + 1 <= b - 1
  <2>1. e + 1 \in digits /\ \A i \in digits : e + 1 <= i
    BY <1>1, <1>6, <1>7
  <2>2. Least(digits) = e + 1
    <3>1. Least(digits) \in digits /\ \A i \in digits : Least(digits) <= i
      BY <2>1 DEF Least
    <3>2. Least(digits) \in Int /\ Least(digits) <= e + 1 /\ e + 1 <= Least(digits)
      BY <1>6, <2>1, <3>1
    <3> QED BY <1>1, <3>2
  <2>3. Cardinality(digits) = b - 1 - (e + 1) + 1
    <3>1. e + 1 \in Int /\ b - 1 \in Int /\ ~(e + 1 > b - 1)
      BY <1>1, <1>7
    <3> QED BY <1>6, <3>1, FS_Interval
  <2>4. e + 1 + (b - 1 - (e + 1) + 1) - 1 = b - 1
    BY <1>1
  <2>5. digits # {}
    BY <2>1
  <2> QED BY <1>5, <2>2, <2>3, <2>4, <2>5 DEF b
<1>8. CASE ~(e + 1 <= b - 1)
  <2>1. digits = {}
    BY <1>1, <1>6, <1>8
  <2> DEFINE s == SubSeq(u, e + 1, b - 1)
  <2>2. s \in Seq(Symbols) /\ Len(s) = 0
    <3>1. e + 1 \in Nat \ {0} /\ b - 1 \in Int /\ b - 1 <= n
      BY <1>1
    <3> QED BY <1>8, <3>1, Stretch DEF n
  <2>3. s = <<>>
    BY <2>2, EmptySeq
  <2> QED BY <1>5, <2>1, <2>3, NumberNone DEF b
<1> QED BY <1>7, <1>8

(* The four numbers get_num_from_ip() takes off the text are the four that  *)
(* stand between its dots, but for a dot before the first.                  *)
LEMMA ReadsNamed ==
  ASSUME NEW ip \in Seq(Symbols)
  PROVE  get_ip_as_num(ip) = Named(SkipDot(ip))
<1> DEFINE u == SkipDot(ip)
           t1 == AfterPart(ip)
           t2 == AfterPart(t1)
           t3 == AfterPart(t2)
           e1 == NextDot(u, 0)
           e2 == NextDot(u, e1)
           e3 == NextDot(u, e2)
           N(e) == Number(SubSeq(u, e + 1, NextDot(u, e) - 1))
<1>1. u \in Seq(Symbols) /\ u = After(u, 0)
  <2>1. u \in Seq(Symbols)
    <3>1. CASE ip = <<>>
      BY <3>1 DEF SkipDot
    <3>2. CASE ip # <<>>
      <4>1. Tail(ip) \in Seq(Symbols)
        BY <3>2, HeadTailProperties
      <4> QED BY <4>1 DEF SkipDot
    <3> QED BY <3>1, <3>2
  <2> HIDE DEF u
  <2>2. Len(u) \in Nat
    BY <2>1, LenProperties
  <2>3. /\ After(u, 0) \in Seq(Symbols)
        /\ Len(After(u, 0)) = IF 0 + 1 <= Len(u) THEN Len(u) - (0 + 1) + 1 ELSE 0
        /\ \A i \in 1 .. Len(u) - (0 + 1) + 1 : After(u, 0)[i] = u[0 + 1 + i - 1]
    <3>1. 0 + 1 \in Nat \ {0} /\ Len(u) \in Int /\ Len(u) <= Len(u)
      BY <2>2
    <3> QED BY <2>1, <3>1, Stretch DEF After
  <2>4. Len(After(u, 0)) = Len(u) /\ \A i \in 1 .. Len(u) : After(u, 0)[i] = u[i]
    BY <2>2, <2>3
  <2> QED BY <2>1, <2>3, <2>4, SeqEqual
<1>2. SkipDot(ip) = u
  OBVIOUS
<1> HIDE DEF u, e1, e2, e3, t1, t2, t3
<1>3. EndOf(u, 0, 0) /\ FieldNumber(u, 0 + 1) = N(0)
  BY <1>1, FirstEnd, FieldNumberIs
<1>4. EndOf(u, e1, 0 + 1)
  BY <1>1, <1>3, NextEnd DEF e1
<1>5. EndOf(u, e2, 1 + 1) /\ FieldNumber(u, 1 + 1) = N(e1)
  <2>1. EndOf(u, e1, 1)
    BY <1>4
  <2> QED BY <1>1, <2>1, NextEnd, FieldNumberIs DEF e2
<1>6. EndOf(u, e3, 2 + 1) /\ FieldNumber(u, 2 + 1) = N(e2)
  <2>1. EndOf(u, e2, 2)
    BY <1>5
  <2> QED BY <1>1, <2>1, NextEnd, FieldNumberIs DEF e3
<1>7. FieldNumber(u, 3 + 1) = N(e3)
  <2>1. EndOf(u, e3, 3)
    BY <1>6
  <2> QED BY <1>1, <2>1, FieldNumberIs
<1>8. /\ 0 \in 0 .. Len(u) + 1 /\ e1 \in 0 .. Len(u) + 1
      /\ e2 \in 0 .. Len(u) + 1 /\ e3 \in 0 .. Len(u) + 1
  BY <1>3, <1>4, <1>5, <1>6 DEF EndOf
<1>9. Number(Part(ip)) = N(0) /\ SkipDot(t1) = After(u, e1)
  <2>1. SkipDot(ip) = After(u, 0)
    BY <1>1, <1>2
  <2> QED BY <1>1, <1>8, <2>1, NextPart DEF t1, e1
<1>10. Number(Part(t1)) = N(e1) /\ SkipDot(t2) = After(u, e2)
  BY <1>1, <1>8, <1>9, NextPart DEF t2, e2
<1>11. Number(Part(t2)) = N(e2) /\ SkipDot(t3) = After(u, e3)
  BY <1>1, <1>8, <1>10, NextPart DEF t3, e3
<1>12. Number(Part(t3)) = N(e3)
  BY <1>1, <1>8, <1>11, NextPart
<1>13. /\ Left(ip, 0) = ip /\ Left(ip, 1) = t1
       /\ Left(ip, 2) = t2 /\ Left(ip, 3) = t3
  BY LeftIs DEF t1, t2, t3
<1> HIDE DEF N
<1>14. \A k \in 1 .. 4 : Number(Part(Left(ip, k - 1))) = FieldNumber(u, k)
  <2> SUFFICES ASSUME NEW k \in 1 .. 4 PROVE Number(Part(Left(ip, k - 1))) = FieldNumber(u, k)
    OBVIOUS
  <2>1. CASE k = 1
    BY <1>3, <1>9, <1>13, <2>1
  <2>2. CASE k = 2
    BY <1>5, <1>10, <1>13, <2>2
  <2>3. CASE k = 3
    BY <1>6, <1>11, <1>13, <2>3
  <2>4. CASE k = 4
    BY <1>7, <1>12, <1>13, <2>4
  <2> QED BY <2>1, <2>2, <2>3, <2>4
<1> QED BY <1>2, <1>14 DEF get_ip_as_num, Named
-----------------------------------------------------------------------------
(***************************************************************************)
(* Part 3.  What the printing server writes.                               *)
(***************************************************************************)

TypedIn == [text : Seq(Symbols), number : Seq(0 .. 9), msg : Seq(Bytes)]
Items == [what : {"headers", "content"}, of : Seq(Peers), msg : Seq({"p", "?"})]
PTypes ==
  /\ client \in [Clients -> {"new", "failed", "done", "waits"}]
  /\ asked \in [Clients -> TypedIn]
  /\ held \in Seq(Peers) /\ out \in Seq(Items)

(* c was given this host's address and port p. *)
Told(c, p) ==
  /\ client[c] # "new"
  /\ Number(asked[c].number) % 2^16 = p
  /\ Named(SkipDot(asked[c].text)) = Host

NetHere ==
  prog = "6_06" =>
    \A d \in net : d.from \in Clients /\ Told(d.from, d.to) /\ d.msg = asked[d.from].msg
Bound == log # <<>> => port # 0
LogHere ==
  prog = "6_06" => \A i \in 1 .. Len(log) : log[i].from \in Clients /\ Told(log[i].from, port)

(* On a terminal: a header and a content for every turn. *)
ByLine ==
  prog = "6_06" /\ tty =>
    /\ Len(out) = 2 * Len(log)
    /\ \A i \in 1 .. Len(log) :
         out[2 * i - 1] = Headers(<<log[i].from>>) /\ IsContent(out[2 * i], log[i])

(* Elsewhere n blocks are out, and what the stream holds is of the turns    *)
(* since.                                                                   *)
Since(n) ==
  /\ Len(held) <= StdioRoom /\ (n > 0 => Len(held) > 0)
  /\ Len(log) = n * StdioRoom + Len(held)
  /\ Len(out) = n * (StdioRoom + 1) + Len(held)
  /\ \A j \in 1 .. Len(held) : held[j] = log[n * StdioRoom + j].from
BlockOf(turns, n) == Headers([j \in 1 .. StdioRoom |-> turns[(n - 1) * StdioRoom + j].from])
Block(n) == BlockOf(log, n)
Blocks ==
  \A n \in Nat, k \in 1 .. StdioRoom :
    n * StdioRoom + k <= Len(log) =>
      /\ IsContent(out[n * (StdioRoom + 1) + k], log[n * StdioRoom + k])
      /\ n > 0 => out[n * (StdioRoom + 1)] = Block(n)
ByBlock == prog = "6_06" /\ ~tty => Blocks /\ \E n \in Nat : Since(n)

PInv == PTypes /\ NetHere /\ Bound /\ LogHere /\ ByLine /\ ByBlock

-----------------------------------------------------------------------------
LEMMA PInit == Init => PInv
<1> SUFFICES ASSUME Init PROVE PInv
  OBVIOUS
<1>1. /\ <<>> \in Seq(Symbols) /\ <<>> \in Seq(0 .. 9) /\ <<>> \in Seq(Bytes)
      /\ held \in Seq(Peers) /\ out \in Seq(Items)
  BY DEF Init
<1>2. client \in [Clients -> {"new", "failed", "done", "waits"}] /\ asked \in [Clients -> TypedIn]
  BY <1>1 DEF Init, TypedIn
<1>3. net = {} /\ Len(log) = 0 /\ Len(out) = 0 /\ Len(held) = 0 /\ log = <<>>
  BY DEF Init
<1>4. StdioRoom \in Nat
  BY PortAssumption
<1>5. Since(0)
  BY <1>3, <1>4 DEF Since
<1>6. Blocks
  <2> SUFFICES ASSUME NEW n \in Nat, NEW k \in 1 .. StdioRoom PROVE ~(n * StdioRoom + k <= 0)
    BY <1>3 DEF Blocks
  <2>1. n * StdioRoom \in Nat
    BY <1>4
  <2> QED BY <1>4, <2>1
<1>7. ByBlock
  BY <1>5, <1>6 DEF ByBlock
<1> QED BY <1>1, <1>2, <1>3, <1>7 DEF PInv, PTypes, NetHere, Bound, LogHere, ByLine

(* What a sender was given stays as it is once it has sent. *)
Settled ==
  \A x \in Clients : client[x] # "new" => client'[x] # "new" /\ asked'[x] = asked[x]

LEMMA PQuiet ==
  ASSUME PInv, Types, UNCHANGED <<prog, tty, port, held, out, log>>, Settled, NetHere',
         client' \in [Clients -> {"new", "failed", "done", "waits"}],
         asked' \in [Clients -> TypedIn]
  PROVE  PInv'
<1>1. PTypes /\ Bound /\ LogHere /\ ByLine /\ ByBlock
  BY DEF PInv
<1>2. PTypes' /\ Bound'
  BY <1>1 DEF PTypes, Bound
<1>3. CASE prog # "6_06"
  BY <1>2, <1>3 DEF PInv, LogHere, ByLine, ByBlock
<1>4. CASE prog = "6_06"
  <2>1. \A i \in 1 .. Len(log) :
           /\ log[i].from \in Clients /\ Told(log[i].from, port)
           /\ client'[log[i].from] # "new" /\ asked'[log[i].from] = asked[log[i].from]
    BY <1>1, <1>4 DEF LogHere, Settled, Told
  <2>2. LogHere'
    BY <2>1 DEF LogHere, Told
  <2>3. \A i \in 1 .. Len(log) : \A x : IsContent(x, log[i]) => IsContent(x, log[i])'
    BY <2>1 DEF IsContent
  <2>4. ByLine'
    BY <1>1, <2>3 DEF ByLine
  <2>5. ByBlock'
    <3> SUFFICES ASSUME ~tty PROVE Blocks' /\ (\E n \in Nat : Since(n))'
      BY DEF ByBlock
    <3>1. Blocks /\ \E n \in Nat : Since(n)
      BY <1>1, <1>4 DEF ByBlock
    <3>2. (\E n \in Nat : Since(n))'
      BY <3>1 DEF Since
    <3>3. Blocks'
      <4> SUFFICES ASSUME NEW n \in Nat, NEW k \in 1 .. StdioRoom,
                          n * StdioRoom + k <= Len(log)
          PROVE  /\ IsContent(out[n * (StdioRoom + 1) + k], log[n * StdioRoom + k])'
                 /\ n > 0 => out[n * (StdioRoom + 1)] = Block(n)'
        BY DEF Blocks
      <4>1. /\ IsContent(out[n * (StdioRoom + 1) + k], log[n * StdioRoom + k])
            /\ n > 0 => out[n * (StdioRoom + 1)] = Block(n)
        BY <3>1 DEF Blocks
      <4>2. n * StdioRoom \in Nat /\ Len(log) \in Nat /\ k \in Nat /\ k > 0
        BY PortAssumption, LenProperties DEF Types
      <4>3. n * StdioRoom + k \in 1 .. Len(log)
        BY <4>2
      <4>4. IsContent(out[n * (StdioRoom + 1) + k], log[n * StdioRoom + k])'
        BY <2>3, <4>1, <4>3
      <4>5. Block(n)' = Block(n)
        BY DEF Block, BlockOf
      <4> QED BY <4>1, <4>4, <4>5
    <3> QED BY <3>2, <3>3
  <2> QED BY <1>2, <2>2, <2>4, <2>5 DEF PInv
<1> QED BY <1>3, <1>4

(* The network takes datagrams away. *)
LEMMA SentLess ==
  ASSUME PInv, Settled, prog' = prog, net' \in SUBSET net
  PROVE  NetHere'
<1> SUFFICES ASSUME prog = "6_06", NEW d \in net
    PROVE  d.from \in Clients /\ Told(d.from, d.to)' /\ d.msg = asked'[d.from].msg
  BY DEF NetHere
<1>1. d.from \in Clients /\ Told(d.from, d.to) /\ d.msg = asked[d.from].msg
  BY DEF PInv, NetHere
<1>2. client'[d.from] # "new" /\ asked'[d.from] = asked[d.from]
  BY <1>1 DEF Settled, Told
<1> QED BY <1>1, <1>2 DEF Told

LEMMA PAsks ==
  ASSUME PInv, Types, NEW c \in Clients, NEW ip \in Texts, NEW n \in PortTexts,
         NEW msg \in Messages, Asks(c, ip, n, msg)
  PROVE  PInv'
<1> DEFINE sent == AddressIsValid(ip) /\ check_port_is_valid(PortOf(n))
           here == sent /\ AddressOf(ip) = Host
           g == [text |-> ip, number |-> n, msg |-> msg]
           p == PortOf(n)
           d == [from |-> c, to |-> p, msg |-> msg]
           word == IF ~sent THEN "failed" ELSE IF prog = "6_06" THEN "done" ELSE "waits"
<1>1. /\ client[c] = "new" /\ UNCHANGED <<prog, tty, port, held, out, log>>
      /\ client' = [client EXCEPT ![c] = word]
      /\ IF ~here THEN UNCHANGED <<asked, net>>
         ELSE asked' = [asked EXCEPT ![c] = g] /\ net' = net \cup {d}
  BY DEF Asks
<1>2. g \in TypedIn /\ ip \in Seq(Symbols)
  BY InputAssumption DEF TypedIn, Symbols, Bytes
<1>3. here /\ prog = "6_06" => Named(SkipDot(g.text)) = Host
  BY <1>2, ReadsNamed DEF AddressOf
<1>4. prog = "6_06" => p = Number(g.number) % 2^16
  BY DEF PortOf, get_port_as_num
<1>5. d.from = c /\ d.to = p /\ d.msg = msg /\ g.msg = msg
  OBVIOUS
<1>6. word \in {"failed", "done", "waits"}
  OBVIOUS
<1> HIDE DEF here, sent, g, d, p, word
<1>7. PTypes /\ NetHere
  BY DEF PInv
<1>8. /\ client' \in [Clients -> {"new", "failed", "done", "waits"}]
      /\ client'[c] = word /\ \A x \in Clients : x # c => client'[x] = client[x]
  BY <1>1, <1>6, <1>7 DEF PTypes
<1>9. /\ asked' \in [Clients -> TypedIn]
      /\ \A x \in Clients : x # c => asked'[x] = asked[x]
      /\ here => asked'[c] = g
  BY <1>1, <1>2, <1>7 DEF PTypes
<1>10. Settled
  BY <1>1, <1>8, <1>9 DEF Settled
<1>11. NetHere'
  <2>1. CASE ~here
    BY <1>1, <1>10, <2>1, SentLess
  <2>2. CASE here
    <3> SUFFICES ASSUME prog = "6_06", NEW e \in net'
        PROVE  e.from \in Clients /\ Told(e.from, e.to)' /\ e.msg = asked'[e.from].msg
      BY <1>1 DEF NetHere
    <3>1. CASE e = d
      <4>1. e.from = c /\ e.to = p /\ e.msg = msg /\ asked'[c] = g /\ client'[c] # "new"
        BY <1>5, <1>6, <1>8, <1>9, <2>2, <3>1
      <4>2. Number(asked'[c].number) % 2^16 = p /\ Named(SkipDot(asked'[c].text)) = Host
        BY <1>3, <1>4, <2>2, <4>1
      <4> QED BY <1>5, <4>1, <4>2 DEF Told
    <3>2. CASE e # d
      <4>1. e \in net
        BY <1>1, <2>2, <3>2
      <4>2. e.from \in Clients /\ Told(e.from, e.to) /\ e.msg = asked[e.from].msg
        BY <1>7, <4>1 DEF NetHere
      <4>3. client'[e.from] # "new" /\ asked'[e.from] = asked[e.from]
        BY <1>10, <4>2 DEF Settled, Told
      <4> QED BY <4>2, <4>3 DEF Told
    <3> QED BY <3>1, <3>2
  <2> QED BY <2>1, <2>2
<1> QED BY <1>1, <1>8, <1>9, <1>10, <1>11, PQuiet

(* One item more, and two. *)
LEMMA OneMore ==
  ASSUME NEW S, NEW s \in Seq(S), NEW x \in S
  PROVE  /\ Append(s, x) \in Seq(S) /\ Len(s) \in Nat /\ Len(Append(s, x)) = Len(s) + 1
         /\ Append(s, x)[Len(s) + 1] = x
         /\ \A i \in 1 .. Len(s) : Append(s, x)[i] = s[i]
BY AppendProperties, LenProperties

LEMMA TwoMore ==
  ASSUME NEW S, NEW s \in Seq(S), NEW x \in S, NEW y \in S
  PROVE  /\ s \o <<x, y>> \in Seq(S) /\ Len(s) \in Nat /\ Len(s \o <<x, y>>) = Len(s) + 2
         /\ (s \o <<x, y>>)[Len(s) + 1] = x /\ (s \o <<x, y>>)[Len(s) + 2] = y
         /\ \A i \in 1 .. Len(s) : (s \o <<x, y>>)[i] = s[i]
<1> DEFINE t == <<x, y>>
<1>1. t \in Seq(S) /\ Len(t) = 2 /\ t[1] = x /\ t[2] = y
  OBVIOUS
<1> HIDE DEF t
<1>2. /\ s \o t \in Seq(S) /\ Len(s \o t) = Len(s) + Len(t)
      /\ \A i \in 1 .. Len(s) + Len(t) : (s \o t)[i] = IF i <= Len(s) THEN s[i] ELSE t[i - Len(s)]
  BY <1>1, ConcatProperties
<1>3. Len(s) \in Nat
  BY LenProperties
<1>4. /\ Len(s) + 1 \in 1 .. Len(s) + 2 /\ Len(s) + 2 \in 1 .. Len(s) + 2
      /\ ~(Len(s) + 1 <= Len(s)) /\ ~(Len(s) + 2 <= Len(s))
      /\ Len(s) + 1 - Len(s) = 1 /\ Len(s) + 2 - Len(s) = 2
      /\ \A i \in 1 .. Len(s) : i \in 1 .. Len(s) + 2 /\ i <= Len(s)
  BY <1>3
<1>5. /\ (s \o t)[Len(s) + 1] = x /\ (s \o t)[Len(s) + 2] = y
      /\ \A i \in 1 .. Len(s) : (s \o t)[i] = s[i]
  BY <1>1, <1>2, <1>4
<1> QED BY <1>1, <1>2, <1>3, <1>5 DEF t

(* Turn k of block n comes no later than turn l of block m only if block n  *)
(* comes no later than block m.                                             *)
LEMMA BlockOrder ==
  ASSUME NEW r \in Nat, NEW n \in Nat, NEW m \in Nat, NEW k \in 1 .. r, NEW l \in 0 .. r,
         n * r + k <= m * r + l
  PROVE  n <= m /\ n * (r + 1) + k <= m * (r + 1) + l
<1>1. n * (r + 1) = n * r + n /\ m * (r + 1) = m * r + m
  OBVIOUS
<1>2. n * r \in Nat /\ m * r \in Nat
  OBVIOUS
<1>3. n <= m
  <2> SUFFICES ASSUME n > m PROVE FALSE
    OBVIOUS
  <2>1. PICK d \in Nat : n = m + 1 + d
    <3>1. n - m - 1 \in Nat /\ n = m + 1 + (n - m - 1)
      OBVIOUS
    <3> QED BY <3>1
  <2>2. n * r = m * r + r + d * r /\ d * r \in Nat
    BY <2>1
  <2> QED BY <1>2, <2>2
<1> QED BY <1>1, <1>2, <1>3

(* What is shown of a datagram is what was received of it. *)
LEMMA ShownIs ==
  ASSUME NEW msg \in Seq(Bytes)
  PROVE  /\ Shown(msg) \in Seq({"p", "?"})
         /\ Len(Shown(msg)) = Len(Received(msg))
         /\ \A j \in 1 .. Len(Received(msg)) : Shown(msg)[j] = "p" <=> msg[j] = "p"
<1> DEFINE m == Len(Received(msg))
<1>1. m \in Nat /\ DOMAIN Received(msg) = 1 .. m
  BY ReceivedType, LenProperties
<1> HIDE DEF m
<1>2. Shown(msg) = [i \in 1 .. m |-> IF msg[i] = "p" THEN "p" ELSE "?"]
  BY <1>1 DEF Shown
<1>3. Shown(msg) \in [1 .. m -> {"p", "?"}]
  BY <1>2
<1>4. Shown(msg) \in Seq({"p", "?"}) /\ Len(Shown(msg)) = m
  BY <1>1, <1>3
<1>5. \A j \in 1 .. m : Shown(msg)[j] = "p" <=> msg[j] = "p"
  BY <1>2
<1> QED BY <1>4, <1>5 DEF m

(* What was written of earlier turns stays where it is. *)
LEMMA BlocksStay ==
  ASSUME NEW r \in Nat \ {0}, r = StdioRoom, Blocks, NEW m \in Nat, Since(m),
         Len(log) \in Nat, Len(out) \in Nat, Len(held) \in Nat, asked' = asked,
         \A i \in 1 .. Len(log) : log'[i] = log[i], \A i \in 1 .. Len(out) : out'[i] = out[i],
         NEW n \in Nat, NEW j \in 1 .. r, n * r + j <= Len(log)
  PROVE  /\ IsContent(out[n * (r + 1) + j], log[n * r + j])'
         /\ n > 0 => out'[n * (r + 1)] = Block(n)'
<1> DEFINE L == Len(held)
<1>1. L \in 0 .. r /\ Len(log) = m * r + L /\ Len(out) = m * (r + 1) + L
  BY DEF Since
<1> HIDE DEF L
<1>2. n * r \in Nat /\ n * (r + 1) = n * r + n /\ j \in Nat
  OBVIOUS
<1>3. n * r + j \in 1 .. Len(log)
  BY <1>2
<1>4. n * (r + 1) + j <= m * (r + 1) + L
  BY <1>1, BlockOrder
<1>5. n * (r + 1) + j \in 1 .. Len(out) /\ (n > 0 => n * (r + 1) \in 1 .. Len(out))
  BY <1>1, <1>2, <1>4
<1>6. /\ IsContent(out[n * (r + 1) + j], log[n * r + j])
      /\ n > 0 => out[n * (r + 1)] = Block(n)
  BY DEF Blocks
<1>7. n > 0 => Block(n)' = Block(n)
  <2> SUFFICES ASSUME n > 0 PROVE Block(n)' = Block(n)
    OBVIOUS
  <2>1. (n - 1) * r = n * r - r /\ (n - 1) * r \in Nat
    OBVIOUS
  <2>2. \A i \in 1 .. r : (n - 1) * r + i \in 1 .. Len(log)
    BY <1>3, <2>1
  <2> QED BY <2>2 DEF Block, BlockOf, Headers
<1>8. out'[n * (r + 1) + j] = out[n * (r + 1) + j] /\ log'[n * r + j] = log[n * r + j]
      /\ (n > 0 => out'[n * (r + 1)] = out[n * (r + 1)])
  BY <1>3, <1>5
<1> QED BY <1>6, <1>7, <1>8 DEF IsContent

(* Away from a terminal, with c the sender and k the content: the stream    *)
(* has room for one header more.                                            *)
LEMMA RoomLeft ==
  ASSUME NEW r \in Nat \ {0}, r = StdioRoom, Blocks, NEW m \in Nat, Since(m), Len(held) < r,
         log \in Seq(Turns), NEW turn \in Turns, log' = Append(log, turn),
         held \in Seq(Peers), NEW c \in Peers, turn.from = c, held' = Append(held, c),
         out \in Seq(Items), NEW k \in Items, out' = Append(out, k), IsContent(k, turn),
         asked' = asked
  PROVE  Blocks' /\ Since(m)'
<1> DEFINE L == Len(held)
<1>1. /\ L \in Nat /\ L < r /\ Len(held') = L + 1 /\ held'[L + 1] = c
      /\ \A j \in 1 .. L : held'[j] = held[j]
  BY OneMore
<1>2. /\ Len(log) \in Nat /\ Len(log') = Len(log) + 1 /\ log'[Len(log) + 1] = turn
      /\ \A i \in 1 .. Len(log) : log'[i] = log[i]
  BY OneMore
<1>3. /\ Len(out) \in Nat /\ Len(out') = Len(out) + 1 /\ out'[Len(out) + 1] = k
      /\ \A i \in 1 .. Len(out) : out'[i] = out[i]
  BY OneMore
<1>4. /\ Len(log) = m * r + L /\ Len(out) = m * (r + 1) + L /\ (m > 0 => L > 0)
      /\ \A j \in 1 .. L : held[j] = log[m * r + j].from
  BY DEF Since
<1>5. \A n \in Nat, j \in 1 .. r : n * r + j <= Len(log) =>
         /\ IsContent(out[n * (r + 1) + j], log[n * r + j])'
         /\ n > 0 => out'[n * (r + 1)] = Block(n)'
  BY ONLY r = StdioRoom, Blocks, Since(m), asked' = asked, <1>1, <1>2, <1>3, BlocksStay
<1> HIDE DEF L
<1>6. m * r \in Nat /\ m * (r + 1) = m * r + m
  OBVIOUS
<1>7. Since(m)'
  <2>1. \A j \in 1 .. L + 1 : held'[j] = log'[m * r + j].from
    <3> SUFFICES ASSUME NEW j \in 1 .. L + 1 PROVE held'[j] = log'[m * r + j].from
      OBVIOUS
    <3>1. CASE j = L + 1
      <4>1. m * r + j = Len(log) + 1
        BY <1>1, <1>4, <1>6, <3>1
      <4> QED BY <1>1, <1>2, <3>1, <4>1
    <3>2. CASE j # L + 1
      <4>1. j \in 1 .. L
        BY <1>1, <3>2
      <4>2. m * r + j \in 1 .. Len(log)
        <5>1. L \in Nat /\ j \in Nat /\ 1 <= j /\ j <= L /\ m * r \in Nat
          BY <1>1, <1>6, <4>1
        <5>2. Len(log) = m * r + L
          BY <1>4
        <5> QED BY ONLY <5>1, <5>2
      <4> QED BY <1>1, <1>2, <1>4, <4>1, <4>2
    <3> QED BY <3>1, <3>2
  <2>2. Len(log') = m * r + (L + 1) /\ Len(out') = m * (r + 1) + (L + 1) /\ L + 1 <= r /\ L + 1 > 0
    BY <1>1, <1>2, <1>3, <1>4, <1>6
  <2> QED BY <1>1, <2>1, <2>2 DEF Since
<1>8. ASSUME NEW n \in Nat, NEW j \in 1 .. r, n * r + j = Len(log')
      PROVE  /\ IsContent(out[n * (r + 1) + j], log[n * r + j])'
             /\ n > 0 => out'[n * (r + 1)] = Block(n)'
  <2>1. L + 1 \in 1 .. r /\ L + 1 \in 0 .. r /\ j \in 0 .. r /\ m * r + (L + 1) = n * r + j
    BY <1>1, <1>2, <1>4, <1>6, <1>8
  <2>2. n * r + j <= m * r + (L + 1) /\ m * r + (L + 1) <= n * r + j
    BY <1>6, <2>1
  <2>3. n <= m
    BY <2>1, <2>2, BlockOrder
  <2>4. m <= n
    BY <2>1, <2>2, BlockOrder
  <2>5. n = m /\ n * r \in Nat
    BY <2>3, <2>4
  <2>6. j = L + 1 /\ n * (r + 1) + j = Len(out) + 1 /\ n * r + j = Len(log) + 1
    BY <1>1, <1>4, <1>6, <2>1, <2>5
  <2>7. IsContent(out[n * (r + 1) + j], log[n * r + j])'
    <3>1. out'[n * (r + 1) + j] = k /\ log'[n * r + j] = turn
      BY <1>2, <1>3, <2>6
    <3> QED BY <3>1 DEF IsContent
  <2>8. n > 0 => n * r + 1 <= Len(log) /\ 1 \in 1 .. r
    BY <1>1, <1>4, <1>6, <2>5
  <2> QED BY <1>5, <2>7, <2>8
<1>9. ASSUME NEW n \in Nat, NEW j \in 1 .. r, n * r + j <= Len(log')
      PROVE  n * r + j <= Len(log) \/ n * r + j = Len(log')
  <2>1. n * r \in Nat
    OBVIOUS
  <2> QED BY <1>2, <1>9, <2>1
<1>10. Blocks'
  BY <1>5, <1>8, <1>9 DEF Blocks
<1> QED BY <1>7, <1>10

LEMMA BlockIs ==
  ASSUME NEW s, NEW m \in Nat
  PROVE  BlockOf(s, m + 1) = Headers([j \in 1 .. StdioRoom |-> s[m * StdioRoom + j].from])
<1>1. m + 1 - 1 = m
  OBVIOUS
<1> DEFINE B(k) == Headers([j \in 1 .. StdioRoom |-> s[k * StdioRoom + j].from])
<1>2. BlockOf(s, m + 1) = B(m + 1 - 1)
  BY DEF BlockOf
<1>3. B(m + 1 - 1) = B(m)
  BY <1>1, Zenon
<1> QED BY <1>2, <1>3

(* The stream is full: a block of headers comes out.                        *)
LEMMA RoomFull ==
  ASSUME NEW r \in Nat \ {0}, r = StdioRoom, Blocks, NEW m \in Nat, Since(m), Len(held) >= r,
         log \in Seq(Turns), NEW turn \in Turns, log' = Append(log, turn),
         held \in Seq(Peers), NEW c \in Peers, turn.from = c, held' = <<c>>,
         out \in Seq(Items), NEW k \in Items, out' = out \o <<Headers(held), k>>,
         Headers(held) \in Items, IsContent(k, turn), asked' = asked
  PROVE  Blocks' /\ Since(m + 1)'
<1>1. /\ Len(held) = r /\ Len(held') = 1 /\ held'[1] = c /\ held = [j \in 1 .. r |-> held[j]]
  <2>1. Len(held) \in Nat /\ held = [j \in 1 .. Len(held) |-> held[j]]
    BY LenProperties
  <2>2. Len(held) = r
    BY <2>1 DEF Since
  <2> QED BY <2>1, <2>2
<1>2. /\ Len(log) \in Nat /\ Len(log') = Len(log) + 1 /\ log'[Len(log) + 1] = turn
      /\ \A i \in 1 .. Len(log) : log'[i] = log[i]
  BY OneMore
<1>3. /\ Len(out) \in Nat /\ Len(out') = Len(out) + 2
      /\ out'[Len(out) + 1] = Headers(held) /\ out'[Len(out) + 2] = k
      /\ \A i \in 1 .. Len(out) : out'[i] = out[i]
  BY TwoMore
<1>4. /\ Len(log) = m * r + r /\ Len(out) = m * (r + 1) + r
      /\ \A j \in 1 .. r : held[j] = log[m * r + j].from
  BY <1>1 DEF Since
<1>5. \A n \in Nat, j \in 1 .. r : n * r + j <= Len(log) =>
         /\ IsContent(out[n * (r + 1) + j], log[n * r + j])'
         /\ n > 0 => out'[n * (r + 1)] = Block(n)'
  BY ONLY r = StdioRoom, Blocks, Since(m), asked' = asked, <1>1, <1>2, <1>3, BlocksStay
<1>6. /\ m * r \in Nat /\ m * (r + 1) = m * r + m
      /\ (m + 1) * r = m * r + r /\ (m + 1) * (r + 1) = m * r + r + m + 1
  OBVIOUS
<1>7. Since(m + 1)'
  <2>1. Len(log') = (m + 1) * r + 1 /\ Len(out') = (m + 1) * (r + 1) + 1 /\ 1 <= r /\ 1 > 0
    BY <1>2, <1>3, <1>4, <1>6
  <2>2. \A j \in 1 .. 1 : held'[j] = log'[(m + 1) * r + j].from
    <3>1. (m + 1) * r + 1 = Len(log) + 1
      BY <1>4, <1>6
    <3>2. held'[1] = log'[(m + 1) * r + 1].from
      BY <1>1, <1>2, <3>1
    <3>3. \A j \in 1 .. 1 : j = 1
      OBVIOUS
    <3> QED BY <3>2, <3>3
  <2> QED BY <1>1, <2>1, <2>2 DEF Since
<1>8. out'[(m + 1) * (r + 1)] = Block(m + 1)'
  <2>1. (m + 1) * (r + 1) = Len(out) + 1 /\ m + 1 - 1 = m
    <3>1. PICK a \in Nat : a = m * r
      BY <1>6
    <3>2. Len(out) = a + m + r
      BY <1>4, <1>6, <3>1
    <3>3. (m + 1) * (r + 1) = a + r + m + 1
      BY <1>6, <3>1
    <3>4. a + r + m + 1 = (a + m + r) + 1 /\ m + 1 - 1 = m
      BY <3>1
    <3> QED BY <3>2, <3>3, <3>4, Zenon
  <2>2. \A j \in 1 .. r : m * r + j \in 1 .. Len(log)
    BY <1>4, <1>6
  <2>3. held = [j \in 1 .. r |-> log'[m * r + j].from]
    BY <1>1, <1>2, <1>4, <2>2
  <2>4. Block(m + 1)' = Headers([j \in 1 .. r |-> log'[m * r + j].from])
    <3>1. Block(m + 1)' = BlockOf(log', m + 1)
      BY DEF Block
    <3>2. BlockOf(log', m + 1) = Headers([j \in 1 .. r |-> log'[m * r + j].from])
      BY BlockIs
    <3> QED BY <3>1, <3>2
  <2> QED BY <1>3, <2>1, <2>3, <2>4
<1>9. ASSUME NEW n \in Nat, NEW j \in 1 .. r, n * r + j = Len(log')
      PROVE  /\ IsContent(out[n * (r + 1) + j], log[n * r + j])'
             /\ n > 0 => out'[n * (r + 1)] = Block(n)'
  <2>1. 1 \in 1 .. r /\ 1 \in 0 .. r /\ j \in 0 .. r /\ (m + 1) * r + 1 = n * r + j /\ m + 1 \in Nat
    BY <1>2, <1>4, <1>6, <1>9
  <2>2. n * r \in Nat /\ (m + 1) * r \in Nat
    OBVIOUS
  <2>3. n * r + j <= (m + 1) * r + 1 /\ (m + 1) * r + 1 <= n * r + j
    BY <2>1, <2>2
  <2>4. n <= m + 1
    BY <2>1, <2>3, BlockOrder
  <2>5. m + 1 <= n
    BY <2>1, <2>3, BlockOrder
  <2>6. n = m + 1
    BY <2>4, <2>5
  <2>7. j = 1 /\ n * (r + 1) + j = Len(out) + 2 /\ n * r + j = Len(log) + 1
    BY <1>4, <1>6, <2>1, <2>2, <2>6
  <2>8. out'[n * (r + 1) + j] = k /\ log'[n * r + j] = turn
    BY <1>2, <1>3, <2>7
  <2>9. IsContent(out[n * (r + 1) + j], log[n * r + j])'
    BY <2>8 DEF IsContent
  <2> QED BY <1>8, <2>6, <2>9
<1>10. ASSUME NEW n \in Nat, NEW j \in 1 .. r, n * r + j <= Len(log')
      PROVE  n * r + j <= Len(log) \/ n * r + j = Len(log')
  <2>1. n * r \in Nat
    OBVIOUS
  <2>2. n * r + j \in Nat
    <3>1. j \in Nat
      OBVIOUS
    <3> QED BY ONLY <2>1, <3>1
  <2>3. n * r + j <= Len(log) + 1
    BY <1>2, <1>10
  <2> QED BY <1>2, <2>2, <2>3
<1>11. Blocks'
  BY <1>5, <1>9, <1>10 DEF Blocks
<1> QED BY <1>7, <1>11

(* One turn of the printing server. *)
LEMMA PShows ==
  ASSUME PInv, Types, NEW d \in net, d.to = port, port # 0, Shows(d),
         log' = Append(log, [kind |-> "datagram", from |-> d.from,
                             size |-> Len(Received(d.msg))]),
         net' \in SUBSET net, UNCHANGED <<prog, tty, port, client, asked>>
  PROVE  PInv'
<1> DEFINE size == Len(Received(d.msg))
           c == d.from
           turn == [kind |-> "datagram", from |-> c, size |-> size]
           h == Headers(<<c>>)
           k == Content(d)
<1>1. PTypes /\ NetHere /\ Bound /\ LogHere /\ ByLine /\ ByBlock
  BY DEF PInv
<1>2. /\ prog = "6_06" /\ c \in Clients /\ Told(c, port) /\ d.msg = asked[c].msg
      /\ c \in Peers /\ d.msg \in Seq(Bytes)
  BY <1>1 DEF Shows, NetHere, Types
<1>3. size \in Nat /\ Shown(d.msg) \in Seq({"p", "?"}) /\ Len(Shown(d.msg)) = size
      /\ \A j \in 1 .. size : Shown(d.msg)[j] = "p" <=> d.msg[j] = "p"
  BY <1>2, ReceivedType, ShownIs
<1> HIDE DEF size
<1>4. h \in Items /\ k \in Items /\ \A s \in Seq(Peers) : Headers(s) \in Items
  <2>1. <<>> \in Seq({"p", "?"}) /\ <<c>> \in Seq(Peers)
    BY <1>2
  <2> QED BY <1>2, <1>3, <2>1 DEF Items, Headers, Content
<1>5. turn \in Turns /\ turn.from = c /\ turn.size = size /\ log' = Append(log, turn)
  BY <1>2, <1>3 DEF Turns, size
<1>6. IsContent(k, turn)
  BY <1>2, <1>3, <1>5 DEF IsContent, Content
<1>7. \/ tty /\ out' = out \o <<h, k>> /\ held' = held
      \/ ~tty /\ Len(held) < StdioRoom /\ held' = Append(held, c) /\ out' = Append(out, k)
      \/ ~tty /\ Len(held) >= StdioRoom /\ held' = <<c>> /\ out' = out \o <<Headers(held), k>>
  BY DEF Shows
<1> HIDE DEF turn, h, k
<1>8. log \in Seq(Turns) /\ held \in Seq(Peers) /\ out \in Seq(Items) /\ c \in Peers
  BY <1>1, <1>2 DEF Types, PTypes
<1>9. /\ Len(log) \in Nat /\ Len(log') = Len(log) + 1 /\ log'[Len(log) + 1] = turn
      /\ \A i \in 1 .. Len(log) : log'[i] = log[i]
  BY <1>5, <1>8, OneMore
<1>10. Settled /\ NetHere' /\ Bound'
  <2>1. Settled
    BY DEF Settled
  <2> QED BY <2>1, SentLess DEF Bound
<1>11. PTypes'
  <2>1. <<c>> \in Seq(Peers) /\ Append(held, c) \in Seq(Peers) /\ Append(out, k) \in Seq(Items)
    BY <1>4, <1>8, AppendProperties
  <2>2. out \o <<h, k>> \in Seq(Items) /\ out \o <<Headers(held), k>> \in Seq(Items)
    BY <1>4, <1>8, TwoMore
  <2> QED BY <1>1, <1>7, <1>8, <2>1, <2>2 DEF PTypes
<1>12. LogHere'
  <2> SUFFICES ASSUME NEW i \in 1 .. Len(log) + 1
      PROVE  log'[i].from \in Clients /\ Told(log'[i].from, port)
    BY <1>9 DEF LogHere, Told
  <2>1. CASE i = Len(log) + 1
    BY <1>2, <1>5, <1>9, <2>1
  <2>2. CASE i # Len(log) + 1
    <3>1. i \in 1 .. Len(log)
      BY <1>9, <2>2
    <3> QED BY <1>1, <1>2, <1>9, <3>1 DEF LogHere
  <2> QED BY <2>1, <2>2
<1>13. ByLine'
  <2> SUFFICES ASSUME tty
      PROVE  /\ Len(out') = 2 * Len(log')
             /\ \A i \in 1 .. Len(log') :
                  out'[2 * i - 1] = Headers(<<log'[i].from>>) /\ IsContent(out[2 * i], log[i])'
    BY DEF ByLine
  <2>1. /\ Len(out) = 2 * Len(log)
        /\ \A i \in 1 .. Len(log) :
             out[2 * i - 1] = Headers(<<log[i].from>>) /\ IsContent(out[2 * i], log[i])
    BY <1>1, <1>2 DEF ByLine
  <2>2. /\ Len(out) \in Nat /\ Len(out') = Len(out) + 2
        /\ out'[Len(out) + 1] = h /\ out'[Len(out) + 2] = k
        /\ \A i \in 1 .. Len(out) : out'[i] = out[i]
    BY <1>4, <1>7, <1>8, TwoMore
  <2>3. ASSUME NEW i \in 1 .. Len(log')
        PROVE  out'[2 * i - 1] = Headers(<<log'[i].from>>) /\ IsContent(out[2 * i], log[i])'
    <3>1. CASE i = Len(log) + 1
      <4>1. 2 * i - 1 = Len(out) + 1 /\ 2 * i = Len(out) + 2
        BY <1>9, <2>1, <3>1
      <4> QED BY <1>5, <1>6, <1>9, <2>2, <3>1, <4>1 DEF IsContent, h
    <3>2. CASE i # Len(log) + 1
      <4>1. i \in 1 .. Len(log) /\ 2 * i - 1 \in 1 .. Len(out) /\ 2 * i \in 1 .. Len(out)
        BY <1>9, <2>1, <3>2
      <4>2. /\ out'[2 * i - 1] = out[2 * i - 1] /\ out'[2 * i] = out[2 * i] /\ log'[i] = log[i]
            /\ out[2 * i - 1] = Headers(<<log[i].from>>) /\ IsContent(out[2 * i], log[i])
        BY <1>9, <2>1, <2>2, <4>1
      <4> QED BY <4>2 DEF IsContent
    <3> QED BY <3>1, <3>2
  <2>4. Len(out') = 2 * Len(log')
    BY <1>9, <2>1, <2>2
  <2> QED BY <2>3, <2>4
<1>14. ByBlock'
  <2> SUFFICES ASSUME ~tty PROVE Blocks' /\ (\E n \in Nat : Since(n))'
    BY DEF ByBlock
  <2>1. PICK m \in Nat : Since(m)
    BY <1>1, <1>2 DEF ByBlock
  <2>2. Blocks
    BY <1>1, <1>2 DEF ByBlock
  <2>3. PICK r \in Nat \ {0} : r = StdioRoom
    BY PortAssumption
  <2>4. asked' = asked
    OBVIOUS
  <2>5. CASE Len(held) < StdioRoom /\ held' = Append(held, c) /\ out' = Append(out, k)
    <3>1. Blocks' /\ Since(m)'
      BY ONLY <1>4, <1>5, <1>6, <1>8, <2>1, <2>2, <2>3, <2>4, <2>5, RoomLeft
    <3> QED BY <3>1
  <2>6. CASE Len(held) >= StdioRoom /\ held' = <<c>> /\ out' = out \o <<Headers(held), k>>
    <3>1. Headers(held) \in Items
      BY <1>4, <1>8
    <3>2. Blocks' /\ Since(m + 1)'
      BY ONLY <1>4, <1>5, <1>6, <1>8, <2>1, <2>2, <2>3, <2>4, <2>6, <3>1, RoomFull
    <3>3. m + 1 \in Nat
      OBVIOUS
    <3> QED BY <3>2, <3>3
  <2> QED BY <1>7, <2>5, <2>6
<1> QED BY <1>10, <1>11, <1>12, <1>13, <1>14 DEF PInv

LEMMA PReceive ==
  ASSUME PInv, Types, NEW d \in net, Receive(d)
  PROVE  PInv'
<1>1. /\ port # 0 /\ d.to = port /\ UNCHANGED <<prog, tty, port, client, asked>>
      /\ log' = Append(log, [kind |-> "datagram", from |-> d.from,
                             size |-> Len(Received(d.msg))])
      /\ \E others : /\ others \in SUBSET net
                     /\ (Shows(d) /\ net' = others) \/ (prog = "6_07" /\ UNCHANGED <<held, out>>)
  <2>1. PICK others \in {net \ {d}} \cup
                (IF copies < MaxCopies /\ d.from # Server THEN {net} ELSE {}) :
          \/ Shows(d) /\ net' = others
          \/ prog = "6_07" /\ UNCHANGED <<held, out>>
    BY DEF Receive
  <2>2. others \in SUBSET net
    OBVIOUS
  <2> QED BY <2>1, <2>2 DEF Receive
<1>2. CASE prog = "6_07"
  <2>1. UNCHANGED <<held, out>>
    BY <1>1, <1>2 DEF Shows
  <2> QED BY <1>1, <1>2, <2>1 DEF PInv, PTypes, NetHere, Bound, LogHere, ByLine, ByBlock
<1>3. CASE prog # "6_07"
  <2>1. Shows(d) /\ net' \in SUBSET net
    BY <1>1, <1>3
  <2> QED BY <1>1, <2>1, PShows
<1> QED BY <1>2, <1>3

LEMMA PNext == PInv /\ DInv /\ [Next]_vars => PInv'
<1> SUFFICES ASSUME PInv, DInv, [Next]_vars PROVE PInv'
  OBVIOUS
<1>1. PTypes /\ NetHere /\ Bound /\ LogHere /\ ByLine /\ ByBlock /\ Types
  BY DEF PInv, DInv
<1>2. CASE UNCHANGED vars
  <2>1. Settled /\ UNCHANGED <<prog, tty, port, held, out, log, net, client, asked>>
    BY <1>2 DEF vars, Settled
  <2> QED BY <1>1, <2>1, SentLess, PQuiet DEF PTypes
<1>3. ASSUME NEW digits \in PortTexts, Start(digits) PROVE PInv'
  <2>1. /\ port = 0 /\ log = <<>> /\ Len(log) = 0
        /\ UNCHANGED <<prog, tty, client, asked, net, held, out, log>>
    BY <1>1, <1>3 DEF Start, Bound
  <2>2. LogHere'
    BY <2>1 DEF LogHere
  <2>3. ByLine'
    BY <1>1, <2>1 DEF ByLine
  <2>4. ByBlock'
    <3> SUFFICES ASSUME prog = "6_06", ~tty PROVE Blocks' /\ (\E n \in Nat : Since(n))'
      BY <2>1 DEF ByBlock
    <3>1. PICK n0 \in Nat : Since(n0)
      BY <1>1 DEF ByBlock
    <3>2. Since(n0)'
      BY <2>1, <3>1 DEF Since
    <3>3. \A i \in Nat, k \in 1 .. StdioRoom : ~(i * StdioRoom + k <= 0)
      <4> SUFFICES ASSUME NEW i \in Nat, NEW k \in 1 .. StdioRoom PROVE ~(i * StdioRoom + k <= 0)
        OBVIOUS
      <4>1. i * StdioRoom \in Nat
        BY PortAssumption
      <4> QED BY PortAssumption, <4>1
    <3>4. Blocks'
      BY <2>1, <3>3 DEF Blocks
    <3> QED BY <3>2, <3>4
  <2>5. PTypes' /\ NetHere' /\ Bound'
    BY <1>1, <2>1 DEF PTypes, NetHere, Bound, Told
  <2> QED BY <2>2, <2>3, <2>4, <2>5 DEF PInv
<1>4. ASSUME NEW c \in Clients, Hear(c) PROVE PInv'
  <2>1. /\ client[c] = "waits" /\ client' = [client EXCEPT ![c] = "done"]
        /\ UNCHANGED <<prog, tty, port, asked, net, held, out, log>>
    BY <1>4 DEF Hear
  <2>2. Settled /\ client' \in [Clients -> {"new", "failed", "done", "waits"}]
        /\ asked' \in [Clients -> TypedIn]
    BY <1>1, <2>1 DEF Settled, PTypes
  <2>3. net' \in SUBSET net
    BY <2>1
  <2> QED BY <1>1, <2>1, <2>2, <2>3, SentLess, PQuiet
<1>5. CASE Lose \/ Unreachable
  <2>1. /\ UNCHANGED <<prog, tty, port, client, asked, held, out, log>> /\ net' \in SUBSET net
    <3>1. CASE Lose
      BY <3>1 DEF Lose
    <3>2. CASE Unreachable
      BY <3>2 DEF Unreachable
    <3> QED BY <1>5, <3>1, <3>2
  <2>2. Settled
    BY <2>1 DEF Settled
  <2> QED BY <1>1, <2>1, <2>2, SentLess, PQuiet DEF PTypes
<1>6. CASE TimeOut
  <2>1. prog = "6_07" /\ port # 0 /\ UNCHANGED <<prog, port, client, asked, held, out>>
    BY <1>6 DEF TimeOut
  <2> QED BY <1>1, <2>1 DEF PInv, PTypes, NetHere, Bound, LogHere, ByLine, ByBlock
<1>7. ASSUME NEW c \in Clients \cup {Server}, ReceiveFrom(c) PROVE PInv'
  BY <1>1, <1>7, PReceive DEF ReceiveFrom
<1>8. ASSUME NEW c \in Clients, NEW ip \in Texts, NEW n \in PortTexts, NEW msg \in Messages,
             Asks(c, ip, n, msg)
      PROVE  PInv'
  BY <1>1, <1>8, PAsks
<1>9. CASE Next
  BY <1>3, <1>4, <1>5, <1>6, <1>7, <1>8, <1>9 DEF Next
<1> QED BY <1>2, <1>9

LEMMA PPrinted == PInv /\ DInv => Printed
<1> SUFFICES ASSUME PInv, DInv, prog = "6_06" PROVE Printed
  BY DEF Printed
<1>1. Types /\ PTypes /\ LogHere /\ ByLine /\ ByBlock
  BY DEF PInv, DInv
<1>2. DOMAIN log = 1 .. Len(log) /\ Len(log) \in Nat /\ (log = <<>> <=> Len(log) = 0)
      /\ Len(out) \in Nat /\ (out = <<>> <=> Len(out) = 0)
  BY <1>1, LenProperties, EmptySeq DEF Types, PTypes
<1>3. \A i \in DOMAIN log : SentHere(log[i])
  BY <1>1, <1>2 DEF LogHere, Told, SentHere
<1>4. tty => ShownByLine
  BY <1>1, <1>2 DEF ByLine, ShownByLine
<1>5. ASSUME ~tty PROVE ShownByBlock
  <2>1. PICK r \in Nat \ {0} : r = StdioRoom
    BY PortAssumption
  <2>2. Blocks /\ \E m \in Nat : Since(m)
    BY <1>1, <1>5 DEF ByBlock
  <2>3. PICK m \in Nat : Since(m)
    BY <2>2
  <2>4. /\ Len(held) \in 0 .. r /\ Len(log) = m * r + Len(held) /\ Len(out) = m * (r + 1) + Len(held)
        /\ (m > 0 => Len(held) > 0) /\ m * r \in Nat /\ m * (r + 1) = m * r + m
    <3>1. Len(held) \in Nat
      BY <1>1, LenProperties DEF PTypes
    <3>2. /\ Len(held) <= r /\ Len(log) = m * r + Len(held) /\ Len(out) = m * (r + 1) + Len(held)
          /\ (m > 0 => Len(held) > 0)
      BY <2>1, <2>3 DEF Since
    <3>3. m * r \in Nat /\ m * (r + 1) = m * r + m
      OBVIOUS
    <3> QED BY <3>1, <3>2, <3>3
  <2>5. log = <<>> => out = <<>>
    BY <1>2, <2>4
  <2>6. ASSUME NEW n \in 0 .. Len(log), NEW k \in 1 .. r, n * r + k \in DOMAIN log
        PROVE  /\ IsContent(out[n * (r + 1) + k], log[n * r + k])
               /\ n > 0 => out[n * (r + 1)] = Block(n)
               /\ n * r + k = Len(log) => Len(out) = n * (r + 1) + k
    <3>1. n \in Nat /\ n * r + k <= Len(log) /\ n * r \in Nat
      BY <1>2, <2>6
    <3>2. /\ IsContent(out[n * (r + 1) + k], log[n * r + k])
          /\ n > 0 => out[n * (r + 1)] = Block(n)
      BY <2>1, <2>2, <3>1 DEF Blocks
    <3>3. ASSUME n * r + k = Len(log) PROVE Len(out) = n * (r + 1) + k
      <4>1. Len(held) \in 1 .. r
        <5>1. CASE m > 0
          BY <2>4, <5>1
        <5>2. CASE m = 0
          <6>1. m * r = 0
            BY <5>2
          <6> QED BY <2>4, <3>1, <3>3, <6>1
        <5> QED BY <5>1, <5>2
      <4>2. k \in 0 .. r /\ n * r + k <= m * r + Len(held) /\ m * r + Len(held) <= n * r + k
        BY <2>4, <3>1, <3>3
      <4>3. n * (r + 1) + k <= m * (r + 1) + Len(held)
        BY <2>4, <3>1, <4>2, BlockOrder
      <4>4. m * (r + 1) + Len(held) <= n * (r + 1) + k
        BY <3>1, <4>1, <4>2, BlockOrder
      <4>5. n * (r + 1) \in Nat /\ m * (r + 1) \in Nat
        BY <3>1
      <4> QED BY <2>4, <4>1, <4>3, <4>4, <4>5
    <3> QED BY <3>2, <3>3
  <2> QED BY <2>1, <2>5, <2>6 DEF ShownByBlock, Block, BlockOf
<1> QED BY <1>3, <1>4, <1>5 DEF Printed

(* Every content the printing server writes is a datagram that was sent to  *)
(* this host and port, as it was received; on a terminal it follows its own *)
(* header, elsewhere the headers come out in blocks, as many at once as     *)
(* fill the buffer of the stream.                                           *)
THEOREM PrintedHolds == Spec => []Printed
<1> QED BY DInit, DNext, PInit, PNext, PPrinted, PTL DEF Spec

-----------------------------------------------------------------------------
(***************************************************************************)
(* FileCipher                                                              *)
(***************************************************************************)

CipherTypes ==
  /\ data \in [1 .. Length -> SUBSET Keys]
  /\ key \in [Cmds -> Keys]
  /\ pc \in [Cmds -> {"new", "read", "seek", "write", "done", "failed", "killed"}]
  /\ pos \in [Cmds -> 0 .. Length]
  /\ block \in [Cmds -> Seq(SUBSET Keys)]
  /\ wrote \in [Cmds -> 0 .. Length]
  /\ overlapped \in BOOLEAN

OneAtATime ==
  ~overlapped => \A p, q \in Cmds : C!Running(p) /\ C!Running(q) => p = q

(* Where a command stands in the file.                                      *)
Placed(p) ==
  /\ pc[p] = "new" => pos[p] = 0 /\ wrote[p] = 0
  /\ pc[p] \in {"read", "write"} => pos[p] = wrote[p]
  /\ pc[p] = "seek" => pos[p] = wrote[p] + Len(block[p])
  /\ pc[p] = "write" => wrote[p] + Len(block[p]) <= Length
  /\ pc[p] = "done" => wrote[p] = Length

(* A byte that was read: the one in the file, unless commands ran at once,  *)
(* and in any case one that some of those made that wrote there.            *)
Taken(i, byte) ==
  /\ ~overlapped => byte = data[i]
  /\ \E cmds \in SUBSET C!Writers(i) : byte = C!Sum(cmds)

BlockTrue(p) ==
  \A j \in 1 .. Len(block[p]) :
    /\ pc[p] = "seek" => Taken(wrote[p] + j, block[p][j])
    /\ pc[p] = "write" =>
         \E byte \in SUBSET Keys :
           Taken(wrote[p] + j, byte) /\ block[p][j] = C!Xor(byte, key[p])

ByteTrue(i) ==
  /\ ~overlapped => data[i] = C!Sum(C!Writers(i))
  /\ \E cmds \in SUBSET C!Writers(i) :
       data[i] = C!Sum(cmds) /\ (C!Writers(i) # {} => cmds # {})

XInv ==
  /\ CipherTypes /\ OneAtATime
  /\ \A p \in Cmds : Placed(p)
  /\ \A p \in Cmds : BlockTrue(p)
  /\ \A i \in 1 .. Length : ByteTrue(i)

-----------------------------------------------------------------------------
(* The operators of the libraries, as FileCipher sees them.                 *)
LEMMA MinOfTwo ==
  ASSUME NEW n \in Int, NEW m \in Int
  PROVE  C!Min({n, m}) = IF n <= m THEN n ELSE m
BY DEF C!Min

LEMMA CipherCardinality == ASSUME NEW S PROVE C!Cardinality(S) = Cardinality(S)
BY DEF Cardinality, C!Cardinality, IsFiniteSet, C!IsFiniteSet

LEMMA SumOfNone == C!Sum({}) = {}
<1>1. ASSUME NEW k \in Keys PROVE Cardinality({p \in {} : key[p] = k}) = 0
  <2>1. {p \in {} : key[p] = k} = {}
    OBVIOUS
  <2> QED
    BY <2>1, FS_EmptySet
<1> QED
  BY <1>1, CipherCardinality DEF C!Sum

(* One command more encrypts once more.                                     *)
LEMMA SumOfOneMore ==
  ASSUME CipherSizes, CipherTypes, NEW S \in SUBSET Cmds, NEW p \in Cmds, p \notin S
  PROVE  C!Sum(S \cup {p}) = C!Xor(C!Sum(S), key[p])
<1> DEFINE Of(T, k) == {q \in T : key[q] = k}
<1>1. ASSUME NEW k \in Keys
      PROVE  Cardinality(Of(S \cup {p}, k)) % 2 = 1
               <=> IF k = key[p] THEN Cardinality(Of(S, k)) % 2 # 1
                   ELSE Cardinality(Of(S, k)) % 2 = 1
  <2>1. IsFiniteSet(Of(S, k))
    <3>1. Of(S, k) \subseteq Cmds
      OBVIOUS
    <3> QED
      BY <3>1, FS_Subset DEF CipherSizes
  <2>2. Cardinality(Of(S, k)) \in Nat
    BY <2>1, FS_CardinalityType
  <2>3. CASE k = key[p]
    <3>1. Of(S \cup {p}, k) = Of(S, k) \cup {p} /\ p \notin Of(S, k)
      BY <2>3
    <3>2. Cardinality(Of(S \cup {p}, k)) = Cardinality(Of(S, k)) + 1
      BY <2>1, <3>1, FS_AddElement
    <3> HIDE DEF Of
    <3> QED
      BY <2>2, <2>3, <3>2
  <2>4. CASE k # key[p]
    <3>1. Of(S \cup {p}, k) = Of(S, k)
      BY <2>4
    <3> HIDE DEF Of
    <3> QED
      BY <2>4, <3>1
  <2> QED
    BY <2>3, <2>4
<1>2. key[p] \in Keys
  BY DEF CipherTypes
<1>3. C!Sum(S \cup {p}) = {k \in Keys : Cardinality(Of(S \cup {p}, k)) % 2 = 1}
      /\ C!Sum(S) = {k \in Keys : Cardinality(Of(S, k)) % 2 = 1}
  BY CipherCardinality DEF C!Sum
<1> HIDE DEF Of
<1>4. ASSUME NEW k
      PROVE  k \in C!Sum(S \cup {p}) <=> k \in C!Xor(C!Sum(S), key[p])
  BY <1>1, <1>2, <1>3 DEF C!Xor
<1> QED
  BY <1>4

LEMMA SumIsByte == ASSUME NEW S PROVE C!Sum(S) \in SUBSET Keys
BY DEF C!Sum

LEMMA XorIsByte ==
  ASSUME NEW byte \in SUBSET Keys, NEW k \in Keys PROVE C!Xor(byte, k) \in SUBSET Keys
BY DEF C!Xor

(* A step that writes nothing changes nothing of what was read or written.  *)
LEMMA NothingWritten ==
  ASSUME UNCHANGED <<data, key, wrote>>, overlapped => overlapped'
  PROVE  /\ \A i : C!Writers(i)' = C!Writers(i)
         /\ \A S : C!Sum(S)' = C!Sum(S)
         /\ \A i, byte : Taken(i, byte) => Taken(i, byte)'
         /\ \A i : ByteTrue(i) => ByteTrue(i)'
<1>1. \A i : C!Writers(i)' = C!Writers(i)
  BY DEF C!Writers
<1>2. \A S : C!Sum(S)' = C!Sum(S)
  BY DEF C!Sum
<1>3. ASSUME NEW i, NEW byte, Taken(i, byte) PROVE Taken(i, byte)'
  BY <1>1, <1>2, <1>3 DEF Taken
<1>4. ASSUME NEW i, ByteTrue(i) PROVE ByteTrue(i)'
  BY <1>1, <1>2, <1>4 DEF ByteTrue
<1> QED
  BY <1>1, <1>2, <1>3, <1>4

-----------------------------------------------------------------------------
LEMMA CipherInit == ASSUME CipherSizes PROVE C!Init => XInv
<1> SUFFICES ASSUME C!Init PROVE XInv
  OBVIOUS
<1>1. CipherTypes
  <2>1. <<>> \in Seq(SUBSET Keys) /\ 0 \in 0 .. Length /\ key \in [Cmds -> Keys]
    BY DEF CipherSizes, C!Init
  <2> QED
    BY <2>1 DEF C!Init, CipherTypes
<1>2. OneAtATime
  BY DEF C!Init, OneAtATime, C!Running
<1>3. \A p \in Cmds : Placed(p) /\ BlockTrue(p)
  BY DEF C!Init, Placed, BlockTrue
<1>4. ASSUME NEW i \in 1 .. Length PROVE ByteTrue(i)
  <2>1. C!Writers(i) = {}
    BY DEF C!Init, C!Writers
  <2> QED
    BY <2>1, SumOfNone DEF C!Init, ByteTrue
<1> QED
  BY <1>1, <1>2, <1>3, <1>4 DEF XInv

LEMMA StartKeeps ==
  ASSUME CipherSizes, XInv, NEW p \in Cmds, C!Start(p) PROVE XInv'
<1>1. /\ pc[p] = "new" /\ pc' = [pc EXCEPT ![p] = "read"]
      /\ overlapped' = (overlapped \/ \E q \in Cmds : C!Running(q))
      /\ UNCHANGED <<data, key, pos, block, wrote>>
  BY DEF C!Start
<1>2. CipherTypes'
  BY <1>1 DEF XInv, CipherTypes
<1>3. OneAtATime'
  BY <1>1 DEF XInv, CipherTypes, OneAtATime, C!Running
<1>4. overlapped => overlapped'
  BY <1>1
<1>5. ASSUME NEW q \in Cmds PROVE Placed(q)'
  BY <1>1 DEF XInv, CipherTypes, Placed
<1>6. ASSUME NEW q \in Cmds PROVE BlockTrue(q)'
  <2>1. BlockTrue(q)
    BY DEF XInv
  <2>2. pc'[q] \in {"seek", "write"} => pc'[q] = pc[q]
    BY <1>1 DEF XInv, CipherTypes
  <2>3. \A i, byte : Taken(i, byte) => Taken(i, byte)'
    BY <1>1, <1>4, NothingWritten
  <2> QED
    BY <1>1, <2>1, <2>2, <2>3 DEF BlockTrue
<1>7. ASSUME NEW i \in 1 .. Length PROVE ByteTrue(i)'
  BY <1>1, <1>4, NothingWritten DEF XInv
<1> QED
  BY <1>2, <1>3, <1>5, <1>6, <1>7 DEF XInv

LEMMA ReadKeeps ==
  ASSUME CipherSizes, XInv, NEW p \in Cmds, C!Read(p) PROVE XInv'
<1> DEFINE n == C!Min({buf_size, Length - pos[p]})
<1>1. /\ pc[p] = "read"
      /\ pc' = [pc EXCEPT ![p] = IF n = 0 THEN "done" ELSE "seek"]
      /\ block' = [block EXCEPT ![p] = SubSeq(data, pos[p] + 1, pos[p] + n)]
      /\ pos' = [pos EXCEPT ![p] = @ + n]
      /\ UNCHANGED <<data, key, wrote, overlapped>>
  BY DEF C!Read
<1>2. pos[p] \in 0 .. Length /\ wrote[p] = pos[p]
  BY <1>1 DEF XInv, CipherTypes, Placed
<1>3. n \in Nat /\ pos[p] + n <= Length /\ (n = 0 => pos[p] = Length)
  <2>1. buf_size \in Nat \ {0} /\ Length \in Nat /\ Length - pos[p] \in Nat
    BY <1>2 DEF CipherSizes
  <2>2. buf_size \in Int /\ Length - pos[p] \in Int
    BY <2>1
  <2>3. n = IF buf_size <= Length - pos[p] THEN buf_size ELSE Length - pos[p]
    BY ONLY <2>2, MinOfTwo
  <2> HIDE DEF n
  <2> QED BY ONLY <1>2, <2>1, <2>3
<1> HIDE DEF n
<1>4. /\ SubSeq(data, pos[p] + 1, pos[p] + n) \in Seq(SUBSET Keys)
      /\ Len(SubSeq(data, pos[p] + 1, pos[p] + n)) = n
      /\ \A j \in 1 .. n : SubSeq(data, pos[p] + 1, pos[p] + n)[j] = data[pos[p] + j]
  <2> DEFINE a == pos[p] + 1
             b == pos[p] + n
  <2>1. a \in Int /\ b \in Int /\ b - a + 1 = n /\ (a <= b <=> n > 0)
    BY <1>2, <1>3 DEF CipherSizes
  <2>2. \A i \in a .. b : data[i] \in SUBSET Keys
    <3>1. \A i \in a .. b : i \in 1 .. Length
      BY <1>2, <1>3 DEF CipherSizes
    <3> QED
      BY <3>1 DEF XInv, CipherTypes
  <2>3. \A j \in 1 .. n : a + j - 1 = pos[p] + j
    BY <1>2, <1>3 DEF CipherSizes
  <2> HIDE DEF a, b
  <2>4. /\ SubSeq(data, a, b) \in Seq(SUBSET Keys)
        /\ Len(SubSeq(data, a, b)) = IF a <= b THEN b - a + 1 ELSE 0
        /\ \A j \in 1 .. b - a + 1 : SubSeq(data, a, b)[j] = data[a + j - 1]
    BY <2>1, <2>2, SubSeqProperties
  <2>5. /\ SubSeq(data, a, b) \in Seq(SUBSET Keys)
        /\ Len(SubSeq(data, a, b)) = n
        /\ \A j \in 1 .. n : SubSeq(data, a, b)[j] = data[pos[p] + j]
    BY <1>3, <2>1, <2>3, <2>4
  <2> QED
    BY <2>5 DEF a, b
<1>5. /\ pc'[p] = (IF n = 0 THEN "done" ELSE "seek")
      /\ Len(block'[p]) = n /\ pos'[p] = pos[p] + n
      /\ \A j \in 1 .. n : block'[p][j] = data[pos[p] + j]
      /\ \A q \in Cmds \ {p} : pc'[q] = pc[q] /\ block'[q] = block[q] /\ pos'[q] = pos[q]
  BY <1>1, <1>4 DEF XInv, CipherTypes
<1>6. CipherTypes'
  <2>1. pos[p] + n \in 0 .. Length
    BY <1>2, <1>3 DEF CipherSizes
  <2> QED
    BY <1>1, <1>4, <2>1 DEF XInv, CipherTypes
<1>7. OneAtATime'
  BY <1>1 DEF XInv, CipherTypes, OneAtATime, C!Running
<1>8. ASSUME NEW q \in Cmds PROVE Placed(q)'
  <2>1. Placed(q) /\ wrote' = wrote
    BY <1>1 DEF XInv
  <2>2. CASE q = p
    BY <1>2, <1>3, <1>5, <2>1, <2>2 DEF Placed, CipherSizes
  <2>3. CASE q # p
    BY <1>5, <2>1, <2>3 DEF Placed
  <2> QED
    BY <2>2, <2>3
<1>9. \A i, byte : Taken(i, byte) => Taken(i, byte)'
  BY <1>1, NothingWritten
<1>10. ASSUME NEW q \in Cmds PROVE BlockTrue(q)'
  <2>1. CASE q = p
    <3>1. ASSUME NEW j \in 1 .. n PROVE Taken(wrote[p] + j, data[pos[p] + j])
      <4>1. wrote[p] + j \in 1 .. Length
        BY <1>2, <1>3 DEF CipherSizes
      <4>2. ByteTrue(wrote[p] + j)
        BY <4>1 DEF XInv
      <4> QED
        BY <1>2, <4>2 DEF ByteTrue, Taken
    <3>2. ASSUME NEW j \in 1 .. n, NEW byte, byte = block'[p][j]
          PROVE  Taken(wrote[p] + j, byte)'
      <4>1. byte = data[pos[p] + j]
        BY <1>5, <3>2
      <4>2. PICK i : i = wrote[p] + j
        OBVIOUS
      <4>3. Taken(i, byte)
        BY <3>1, <4>1, <4>2
      <4>4. Taken(i, byte)'
        BY <1>9, <4>3
      <4> QED
        BY <1>1, <4>2, <4>4 DEF Taken, C!Writers
    <3>3. ASSUME NEW j \in 1 .. n PROVE Taken(wrote[p] + j, block[p][j])'
      <4>1. PICK byte : byte = block'[p][j]
        OBVIOUS
      <4>2. Taken(wrote[p] + j, byte)'
        BY <3>2, <4>1
      <4> QED
        BY <4>1, <4>2 DEF Taken
    <3>4. pc'[p] # "write" /\ 1 .. Len(block'[p]) = 1 .. n
      BY <1>5
    <3> QED
      BY <2>1, <3>3, <3>4 DEF BlockTrue
  <2>2. CASE q # p
    <3>1. BlockTrue(q)
      BY DEF XInv
    <3> QED
      BY <1>1, <1>5, <1>9, <2>2, <3>1 DEF BlockTrue
  <2> QED
    BY <2>1, <2>2
<1>11. ASSUME NEW i \in 1 .. Length PROVE ByteTrue(i)'
  BY <1>1, NothingWritten DEF XInv
<1> QED
  BY <1>6, <1>7, <1>8, <1>10, <1>11 DEF XInv

LEMMA StopKeeps ==
  ASSUME CipherSizes, XInv, NEW p \in Cmds, C!ReadFails(p) \/ C!Kill(p) PROVE XInv'
<1>1. /\ pc' = [pc EXCEPT ![p] = "failed"] \/ pc' = [pc EXCEPT ![p] = "killed"]
      /\ UNCHANGED <<data, key, pos, block, wrote, overlapped>>
  BY DEF C!ReadFails, C!Kill
<1>2. CipherTypes'
  BY <1>1 DEF XInv, CipherTypes
<1>3. \A q \in Cmds : pc'[q] \in {pc[q], "failed", "killed"}
  BY <1>1 DEF XInv, CipherTypes
<1>4. OneAtATime'
  BY <1>1, <1>3 DEF XInv, OneAtATime, C!Running
<1>5. ASSUME NEW q \in Cmds PROVE Placed(q)'
  BY <1>1, <1>3 DEF XInv, Placed
<1>6. ASSUME NEW q \in Cmds PROVE BlockTrue(q)'
  <2>1. BlockTrue(q)
    BY DEF XInv
  <2>2. \A i, byte : Taken(i, byte) => Taken(i, byte)'
    BY <1>1, NothingWritten
  <2>3. pc'[q] \in {"seek", "write"} => pc'[q] = pc[q]
    BY <1>3
  <2> QED
    BY <1>1, <2>1, <2>2, <2>3 DEF BlockTrue
<1>7. ASSUME NEW i \in 1 .. Length PROVE ByteTrue(i)'
  BY <1>1, NothingWritten DEF XInv
<1> QED
  BY <1>2, <1>4, <1>5, <1>6, <1>7 DEF XInv

LEMMA EncryptedBlock ==
  ASSUME NEW taken \in Seq(SUBSET Keys), NEW k \in Keys
  PROVE  /\ C!encrypt_data(taken, k) \in Seq(SUBSET Keys)
         /\ Len(C!encrypt_data(taken, k)) = Len(taken)
         /\ \A j \in 1 .. Len(taken) : C!encrypt_data(taken, k)[j] = C!Xor(taken[j], k)
<1>1. DOMAIN taken = 1 .. Len(taken) /\ Len(taken) \in Nat
      /\ \A j \in 1 .. Len(taken) : taken[j] \in SUBSET Keys
  OBVIOUS
<1>2. C!encrypt_data(taken, k) = [j \in 1 .. Len(taken) |-> C!Xor(taken[j], k)]
  BY <1>1 DEF C!encrypt_data
<1>3. \A j \in 1 .. Len(taken) : C!Xor(taken[j], k) \in SUBSET Keys
  BY <1>1, XorIsByte
<1> QED
  BY <1>1, <1>2, <1>3

LEMMA SeekKeeps ==
  ASSUME CipherSizes, XInv, NEW p \in Cmds, C!Seek(p) PROVE XInv'
<1>1. /\ pc[p] = "seek" /\ pc' = [pc EXCEPT ![p] = "write"]
      /\ block' = [block EXCEPT ![p] = C!encrypt_data(block[p], key[p])]
      /\ pos' = [pos EXCEPT ![p] = pos[p] - Len(block[p])]
      /\ UNCHANGED <<data, key, wrote, overlapped>>
  BY DEF C!Seek, XInv, CipherTypes
<1>2. /\ block[p] \in Seq(SUBSET Keys) /\ Len(block[p]) \in Nat /\ key[p] \in Keys
      /\ pos[p] \in 0 .. Length /\ wrote[p] \in 0 .. Length
      /\ pos[p] = wrote[p] + Len(block[p])
  BY <1>1 DEF XInv, CipherTypes, Placed
<1>3. /\ C!encrypt_data(block[p], key[p]) \in Seq(SUBSET Keys)
      /\ Len(C!encrypt_data(block[p], key[p])) = Len(block[p])
      /\ \A j \in 1 .. Len(block[p]) :
           C!encrypt_data(block[p], key[p])[j] = C!Xor(block[p][j], key[p])
  BY <1>2, EncryptedBlock
<1>4. pos[p] - Len(block[p]) = wrote[p]
  BY <1>2 DEF CipherSizes
<1>5. /\ pc'[p] = "write" /\ pos'[p] = wrote[p] /\ Len(block'[p]) = Len(block[p])
      /\ \A j \in 1 .. Len(block[p]) : block'[p][j] = C!Xor(block[p][j], key[p])
      /\ \A q \in Cmds \ {p} : pc'[q] = pc[q] /\ block'[q] = block[q] /\ pos'[q] = pos[q]
  BY <1>1, <1>3, <1>4 DEF XInv, CipherTypes
<1>6. CipherTypes'
  BY <1>1, <1>2, <1>3, <1>4 DEF XInv, CipherTypes
<1>7. OneAtATime'
  BY <1>1 DEF XInv, CipherTypes, OneAtATime, C!Running
<1>8. ASSUME NEW q \in Cmds PROVE Placed(q)'
  <2>1. Placed(q) /\ wrote' = wrote
    BY <1>1 DEF XInv
  <2>2. CASE q = p
    BY <1>2, <1>5, <2>1, <2>2 DEF Placed, CipherSizes
  <2>3. CASE q # p
    BY <1>5, <2>1, <2>3 DEF Placed
  <2> QED
    BY <2>2, <2>3
<1>9. \A i, byte : Taken(i, byte) => Taken(i, byte)'
  BY <1>1, NothingWritten
<1>10. ASSUME NEW q \in Cmds PROVE BlockTrue(q)'
  <2>1. BlockTrue(q)
    BY DEF XInv
  <2>2. CASE q = p
    <3>1. ASSUME NEW j \in 1 .. Len(block[p])
          PROVE  \E byte \in SUBSET Keys :
                   (Taken(wrote[p] + j, byte) /\ block[p][j] = C!Xor(byte, key[p]))'
      <4>1. PICK byte \in SUBSET Keys : byte = block[p][j]
        BY <1>2
      <4>2. PICK i : i = wrote[p] + j
        OBVIOUS
      <4>3. Taken(i, byte)
        BY <1>1, <2>1, <2>2, <4>1, <4>2 DEF BlockTrue
      <4>4. Taken(i, byte)'
        BY <1>9, <4>3
      <4> QED
        BY <1>1, <1>5, <4>1, <4>2, <4>4
    <3> QED
      BY <1>5, <2>2, <3>1 DEF BlockTrue
  <2>3. CASE q # p
    BY <1>1, <1>5, <1>9, <2>1, <2>3 DEF BlockTrue
  <2> QED
    BY <2>2, <2>3
<1>11. ASSUME NEW i \in 1 .. Length PROVE ByteTrue(i)'
  BY <1>1, NothingWritten DEF XInv
<1> QED
  BY <1>6, <1>7, <1>8, <1>10, <1>11 DEF XInv

(* A block that is written adds its command to those of its bytes.          *)
LEMMA WriteKeeps ==
  ASSUME CipherSizes, XInv, NEW p \in Cmds, C!Write(p) PROVE XInv'
<1> DEFINE end == pos[p] + Len(block[p])
<1>1. /\ pc[p] = "write" /\ pc' = [pc EXCEPT ![p] = "read"]
      /\ data' = [i \in 1 .. Length |->
                    IF pos[p] < i /\ i <= end THEN block[p][i - pos[p]] ELSE data[i]]
      /\ pos' = [pos EXCEPT ![p] = end]
      /\ wrote' = [wrote EXCEPT ![p] = end]
      /\ UNCHANGED <<key, block, overlapped>>
  BY DEF C!Write
<1>2. /\ block[p] \in Seq(SUBSET Keys) /\ Len(block[p]) \in Nat /\ key[p] \in Keys
      /\ pos[p] \in 0 .. Length /\ wrote[p] = pos[p] /\ end <= Length
  BY <1>1 DEF XInv, CipherTypes, Placed
<1>3. end \in 0 .. Length /\ end >= pos[p]
  BY <1>2 DEF CipherSizes
<1>4. \A i \in 1 .. Length : pos[p] < i /\ i <= end => i - pos[p] \in 1 .. Len(block[p])
  BY <1>2, <1>3 DEF CipherSizes
<1>5. \A i \in 1 .. Length : pos[p] < i /\ i <= end => block[p][i - pos[p]] \in SUBSET Keys
  BY <1>2, <1>4
<1> HIDE DEF end
<1>6. CipherTypes'
  BY <1>1, <1>3, <1>5 DEF XInv, CipherTypes
<1>7. /\ pc'[p] = "read" /\ pos'[p] = end /\ wrote'[p] = end
      /\ \A q \in Cmds \ {p} : pc'[q] = pc[q] /\ wrote'[q] = wrote[q] /\ pos'[q] = pos[q]
  BY <1>1 DEF XInv, CipherTypes
<1>8. OneAtATime'
  BY <1>1 DEF XInv, CipherTypes, OneAtATime, C!Running
<1>9. ASSUME NEW q \in Cmds PROVE Placed(q)'
  <2>1. Placed(q) /\ block' = block
    BY <1>1 DEF XInv
  <2> QED
    BY <1>7, <2>1 DEF Placed
<1>10. \A S : C!Sum(S)' = C!Sum(S)
  BY <1>1 DEF C!Sum
<1>11. ASSUME NEW i \in 1 .. Length
       PROVE  /\ pos[p] < i /\ i <= end => p \notin C!Writers(i) /\ C!Writers(i)' = C!Writers(i) \cup {p}
              /\ ~(pos[p] < i /\ i <= end) => C!Writers(i)' = C!Writers(i)
  <2>1. \A q \in Cmds : wrote[q] \in Int /\ wrote'[q] \in Int
    BY <1>6 DEF XInv, CipherTypes
  <2>2. p \in C!Writers(i) <=> pos[p] >= i
    BY <1>2 DEF C!Writers
  <2>3. p \in C!Writers(i)' <=> end >= i
    BY <1>7 DEF C!Writers
  <2>4. \A q \in Cmds \ {p} : q \in C!Writers(i)' <=> q \in C!Writers(i)
    BY <1>7 DEF C!Writers
  <2>5. C!Writers(i) \subseteq Cmds /\ C!Writers(i)' \subseteq Cmds
    BY DEF C!Writers
  <2>6. pos[p] \in Int /\ end \in Int /\ i \in Int
    BY <1>2, <1>3
  <2> QED
    BY <1>3, <2>2, <2>3, <2>4, <2>5, <2>6
<1>12. ASSUME NEW i \in 1 .. Length PROVE C!Writers(i) \subseteq C!Writers(i)'
  BY <1>11
<1>13. ASSUME NEW i \in 1 .. Length PROVE ByteTrue(i)'
  <2>1. ByteTrue(i) /\ overlapped' = overlapped
    BY <1>1 DEF XInv
  <2>2. CASE pos[p] < i /\ i <= end
    <3>1. data'[i] = block[p][i - pos[p]]
      BY <1>1, <2>2
    <3>2. PICK j \in 1 .. Len(block[p]) : j = i - pos[p]
      BY <1>4, <2>2
    <3>3. wrote[p] + j = i
      BY <1>2, <3>2
    <3>4. PICK byte \in SUBSET Keys : Taken(i, byte) /\ block[p][j] = C!Xor(byte, key[p])
      BY <1>1, <3>3 DEF XInv, BlockTrue
    <3>5. data'[i] = C!Xor(byte, key[p])
      BY <3>1, <3>2, <3>4
    <3>6. p \notin C!Writers(i) /\ C!Writers(i)' = C!Writers(i) \cup {p} /\ C!Writers(i) \subseteq Cmds
      BY <1>11, <2>2 DEF C!Writers
    <3>7. \A S \in SUBSET C!Writers(i) : C!Sum(S \cup {p}) = C!Xor(C!Sum(S), key[p])
      <4>1. ASSUME NEW S \in SUBSET C!Writers(i) PROVE C!Sum(S \cup {p}) = C!Xor(C!Sum(S), key[p])
        <5>1. S \in SUBSET Cmds /\ p \notin S /\ CipherTypes
          BY <3>6 DEF XInv
        <5> QED
          BY <5>1, SumOfOneMore
      <4> QED
        BY <4>1
    <3>8. ~overlapped' => data'[i] = C!Sum(C!Writers(i))'
      <4>1. ~overlapped => byte = C!Sum(C!Writers(i))
        BY <2>1, <3>4 DEF Taken, ByteTrue
      <4> QED
        BY <1>10, <2>1, <3>5, <3>6, <3>7, <4>1
    <3>9. PICK cmds \in SUBSET C!Writers(i) : byte = C!Sum(cmds)
      BY <3>4 DEF Taken
    <3>10. data'[i] = C!Sum(cmds \cup {p})' /\ cmds \cup {p} \in SUBSET C!Writers(i)'
      BY <1>10, <3>5, <3>6, <3>7, <3>9
    <3> QED
      BY <3>8, <3>10 DEF ByteTrue
  <2>3. CASE ~(pos[p] < i /\ i <= end)
    <3>1. data'[i] = data[i] /\ C!Writers(i)' = C!Writers(i)
      BY <1>1, <1>11, <2>3
    <3> QED
      BY <1>10, <2>1, <3>1 DEF ByteTrue
  <2> QED
    BY <2>2, <2>3
<1>14. ASSUME NEW q \in Cmds PROVE BlockTrue(q)'
  <2>1. BlockTrue(q) /\ key' = key /\ block' = block
    BY <1>1 DEF XInv
  <2>2. CASE q = p
    BY <1>7, <2>2 DEF BlockTrue
  <2>3. CASE q # p /\ pc[q] \in {"seek", "write"}
    <3>1. overlapped /\ overlapped'
      BY <1>1, <2>3 DEF XInv, OneAtATime, C!Running
    <3>2. ASSUME NEW j \in 1 .. Len(block[q]), NEW byte, Taken(wrote[q] + j, byte)
          PROVE  Taken(wrote[q] + j, byte)'
      <4>1. wrote[q] + j \in 1 .. Length
        BY <2>3 DEF XInv, CipherTypes, Placed, CipherSizes
      <4>2. PICK i \in 1 .. Length : i = wrote[q] + j
        BY <4>1
      <4>3. PICK cmds \in SUBSET C!Writers(i) : byte = C!Sum(cmds)
        BY <3>2, <4>2 DEF Taken
      <4>4. cmds \in SUBSET C!Writers(i)' /\ byte = C!Sum(cmds)'
        BY <1>10, <1>12, <4>3
      <4>5. wrote'[q] = wrote[q]
        BY <1>7, <2>3
      <4>6. Taken(i, byte)'
        BY <3>1, <4>4 DEF Taken
      <4> QED
        BY <4>2, <4>5, <4>6 DEF Taken, C!Writers
    <3> QED
      BY <1>7, <2>1, <2>3, <3>2 DEF BlockTrue
  <2>4. CASE q # p /\ pc[q] \notin {"seek", "write"}
    BY <1>7, <2>4 DEF BlockTrue
  <2> QED
    BY <2>2, <2>3, <2>4
<1> QED
  BY <1>6, <1>8, <1>9, <1>13, <1>14 DEF XInv

-----------------------------------------------------------------------------
LEMMA CipherInductive == ASSUME CipherSizes PROVE XInv /\ [C!Next]_(C!cipherVars) => XInv'
<1> SUFFICES ASSUME XInv, [C!Next]_(C!cipherVars) PROVE XInv'
  OBVIOUS
<1>1. CASE C!Next
  <2>1. PICK p \in Cmds :
          C!Start(p) \/ C!Read(p) \/ C!ReadFails(p) \/ C!Seek(p) \/ C!Write(p) \/ C!Kill(p)
    BY <1>1 DEF C!Next
  <2> QED
    BY <2>1, StartKeeps, ReadKeeps, StopKeeps, SeekKeeps, WriteKeeps
<1>2. CASE UNCHANGED C!cipherVars
  <2>1. UNCHANGED <<data, key, pc, pos, block, wrote, overlapped>>
    BY <1>2 DEF C!cipherVars
  <2>2. CipherTypes' /\ OneAtATime' /\ \A p \in Cmds : Placed(p)'
    BY <2>1 DEF XInv, CipherTypes, OneAtATime, C!Running, Placed
  <2>3. \A p \in Cmds : BlockTrue(p)'
    <3>1. \A i, byte : Taken(i, byte) => Taken(i, byte)'
      BY <2>1, NothingWritten
    <3> QED
      BY <2>1, <3>1 DEF XInv, BlockTrue
  <2>4. \A i \in 1 .. Length : ByteTrue(i)'
    BY <2>1, NothingWritten DEF XInv
  <2> QED
    BY <2>2, <2>3, <2>4 DEF XInv
<1> QED
  BY <1>1, <1>2

LEMMA CipherImplied == ASSUME CipherSizes PROVE XInv => C!CipherIsExact
<1> SUFFICES ASSUME XInv PROVE C!CipherIsExact
  OBVIOUS
<1>1. ASSUME NEW i \in 1 .. Length
      PROVE  /\ ~overlapped => data[i] = C!Sum(C!Writers(i))
             /\ C!Writers(i) # {} =>
                  \E cmds \in SUBSET C!Writers(i) : cmds # {} /\ data[i] = C!Sum(cmds)
             /\ C!Writers(i) = {} => data[i] = {}
  <2>1. ByteTrue(i)
    BY DEF XInv
  <2>2. C!Writers(i) = {} => data[i] = {}
    BY <2>1, SumOfNone DEF ByteTrue
  <2> QED
    BY <2>1, <2>2 DEF ByteTrue
<1>2. \A p \in Cmds : pc[p] = "done" => wrote[p] = Length
  BY DEF XInv, Placed
<1> QED
  BY <1>1, <1>2 DEF C!CipherIsExact

(* However long the file and the buffer, and however many commands with     *)
(* whatever keys are run and killed: commands that do not run at once       *)
(* encrypt each byte with the keys of just those that came that far, and of *)
(* those that do, not all are lost.                                         *)
THEOREM CipherCorrect == C!Spec => []C!CipherIsExact
<1>0. CipherSizes
  BY FilesAssumption
<1>1. C!Init => XInv
  BY <1>0, CipherInit
<1>2. XInv /\ [C!Next]_(C!cipherVars) => XInv'
  BY <1>0, CipherInductive
<1>3. XInv => C!CipherIsExact
  BY <1>0, CipherImplied
<1> QED
  BY <1>1, <1>2, <1>3, PTL DEF C!Spec

-----------------------------------------------------------------------------
(***************************************************************************)
(* FileFill                                                                *)
(***************************************************************************)

FillTypes ==
  /\ start_position \in Int /\ len0 \in Int /\ len \in Int
  /\ place \in Nat /\ fails \in Nat
  /\ bytes \in [F!Places -> {"old", "none", "value", "junk", "zero"}]
  /\ filling \in {"open", "write", "done"}

(* What is written and what is left make up what was asked for and the      *)
(* failures; a stretch that is not positive is left alone.                  *)
LengthKept ==
  /\ filling = "open" => place = 0 /\ fails = 0 /\ len = len0 /\ bytes = F!Before
  /\ filling # "open" => place >= F!First /\ place - F!First + len = len0 + fails
  /\ len0 > 0 => len >= 0
  /\ len0 <= 0 => len = len0 /\ fails = 0
  /\ filling = "done" => len <= 0

BytesKept ==
  \A i \in F!Places :
    LET written == filling # "open" /\ F!First <= i /\ i < place IN
    /\ written => bytes[i] = "value" \/ (bytes[i] = "junk" /\ fails > 0 /\ len0 < max_len)
    /\ ~written => bytes[i] = F!Before[i] \/ (bytes[i] = "zero" /\ FileSize <= i /\ i < F!First)

FInv == FillTypes /\ LengthKept /\ BytesKept

-----------------------------------------------------------------------------
LEMMA FillMax ==
  ASSUME NEW n \in Int
  PROVE  F!Max({0, n}) = IF n > 0 THEN n ELSE 0
BY DEF F!Max

LEMMA FillMin ==
  ASSUME NEW n \in Int, NEW m \in Int
  PROVE  F!Min({n, m}) = IF n <= m THEN n ELSE m
BY DEF F!Min

LEMMA FillInit == ASSUME FillSizes PROVE F!Init => FInv
<1> SUFFICES ASSUME F!Init PROVE FInv
  OBVIOUS
<1>1. FillTypes
  BY DEF FillSizes, F!Init, FillTypes, F!Before, F!Places
<1>2. LengthKept
  BY <1>1 DEF FillTypes, F!Init, LengthKept
<1>3. BytesKept
  BY DEF F!Init, BytesKept
<1> QED
  BY <1>1, <1>2, <1>3 DEF FInv

LEMMA LseekKeeps == ASSUME FillSizes, FInv, F!Lseek PROVE FInv'
<1>1. /\ F!First' = F!First /\ F!First \in Nat /\ place' = F!First
      /\ filling = "open" /\ filling' = "write" /\ place = 0
      /\ UNCHANGED <<start_position, len0, len, bytes, fails>>
  BY FillMax DEF FInv, FillTypes, LengthKept, F!Lseek, F!First
<1>2. FillTypes'
  BY <1>1 DEF FInv, FillTypes
<1>3. LengthKept'
  BY <1>1, <1>2 DEF FInv, FillTypes, LengthKept
<1>4. BytesKept'
  BY <1>1 DEF FInv, FillTypes, BytesKept, F!Places, F!Before, FillSizes
<1> QED
  BY <1>2, <1>3, <1>4 DEF FInv

LEMMA FillWriteKeeps == ASSUME FillSizes, FInv, F!Write PROVE FInv'
<1>1. PICK n \in 1 .. F!Shorter(len) :
        /\ bytes' = [i \in F!Places |->
                       IF i \in place .. place + n - 1 THEN F!fill_arr(i - place)
                       ELSE IF i < place /\ bytes[i] = "none" THEN "zero"
                       ELSE bytes[i]]
        /\ place' = place + n /\ len' = len - n
  BY DEF F!Write
<1>2. /\ filling = "write" /\ len > 0 /\ len0 > 0
      /\ UNCHANGED <<start_position, len0, fails, filling>>
  BY DEF F!Write, FInv, FillTypes, LengthKept
<1>3. n \in 1 .. len /\ n <= max_len
  BY <1>1, <1>2, FillMin DEF F!Shorter, FInv, FillTypes, FillSizes
<1>4. F!First \in Nat /\ F!First' = F!First
  BY <1>2, FillMax DEF F!First, FInv, FillTypes
<1>5. place >= F!First /\ place - F!First + len = len0 + fails
  BY <1>2 DEF FInv, LengthKept
<1>6. FillTypes'
  <2>1. \A i \in F!Places : F!fill_arr(i - place) \in {"value", "junk"}
    BY DEF F!fill_arr
  <2>2. bytes' \in [F!Places -> {"old", "none", "value", "junk", "zero"}]
    BY <1>1, <2>1 DEF FInv, FillTypes
  <2> QED
    BY <1>1, <1>2, <1>3, <2>2 DEF FInv, FillTypes
<1>7. LengthKept'
  BY <1>1, <1>2, <1>3, <1>4, <1>5, <1>6 DEF FInv, FillTypes, LengthKept
<1>8. BytesKept'
  <2> SUFFICES ASSUME NEW i \in F!Places
      PROVE  /\ F!First <= i /\ i < place'
                  => bytes'[i] = "value" \/ (bytes'[i] = "junk" /\ fails > 0 /\ len0 < max_len)
             /\ ~(F!First <= i /\ i < place')
                  => bytes'[i] = F!Before[i] \/ (bytes'[i] = "zero" /\ FileSize <= i /\ i < F!First)
    BY <1>2, <1>4 DEF BytesKept, F!Before
  <2>1. i \in Nat /\ place \in Nat /\ len \in Nat /\ len0 \in Nat /\ fails \in Nat
        /\ FileSize \in Nat /\ max_len \in Nat
    BY <1>2, <1>5 DEF F!Places, FInv, FillTypes, FillSizes
  <2>2. bytes'[i] = IF i \in place .. place + n - 1 THEN F!fill_arr(i - place)
                    ELSE IF i < place /\ bytes[i] = "none" THEN "zero"
                    ELSE bytes[i]
    BY <1>1
  <2>3. CASE i \in place .. place + n - 1
    <3>1. bytes'[i] = IF i - place < F!Shorter(len0) THEN "value" ELSE "junk"
      BY <2>2, <2>3 DEF F!fill_arr
    <3>2. F!Shorter(len0) = IF len0 <= max_len THEN len0 ELSE max_len
      BY <2>1, FillMin DEF F!Shorter
    <3>3. i - place >= F!Shorter(len0) => fails > 0 /\ len0 < max_len
      BY <1>3, <1>4, <1>5, <2>1, <2>3, <3>2
    <3>4. F!First <= i /\ i < place'
      BY <1>1, <1>3, <1>4, <1>5, <2>1, <2>3
    <3> QED
      BY <1>4, <2>1, <3>1, <3>2, <3>3, <3>4
  <2>4. CASE i \notin place .. place + n - 1
    <3>1. (F!First <= i /\ i < place') <=> (F!First <= i /\ i < place)
      BY <1>1, <1>3, <1>4, <1>5, <2>1, <2>4
    <3>2. bytes'[i] = IF i < place /\ bytes[i] = "none" THEN "zero" ELSE bytes[i]
      BY <2>2, <2>4
    <3>3. /\ F!First <= i /\ i < place
               => bytes[i] = "value" \/ (bytes[i] = "junk" /\ fails > 0 /\ len0 < max_len)
          /\ ~(F!First <= i /\ i < place)
               => bytes[i] = F!Before[i] \/ (bytes[i] = "zero" /\ FileSize <= i /\ i < F!First)
      BY <1>2 DEF FInv, BytesKept
    <3>4. F!Before[i] = IF i < FileSize THEN "old" ELSE "none"
      BY DEF F!Before
    <3>5. CASE F!First <= i /\ i < place
      BY <3>1, <3>2, <3>3, <3>5
    <3>6. CASE ~(F!First <= i /\ i < place)
      BY <1>4, <2>1, <3>1, <3>2, <3>3, <3>4, <3>6
    <3> QED
      BY <3>5, <3>6
  <2> QED
    BY <2>3, <2>4
<1> QED
  BY <1>6, <1>7, <1>8 DEF FInv

LEMMA WriteFailsKeeps == ASSUME FillSizes, FInv, F!WriteFails PROVE FInv'
<1>1. /\ filling = "write" /\ filling' = "write" /\ len > 0 /\ len' = len + 1
      /\ fails' = fails + 1 /\ UNCHANGED <<start_position, len0, place, bytes>>
  BY DEF F!WriteFails
<1>2. F!First \in Nat /\ F!First' = F!First
  BY <1>1, FillMax DEF F!First, FInv, FillTypes
<1>3. FillTypes'
  BY <1>1 DEF FInv, FillTypes
<1>4. LengthKept'
  BY <1>1, <1>2, <1>3 DEF FInv, FillTypes, LengthKept
<1>5. BytesKept'
  BY <1>1, <1>2 DEF FInv, FillTypes, BytesKept, F!Before
<1> QED
  BY <1>3, <1>4, <1>5 DEF FInv

LEMMA CloseKeeps == ASSUME FillSizes, FInv, F!Close PROVE FInv'
<1>1. /\ filling = "write" /\ filling' = "done" /\ len <= 0
      /\ UNCHANGED <<start_position, len0, len, place, bytes, fails>>
  BY DEF F!Close
<1>2. F!First' = F!First
  BY <1>1 DEF F!First
<1>3. FillTypes'
  BY <1>1 DEF FInv, FillTypes
<1>4. LengthKept'
  BY <1>1, <1>2, <1>3 DEF FInv, FillTypes, LengthKept
<1>5. BytesKept'
  BY <1>1, <1>2 DEF FInv, BytesKept, F!Before
<1> QED
  BY <1>3, <1>4, <1>5 DEF FInv

LEMMA FillInductive == ASSUME FillSizes PROVE FInv /\ [F!Next]_(F!fillVars) => FInv'
<1> SUFFICES ASSUME FInv, [F!Next]_(F!fillVars) PROVE FInv'
  OBVIOUS
<1>1. CASE F!Lseek
  BY <1>1, LseekKeeps
<1>2. CASE F!Write
  BY <1>2, FillWriteKeeps
<1>3. CASE F!WriteFails
  BY <1>3, WriteFailsKeeps
<1>4. CASE F!Close
  BY <1>4, CloseKeeps
<1>5. CASE UNCHANGED F!fillVars
  BY <1>5 DEF F!fillVars, FInv, FillTypes, LengthKept, BytesKept, F!First, F!Before
<1> QED
  BY <1>1, <1>2, <1>3, <1>4, <1>5 DEF F!Next

LEMMA FillImplied == ASSUME FillSizes PROVE FInv => F!FillIsExact
<1> SUFFICES ASSUME FInv PROVE F!FillIsExact
  OBVIOUS
<1>1. F!First \in Nat
  BY FillMax DEF F!First, FInv, FillTypes
<1>2. F!Max({0, len0}) = IF len0 > 0 THEN len0 ELSE 0
  BY FillMax DEF FInv, FillTypes
<1>3. filling = "done" => place - F!First = F!Max({0, len0}) + fails
  <2> SUFFICES ASSUME filling = "done" PROVE place - F!First = F!Max({0, len0}) + fails
    OBVIOUS
  <2>1. /\ place >= F!First /\ place - F!First + len = len0 + fails /\ len <= 0
        /\ len0 > 0 => len >= 0
        /\ len0 <= 0 => len = len0 /\ fails = 0
        /\ place \in Nat /\ len \in Int /\ len0 \in Int /\ fails \in Nat
    BY DEF FInv, FillTypes, LengthKept
  <2> QED
    BY <1>1, <1>2, <2>1
<1> QED
  BY <1>3 DEF FInv, BytesKept, F!FillIsExact

(* 5_05 fills the stretch it was asked for and nothing else, however the    *)
(* writes are cut up; each write that fails lengthens the stretch by one    *)
(* byte.                                                                    *)
THEOREM FillCorrect == F!Spec => []F!FillIsExact
<1>0. FillSizes
  BY FilesAssumption
<1>1. F!Init => FInv
  BY <1>0, FillInit
<1>2. FInv /\ [F!Next]_(F!fillVars) => FInv'
  BY <1>0, FillInductive
<1>3. FInv => F!FillIsExact
  BY <1>0, FillImplied
<1> QED
  BY <1>1, <1>2, <1>3, PTL DEF F!Spec
-----------------------------------------------------------------------------
(***************************************************************************)
(* IntReport                                                               *)
(***************************************************************************)
(* One turn of the two loops over a sequence: one digit more of a number,   *)
(* one int more to compare with the largest and the smallest.               *)
OneTurn(what, x, c) ==
  IF what = "digit" THEN 10 * x + c
  ELSE IF c > x.max THEN [x EXCEPT !.max = c]
  ELSE IF c < x.min THEN [x EXCEPT !.min = c] ELSE x

(* h takes the fold over every subset of 1 .. n.                            *)
TurnsOf(what, h, t, s, n) ==
  h = [T \in SUBSET (1 .. n) |-> IF T = {} THEN t ELSE OneTurn(what, h[T \ {Max(T)}], s[Max(T)])]

(* There is only one such function.                                         *)
LEMMA TurnsUnique ==
  ASSUME NEW what, NEW n \in Nat, NEW t, NEW s, NEW h, NEW e, TurnsOf(what, h, t, s, n), TurnsOf(what, e, t, s, n)
  PROVE  \A T \in SUBSET (1 .. n) : h[T] = e[T]
<1> DEFINE Bad == {m \in 0 .. n : \E T \in SUBSET (1 .. m) : h[T] # e[T]}
<1>1. SUFFICES ASSUME Bad # {} PROVE FALSE
  <2>1. n \in 0 .. n
    OBVIOUS
  <2> QED BY <1>1, <2>1
<1>2. Bad \in SUBSET Nat
  OBVIOUS
<1>3. PICK m \in Bad : \A k \in Bad : m <= k
  BY <1>1, <1>2, LeastOf
<1>4. PICK T \in SUBSET (1 .. m) : h[T] # e[T]
  BY <1>3
<1>5. m \in 0 .. n /\ T \in SUBSET (1 .. n)
  BY <1>3
<1>6. T # {}
  BY <1>4, <1>5 DEF TurnsOf
<1>7. Max(T) \in T /\ \A y \in T : Max(T) >= y
  BY <1>5, <1>6, MaxIsIn
<1> DEFINE p == Max(T)
           k == p - 1
<1>8. k \in 0 .. n /\ k < m /\ T \ {p} \in SUBSET (1 .. k)
  <2>1. p \in 1 .. m /\ m \in 0 .. n /\ \A y \in T : y \in Int /\ y >= 1 /\ p >= y
    <3> HIDE DEF Bad, p
    <3>1. p \in T /\ \A y \in T : p >= y
      BY <1>7, Zenon DEF p
    <3>2. \A y \in T : y \in 1 .. m
      OBVIOUS
    <3> QED BY <1>5, <3>1, <3>2
  <2> HIDE DEF p
  <2>2. k \in 0 .. n /\ k < m
    BY <2>1
  <2>3. \A y \in T \ {p} : y \in 1 .. k
    BY <2>1
  <2> QED BY <2>2, <2>3
<1>9. k \notin Bad
  <2>1. ~(m <= k)
    BY <1>5, <1>8
  <2> HIDE DEF Bad, k
  <2> QED BY <1>3, <2>1
<1>10. h[T \ {Max(T)}] = e[T \ {Max(T)}]
  BY <1>8, <1>9
<1>11. h[T] = OneTurn(what, h[T \ {Max(T)}], s[Max(T)]) /\ e[T] = OneTurn(what, e[T \ {Max(T)}], s[Max(T)])
  BY <1>5, <1>6 DEF TurnsOf
<1> QED BY <1>4, <1>10, <1>11

(* One turn more.                                                           *)
Extended(what, h, s, n) ==
  [T \in SUBSET (1 .. n + 1) |->
     IF n + 1 \in T THEN OneTurn(what, h[T \ {n + 1}], s[n + 1]) ELSE h[T]]

LEMMA OneMoreTurn ==
  ASSUME NEW what, NEW n \in Nat, NEW t, NEW s, NEW h, TurnsOf(what, h, t, s, n)
  PROVE  TurnsOf(what, Extended(what, h, s, n), t, s, n + 1)
<1> DEFINE g == Extended(what, h, s, n)
<1> USE DEF Extended
<1>1. ASSUME NEW T \in SUBSET (1 .. n + 1)
      PROVE  g[T] = IF T = {} THEN t ELSE OneTurn(what, g[T \ {Max(T)}], s[Max(T)])
  <2>0. g[T] = IF n + 1 \in T THEN OneTurn(what, h[T \ {n + 1}], s[n + 1]) ELSE h[T]
    OBVIOUS
  <2>1. CASE T = {}
    <3>1. n + 1 \notin T /\ T \in SUBSET (1 .. n)
      BY <2>1
    <3> QED BY <2>0, <2>1, <3>1 DEF TurnsOf
  <2>2. CASE T # {}
    <3>1. n + 1 \in Nat
      OBVIOUS
    <3>2. Max(T) \in T /\ \A y \in T : Max(T) >= y
      BY <2>2, <3>1, MaxIsIn
    <3>3. T \ {Max(T)} \in SUBSET (1 .. n)
      <4> DEFINE p == Max(T)
      <4>1. \A y \in T : y \in 1 .. n + 1 /\ p >= y
        BY <3>2
      <4>2. p \in 1 .. n + 1
        BY <3>2
      <4> HIDE DEF p
      <4>3. \A y \in T \ {p} : y \in 1 .. n
        BY <4>1, <4>2
      <4> QED BY <4>3 DEF p
    <3>4. g[T \ {Max(T)}] = h[T \ {Max(T)}]
      <4>1. n + 1 \notin T \ {Max(T)} /\ T \ {Max(T)} \in SUBSET (1 .. n + 1)
        BY <3>3
      <4> QED BY <4>1
    <3>5. CASE n + 1 \in T
      <4>1. Max(T) = n + 1
        <5> DEFINE p == Max(T)
        <5>1. p \in 1 .. n + 1 /\ p >= n + 1
          BY <3>2, <3>5
        <5> HIDE DEF p
        <5>2. p = n + 1
          BY <5>1
        <5> QED BY <5>2 DEF p
      <4> QED BY <2>0, <2>2, <3>4, <3>5, <4>1
    <3>6. CASE n + 1 \notin T
      <4>1. T \in SUBSET (1 .. n)
        BY <3>6
      <4>2. h[T] = OneTurn(what, h[T \ {Max(T)}], s[Max(T)])
        BY <2>2, <4>1 DEF TurnsOf
      <4> QED BY <2>0, <2>2, <3>4, <3>6, <4>2
    <3> QED BY <3>5, <3>6
  <2> QED BY <2>1, <2>2
<1>2. g = [T \in SUBSET (1 .. n + 1) |-> g[T]]
  OBVIOUS
<1> HIDE DEF g
<1>3. TurnsOf(what, g, t, s, n + 1)
  BY <1>1, <1>2 DEF TurnsOf
<1> QED BY <1>3 DEF g

(* There is such a function for every number of characters.                 *)
LEMMA TurnsExist ==
  ASSUME NEW what, NEW n \in Nat, NEW t, NEW s
  PROVE  \E h : TurnsOf(what, h, t, s, n)
<1> DEFINE Bad == {m \in Nat : ~ \E h : TurnsOf(what, h, t, s, m)}
<1>1. SUFFICES ASSUME Bad # {} PROVE FALSE
  BY <1>1
<1>2. PICK m \in Bad : \A k \in Bad : m <= k
  BY <1>1, LeastOf
<1>3. CASE m = 0
  <2> DEFINE h == [T \in SUBSET {} |-> t]
  <2>1. 1 .. 0 = {} /\ h = [T \in SUBSET {} |-> IF T = {} THEN t ELSE OneTurn(what, h[T \ {Max(T)}], s[Max(T)])]
    OBVIOUS
  <2> HIDE DEF h
  <2>2. TurnsOf(what, h, t, s, 0)
    BY <2>1 DEF TurnsOf
  <2> QED BY <1>2, <1>3, <2>2
<1>4. CASE m # 0
  <2>1. m - 1 \in Nat /\ ~(m <= m - 1) /\ m - 1 + 1 = m
    BY <1>2, <1>4
  <2>2. PICK h : TurnsOf(what, h, t, s, m - 1)
    BY <1>2, <2>1
  <2>3. \E g : TurnsOf(what, g, t, s, m - 1 + 1)
    BY <2>1, <2>2, OneMoreTurn
  <2>4. \E g : TurnsOf(what, g, t, s, m)
    BY <2>1, <2>3
  <2> QED BY <1>2, <2>4
<1> QED BY <1>3, <1>4

(* r is what the turns over s make of t.                                    *)
Outcome(what, t, s, r) ==
  \E n \in Nat : DOMAIN s = 1 .. n /\ \E h : TurnsOf(what, h, t, s, n) /\ r = h[1 .. n]

LEMMA OneOutcome ==
  ASSUME NEW what, NEW t, NEW s, NEW r, NEW q, Outcome(what, t, s, r), Outcome(what, t, s, q)
  PROVE  r = q
<1>1. PICK n \in Nat : DOMAIN s = 1 .. n /\ \E h : TurnsOf(what, h, t, s, n) /\ r = h[1 .. n]
  BY DEF Outcome
<1>2. PICK h : TurnsOf(what, h, t, s, n) /\ r = h[1 .. n]
  BY <1>1
<1>3. PICK m \in Nat : DOMAIN s = 1 .. m /\ \E e : TurnsOf(what, e, t, s, m) /\ q = e[1 .. m]
  BY DEF Outcome
<1>4. PICK e : TurnsOf(what, e, t, s, m) /\ q = e[1 .. m]
  BY <1>3
<1>5. m = n
  BY <1>1, <1>3
<1>6. \A T \in SUBSET (1 .. n) : h[T] = e[T]
  BY <1>2, <1>4, <1>5, TurnsUnique
<1> QED BY <1>2, <1>4, <1>5, <1>6

LEMMA NoTurns == ASSUME NEW what, NEW t PROVE Outcome(what, t, <<>>, t)
<1>1. 1 .. 0 = {} /\ DOMAIN <<>> = 1 .. 0 /\ 0 \in Nat
  OBVIOUS
<1>2. PICK h : TurnsOf(what, h, t, <<>>, 0)
  BY <1>1, TurnsExist
<1>3. h[1 .. 0] = t
  BY <1>1, <1>2 DEF TurnsOf
<1> QED BY <1>1, <1>2, <1>3 DEF Outcome

(* The last one takes the last turn.                                        *)
LEMMA TurnMore ==
  ASSUME NEW what, NEW V, NEW t, NEW s \in Seq(V), NEW c \in V, NEW r, Outcome(what, t, s, r)
  PROVE  Outcome(what, t, Append(s, c), OneTurn(what, r, c))
<1> DEFINE n == Len(s)
           u == Append(s, c)
<1>1. n \in Nat /\ DOMAIN s = 1 .. n /\ DOMAIN u = 1 .. n + 1 /\ u[n + 1] = c
      /\ \A i \in 1 .. n : u[i] = s[i]
  OBVIOUS
<1> HIDE DEF n, u
<1>0. PICK g : TurnsOf(what, g, t, s, n) /\ r = g[1 .. n]
  BY <1>1 DEF Outcome
<1>2. TurnsOf(what, g, t, u, n)
  <2>1. \A T \in SUBSET (1 .. n) : T # {} => u[Max(T)] = s[Max(T)]
    BY <1>1, MaxIsIn
  <2>2. \A T \in SUBSET (1 .. n) :
          (IF T = {} THEN t ELSE OneTurn(what, g[T \ {Max(T)}], u[Max(T)]))
            = (IF T = {} THEN t ELSE OneTurn(what, g[T \ {Max(T)}], s[Max(T)]))
    BY <2>1
  <2>3. [T \in SUBSET (1 .. n) |-> IF T = {} THEN t ELSE OneTurn(what, g[T \ {Max(T)}], u[Max(T)])]
        = [T \in SUBSET (1 .. n) |-> IF T = {} THEN t ELSE OneTurn(what, g[T \ {Max(T)}], s[Max(T)])]
    BY <2>2, Zenon
  <2> QED BY <1>0, <2>3, Zenon DEF TurnsOf
<1> DEFINE h == Extended(what, g, u, n)
<1>3. TurnsOf(what, h, t, u, n + 1)
  <2>1. n \in Nat
    BY <1>1
  <2> QED BY ONLY <1>2, <2>1, OneMoreTurn, Zenon
<1>4. n + 1 \in Nat
  BY <1>1
<1>5. h[1 .. n + 1] = OneTurn(what, g[1 .. n], u[n + 1])
  <2>1. n + 1 \in 1 .. n + 1 /\ (1 .. n + 1) \ {n + 1} = 1 .. n
    BY <1>1
  <2> QED BY <2>1 DEF Extended
<1> HIDE DEF h
<1> QED BY <1>0, <1>1, <1>3, <1>4, <1>5, Zenon DEF Outcome, u

LEMMA ReportMax == ASSUME NEW T PROVE R!Max(T) = Max(T)
BY DEF R!Max, Max

(* Number() takes these turns.                                              *)
SignOf(s) == IF s # <<>> /\ s[1] = R!Minus THEN -1 ELSE 1
Unsigned(s) == IF SignOf(s) = -1 THEN Tail(s) ELSE s

LEMMA NumberTurns ==
  ASSUME NEW V, NEW s, Unsigned(s) \in Seq(V)
  PROVE  \E v : Outcome("digit", 0, Unsigned(s), v) /\ R!Number(s) = SignOf(s) * v
<1> DEFINE u == Unsigned(s)
           Is(h) == h = [T \in SUBSET DOMAIN u |->
                           IF T = {} THEN 0 ELSE 10 * h[T \ {R!Max(T)}] + u[R!Max(T)]]
           iter == CHOOSE h : Is(h)
<1>1. R!Number(s) = SignOf(s) * iter[DOMAIN u]
  BY DEF R!Number, R!FoldLeft, R!MapThenFoldSet, SignOf, Unsigned
<1> DEFINE n == Len(u)
<1>2. n \in Nat /\ DOMAIN u = 1 .. n
  OBVIOUS
<1> HIDE DEF u, n
<1>3. \A h : Is(h) <=> TurnsOf("digit", h, 0, u, n)
  BY <1>2, ReportMax DEF TurnsOf, OneTurn
<1>4. Is(iter)
  <2>1. \E h : Is(h)
    BY <1>2, <1>3, TurnsExist
  <2> QED BY <2>1
<1> HIDE DEF iter
<1>5. TurnsOf("digit", iter, 0, u, n)
  BY <1>3, <1>4
<1>6. Outcome("digit", 0, u, iter[DOMAIN u])
  BY <1>2, <1>5 DEF Outcome
<1> QED BY <1>1, <1>6 DEF u

-----------------------------------------------------------------------------
(* Digits *)

(* The ints no farther from 0 than m.                                       *)
Within(m) == {n \in Ints : -m <= n /\ n <= m}

(* A number is ten times its quotient and the remainder; the quotient is    *)
(* nearer to 0.                                                             *)
LEMMA QuotientIs ==
  ASSUME NEW n \in Ints, n # 0, IntMax \in Nat
  PROVE  /\ R!Quotient(n) \in Ints /\ R!Remainder(n) \in Int
         /\ n = 10 * R!Quotient(n) + R!Remainder(n)
         /\ n > 0 => R!Quotient(n) \in 0 .. n - 1 /\ R!Remainder(n) \in 0 .. 9
         /\ n < 0 => R!Quotient(n) \in n + 1 .. 0 /\ R!Remainder(n) \in -9 .. 0
<1> DEFINE a == IF n < 0 THEN -n ELSE n
<1>1. a \in Nat /\ a > 0 /\ n \in Int
  BY DEF Ints
<1>2. a \div 10 \in Nat /\ a % 10 \in 0 .. 9 /\ a = 10 * (a \div 10) + (a % 10) /\ a \div 10 < a
  <2> HIDE DEF a
  <2> QED BY <1>1
<1>3. CASE n < 0
  <2>1. R!Quotient(n) = -((-n) \div 10) /\ R!Remainder(n) = -((-n) % 10)
    BY <1>3 DEF R!Quotient, R!Remainder
  <2> DEFINE q == (-n) \div 10
             r == (-n) % 10
  <2>2. q \in Nat /\ r \in 0 .. 9 /\ -n = 10 * q + r /\ q < -n
    <3>1. a = -n
      BY <1>3
    <3> HIDE DEF a
    <3> QED BY <1>2, <3>1
  <2> HIDE DEF q, r
  <2>3. R!Quotient(n) = -q /\ R!Remainder(n) = -r
    BY <2>1 DEF q, r
  <2>4. n \in -IntMax - 1 .. 0
    BY <1>3 DEF Ints
  <2> QED BY <1>3, <2>2, <2>3, <2>4 DEF Ints
<1>4. CASE ~(n < 0)
  <2>1. R!Quotient(n) = n \div 10 /\ R!Remainder(n) = n % 10
    BY <1>4 DEF R!Quotient, R!Remainder
  <2> DEFINE q == n \div 10
             r == n % 10
  <2>2. q \in Nat /\ r \in 0 .. 9 /\ n = 10 * q + r /\ q < n
    <3>1. a = n
      BY <1>4
    <3> HIDE DEF a
    <3> QED BY <1>2, <3>1
  <2> HIDE DEF q, r
  <2>3. R!Quotient(n) = q /\ R!Remainder(n) = r
    BY <2>1 DEF q, r
  <2>4. n \in 0 .. IntMax
    BY <1>1, <1>4 DEF Ints
  <2> QED BY <1>4, <2>2, <2>3, <2>4 DEF Ints
<1> QED BY <1>3, <1>4

DigitsOf(f, m) ==
  f = [n \in Within(m) |-> IF n = 0 THEN <<>> ELSE <<R!Remainder(n)>> \o f[R!Quotient(n)]]

LEMMA DigitsExist ==
  ASSUME IntMax \in Nat, NEW m \in Nat
  PROVE  \E f : DigitsOf(f, m)
<1> DEFINE Bad == {k \in Nat : ~ \E f : DigitsOf(f, k)}
<1>1. SUFFICES ASSUME Bad # {} PROVE FALSE
  BY <1>1
<1>2. PICK k \in Bad : \A j \in Bad : k <= j
  BY <1>1, LeastOf
<1>3. CASE k = 0
  <2> DEFINE f == [n \in {0} |-> <<>>]
  <2>1. Within(0) = {0}
    BY DEF Within, Ints
  <2>2. f = [n \in {0} |-> IF n = 0 THEN <<>> ELSE <<R!Remainder(n)>> \o f[R!Quotient(n)]]
    OBVIOUS
  <2> HIDE DEF f
  <2>3. DigitsOf(f, 0)
    BY <2>1, <2>2 DEF DigitsOf
  <2> QED BY <1>2, <1>3, <2>3
<1>4. CASE k # 0
  <2>1. k - 1 \in Nat /\ ~(k <= k - 1) /\ k \in Nat
    BY <1>2, <1>4
  <2>2. PICK f : DigitsOf(f, k - 1)
    BY <1>2, <2>1
  <2> DEFINE Body(h, n) == IF n = 0 THEN <<>> ELSE <<R!Remainder(n)>> \o h[R!Quotient(n)]
             g == [n \in Within(k) |-> Body(f, n)]
  <2>3. ASSUME NEW n \in Within(k), n # 0 PROVE g[R!Quotient(n)] = f[R!Quotient(n)]
    <3> DEFINE q == R!Quotient(n)
    <3>1. n \in Ints /\ -k <= n /\ n <= k
      BY DEF Within
    <3>2. q \in Ints /\ (n > 0 => q \in 0 .. n - 1) /\ (n < 0 => q \in n + 1 .. 0)
      BY <2>3, <3>1, QuotientIs
    <3>3. n \in Int
      BY <3>1 DEF Ints
    <3> HIDE DEF q
    <3>4. q \in Within(k) /\ q \in Within(k - 1)
      BY <2>1, <2>3, <3>1, <3>2, <3>3 DEF Within
    <3>5. g[q] = Body(f, q)
      BY <3>4
    <3>6. f[q] = Body(f, q)
      BY <2>2, <3>4 DEF DigitsOf
    <3> QED BY <3>5, <3>6 DEF q
  <2>4. \A n \in Within(k) : Body(f, n) = Body(g, n)
    <3> HIDE DEF g
    <3> QED BY <2>3
  <2>5. g = [n \in Within(k) |-> Body(g, n)]
    <3> DEFINE h == g
    <3>1. g = [n \in Within(k) |-> Body(f, n)]
      OBVIOUS
    <3> HIDE DEF g
    <3>2. [n \in Within(k) |-> Body(f, n)] = [n \in Within(k) |-> Body(g, n)]
      BY <2>4
    <3> QED BY <3>1, <3>2
  <2> HIDE DEF g
  <2>6. DigitsOf(g, k)
    BY <2>5 DEF DigitsOf
  <2> QED BY <1>2, <2>6
<1> QED BY <1>3, <1>4

LEMMA DigitsAre ==
  ASSUME IntMax \in Nat
  PROVE  \A n \in Ints : R!digits[n] = IF n = 0 THEN <<>> ELSE <<R!Remainder(n)>> \o R!digits[R!Quotient(n)]
<1>1. Within(IntMax + 1) = Ints
  BY DEF Within, Ints
<1> DEFINE Is(f) == f = [n \in -IntMax - 1 .. IntMax |->
                           IF n = 0 THEN <<>> ELSE <<R!Remainder(n)>> \o f[R!Quotient(n)]]
<1>2. \E f : Is(f)
  <2>1. IntMax + 1 \in Nat
    OBVIOUS
  <2>2. PICK f : DigitsOf(f, IntMax + 1)
    BY <2>1, DigitsExist
  <2>3. Is(f)
    BY <1>1, <2>2 DEF DigitsOf, Ints
  <2> QED BY <2>3
<1>3. Is(R!digits)
  BY <1>2 DEF R!digits
<1> QED BY <1>3 DEF Ints

(* d holds the digits of n, the last one first.                             *)
Spells(d, n) ==
  /\ d \in Seq(Int) /\ Outcome("digit", 0, R!Reverse(d), n)
  /\ n >= 0 => \A i \in 1 .. Len(d) : d[i] \in 0 .. 9
  /\ n <= 0 => \A i \in 1 .. Len(d) : d[i] \in -9 .. 0
  /\ IF n = 0 THEN d = <<>> ELSE Len(d) > 0 /\ d[Len(d)] # 0

LEMMA ReverseIs ==
  ASSUME NEW s \in Seq(Int)
  PROVE  /\ R!Reverse(s) \in Seq(Int) /\ Len(R!Reverse(s)) = Len(s)
         /\ \A i \in 1 .. Len(s) : R!Reverse(s)[i] = s[Len(s) - i + 1]
<1> DEFINE n == Len(s)
<1>1. n \in Nat /\ \A i \in 1 .. n : s[i] \in Int
  OBVIOUS
<1>2. R!Reverse(s) = [i \in 1 .. n |-> s[(n - i) + 1]]
  BY DEF R!Reverse
<1> HIDE DEF n
<1>3. \A i \in 1 .. n : (n - i) + 1 \in 1 .. n
  BY <1>1
<1>4. [i \in 1 .. n |-> s[(n - i) + 1]] \in Seq(Int)
  BY <1>1, <1>3
<1> QED BY <1>1, <1>2, <1>4 DEF n

LEMMA ReverseMore ==
  ASSUME NEW d \in Seq(Int), NEW r \in Int
  PROVE  /\ <<r>> \o d \in Seq(Int) /\ Len(<<r>> \o d) = Len(d) + 1
         /\ (<<r>> \o d)[1] = r /\ \A i \in 1 .. Len(d) : (<<r>> \o d)[i + 1] = d[i]
         /\ R!Reverse(<<r>> \o d) = Append(R!Reverse(d), r)
<1> DEFINE u == <<r>>
           e == u \o d
           m == Len(d)
<1>1. u \in Seq(Int) /\ Len(u) = 1 /\ u[1] = r
  OBVIOUS
<1> HIDE DEF u
<1>2. m \in Nat
  OBVIOUS
<1>3. e \in Seq(Int)
  BY <1>1
<1>4. Len(e) = m + 1 /\ e[1] = r /\ \A i \in 1 .. m : e[i + 1] = d[i]
  <2>1. /\ Len(e) = Len(u) + Len(d)
        /\ \A i \in 1 .. Len(u) + Len(d) : e[i] = IF i <= Len(u) THEN u[i] ELSE d[i - Len(u)]
    BY <1>1, ConcatProperties
  <2> HIDE DEF e
  <2>2. /\ Len(e) = 1 + m
        /\ \A i \in 1 .. 1 + m : e[i] = IF i <= 1 THEN u[i] ELSE d[i - 1]
    BY <1>1, <2>1
  <2>3. \A i \in 1 .. m : i + 1 \in 1 .. 1 + m /\ ~(i + 1 <= 1) /\ (i + 1) - 1 = i
    BY <1>2
  <2>4. ASSUME NEW i \in 1 .. m PROVE e[i + 1] = d[i]
    <3>1. e[i + 1] = d[(i + 1) - 1]
      BY <2>2, <2>3
    <3> QED BY <2>3, <3>1
  <2> QED BY <1>1, <1>2, <2>2, <2>4
<1> HIDE DEF e, m
<1>5. /\ R!Reverse(e) \in Seq(Int) /\ Len(R!Reverse(e)) = m + 1
      /\ \A i \in 1 .. m + 1 : R!Reverse(e)[i] = e[m + 1 - i + 1]
  <2>1. /\ R!Reverse(e) \in Seq(Int) /\ Len(R!Reverse(e)) = Len(e)
        /\ \A i \in 1 .. Len(e) : R!Reverse(e)[i] = e[Len(e) - i + 1]
    BY ONLY <1>3, ReverseIs
  <2> QED BY ONLY <1>2, <1>4, <2>1
<1>6. /\ R!Reverse(d) \in Seq(Int) /\ Len(R!Reverse(d)) = m
      /\ \A i \in 1 .. m : R!Reverse(d)[i] = d[m - i + 1]
  BY ReverseIs DEF m
<1>7. R!Reverse(e) = Append(R!Reverse(d), r)
  <2> DEFINE a == R!Reverse(e)
             b == R!Reverse(d)
             c == Append(b, r)
  <2>1. c \in Seq(Int) /\ Len(c) = m + 1 /\ c[m + 1] = r /\ \A i \in 1 .. m : c[i] = b[i]
    BY <1>6
  <2>2. a[m + 1] = r
    BY <1>2, <1>4, <1>5
  <2>3. ASSUME NEW i \in 1 .. m PROVE a[i] = b[i]
    <3>1. m + 1 - i \in 1 .. m /\ m + 1 - i + 1 = (m - i + 1) + 1 /\ m - i + 1 \in 1 .. m /\ i \in 1 .. m + 1
      BY <1>2
    <3>2. a[i] = e[m + 1 - i + 1]
      BY <1>5, <3>1
    <3>3. e[(m - i + 1) + 1] = d[m - i + 1]
      BY ONLY <1>4, <3>1, Zenon
    <3> QED BY <1>6, <3>1, <3>2, <3>3
  <2>4. a \in Seq(Int) /\ Len(a) = m + 1
    BY <1>5
  <2> HIDE DEF a, b, c
  <2>5. \A i \in 1 .. m + 1 : a[i] = c[i]
    <3>1. \A i \in 1 .. m + 1 : i = m + 1 \/ i \in 1 .. m
      BY <1>2
    <3> QED BY <2>1, <2>2, <2>3, <3>1
  <2>6. a = c
    BY <2>1, <2>4, <2>5
  <2> QED BY <2>6 DEF a, b, c
<1> QED BY <1>3, <1>4, <1>7 DEF e, u, m

LEMMA SpellsMore ==
  ASSUME IntMax \in Nat, NEW n \in Ints, n # 0, NEW e, Spells(e, R!Quotient(n))
  PROVE  Spells(<<R!Remainder(n)>> \o e, n)
<1> DEFINE q == R!Quotient(n)
           r == R!Remainder(n)
           d == <<r>> \o e
<1>1. /\ n \in Int /\ q \in Int /\ r \in Int /\ n = 10 * q + r
      /\ n > 0 => q >= 0 /\ r \in 0 .. 9
      /\ n < 0 => q <= 0 /\ r \in -9 .. 0
  BY QuotientIs DEF Ints
<1>2. /\ e \in Seq(Int) /\ Outcome("digit", 0, R!Reverse(e), q)
      /\ q >= 0 => \A i \in 1 .. Len(e) : e[i] \in 0 .. 9
      /\ q <= 0 => \A i \in 1 .. Len(e) : e[i] \in -9 .. 0
      /\ IF q = 0 THEN e = <<>> ELSE Len(e) > 0 /\ e[Len(e)] # 0
  BY DEF Spells
<1> HIDE DEF q, r
<1>3. /\ d \in Seq(Int) /\ Len(d) = Len(e) + 1 /\ d[1] = r
      /\ \A i \in 1 .. Len(e) : d[i + 1] = e[i]
      /\ R!Reverse(d) = Append(R!Reverse(e), r)
  BY <1>1, <1>2, ReverseMore
<1> HIDE DEF d
<1>4. R!Reverse(e) \in Seq(Int) /\ Len(e) \in Nat
  BY <1>2, ReverseIs
<1>5. Outcome("digit", 0, R!Reverse(d), OneTurn("digit", q, r))
  BY <1>1, <1>2, <1>3, <1>4, TurnMore
<1>6. OneTurn("digit", q, r) = n
  BY <1>1 DEF OneTurn
<1>7. \A i \in 1 .. Len(d) : i = 1 \/ (i - 1 \in 1 .. Len(e) /\ d[i] = e[i - 1])
  <2>1. \A i \in 1 .. Len(d) : i = 1 \/ (i - 1 \in 1 .. Len(e) /\ (i - 1) + 1 = i)
    BY <1>3, <1>4
  <2> QED BY <1>3, <2>1
<1>8. Len(d) > 0 /\ d[Len(d)] # 0
  <2>1. CASE q = 0
    <3>1. e = <<>> /\ Len(e) = 0
      BY <1>2, <2>1
    <3> QED BY <1>1, <1>3, <2>1, <3>1
  <2>2. CASE q # 0
    <3>1. Len(e) \in 1 .. Len(e) /\ e[Len(e)] # 0
      BY <1>2, <1>4, <2>2
    <3> QED BY <1>3, <1>4, <3>1, SMTT(30)
  <2> QED BY <2>1, <2>2
<1>9. n >= 0 => \A i \in 1 .. Len(d) : d[i] \in 0 .. 9
  <2>1. n >= 0 => n > 0
    BY <1>1
  <2> QED BY <1>1, <1>2, <1>3, <1>7, <2>1
<1>10. n <= 0 => \A i \in 1 .. Len(d) : d[i] \in -9 .. 0
  <2>1. n <= 0 => n < 0
    BY <1>1
  <2> QED BY <1>1, <1>2, <1>3, <1>7, <2>1
<1>11. Spells(d, n)
  BY <1>3, <1>5, <1>6, <1>8, <1>9, <1>10 DEF Spells
<1> QED BY <1>11 DEF d, r

LEMMA DigitsSpell ==
  ASSUME IntMax \in Nat
  PROVE  \A n \in Ints : Spells(R!digits[n], n)
<1> DEFINE Bad == {m \in Nat : \E n \in Within(m) : ~Spells(R!digits[n], n)}
<1>1. SUFFICES ASSUME Bad # {} PROVE FALSE
  <2>1. IntMax + 1 \in Nat /\ Within(IntMax + 1) = Ints
    BY DEF Within, Ints
  <2> QED BY <1>1, <2>1
<1>2. PICK m \in Bad : \A k \in Bad : m <= k
  BY <1>1, LeastOf
<1>3. PICK n \in Within(m) : ~Spells(R!digits[n], n)
  BY <1>2
<1>4. n \in Ints /\ -m <= n /\ n <= m /\ m \in Nat /\ n \in Int
  BY <1>2 DEF Within, Ints
<1>5. n # 0
  <2>1. SUFFICES ASSUME n = 0 PROVE FALSE
    OBVIOUS
  <2>2. R!digits[n] = <<>>
    BY <1>4, <2>1, DigitsAre
  <2>3. <<>> \in Seq(Int) /\ Len(<<>>) = 0 /\ 1 .. 0 = {}
    OBVIOUS
  <2>4. R!Reverse(<<>>) = <<>>
    BY DEF R!Reverse
  <2>5. Outcome("digit", 0, R!Reverse(<<>>), n)
    BY <2>1, <2>4, NoTurns
  <2>6. Spells(<<>>, n)
    BY <2>1, <2>3, <2>5 DEF Spells
  <2> QED BY <1>3, <2>2, <2>6
<1> DEFINE q == R!Quotient(n)
<1>6. q \in Ints /\ (n > 0 => q \in 0 .. n - 1) /\ (n < 0 => q \in n + 1 .. 0)
  BY <1>4, <1>5, QuotientIs
<1> HIDE DEF q
<1>7. m - 1 \in Nat /\ q \in Within(m - 1) /\ ~(m <= m - 1)
  BY <1>4, <1>5, <1>6 DEF Within
<1>8. Spells(R!digits[q], q)
  <2>1. m - 1 \notin Bad
    <3> HIDE DEF Bad
    <3> QED BY <1>2, <1>7
  <2> QED BY <1>7, <2>1
<1>9. R!digits[n] = <<R!Remainder(n)>> \o R!digits[q]
  BY <1>4, <1>5, DigitsAre DEF q
<1>10. Spells(<<R!Remainder(n)>> \o R!digits[q], n)
  BY <1>4, <1>5, <1>8, SpellsMore DEF q
<1> QED BY <1>3, <1>9, <1>10

(* The number that is turned into digits, for one below zero.               *)
LEMMA WrapIs ==
  ASSUME IntMax \in Nat, NEW n \in Ints, n < 0
  PROVE  R!Wrap(-n) = IF n = -IntMax - 1 THEN n ELSE -n
<1> DEFINE m == 2 * (IntMax + 1)
           a == (-n) + IntMax + 1
<1>1. n \in Int /\ -IntMax - 1 <= n
  BY DEF Ints
<1>2. m \in Nat /\ m > 0 /\ a \in Nat /\ a <= m /\ (a = m <=> n = -IntMax - 1)
  BY <1>1
<1>3. R!Wrap(-n) = (a % m) - IntMax - 1
  BY DEF R!Wrap
<1> HIDE DEF m, a
<1>4. a < m => a % m = a
  BY <1>2
<1>5. m % m = 0
  BY <1>2
<1>6. CASE n = -IntMax - 1
  BY <1>1, <1>2, <1>3, <1>5, <1>6
<1>7. CASE n # -IntMax - 1
  <2>1. a % m = a
    BY <1>2, <1>4, <1>7
  <2> QED BY <1>1, <1>3, <1>7, <2>1 DEF a
<1> QED BY <1>6, <1>7

(* The characters of a number stand for it; those of the smallest int are   *)
(* no number.                                                               *)
Says(chars, n) ==
  IF n = -IntMax - 1 THEN ~R!IsNumber(chars) /\ R!Number(chars) = -n
  ELSE R!IsNumber(chars) /\ R!Number(chars) = n

LEMMA PositiveSays ==
  ASSUME IntMax \in Nat, NEW n \in Ints, n >= 0
  PROVE  Says(R!int_to_str(n), n)
<1> DEFINE d == R!digits[n]
           s == R!Reverse(d)
<1>1. /\ d \in Seq(Int) /\ Outcome("digit", 0, s, n)
      /\ \A i \in 1 .. Len(d) : d[i] \in 0 .. 9
  BY DigitsSpell DEF Spells
<1> HIDE DEF d
<1>2. s \in Seq(Int) /\ Len(s) = Len(d) /\ \A i \in 1 .. Len(d) : s[i] = d[Len(d) - i + 1]
  BY <1>1, ReverseIs
<1>3. R!int_to_str(n) = s
  <2>1. ~(n < 0)
    BY DEF Ints
  <2> QED BY <2>1 DEF R!int_to_str, d
<1> HIDE DEF s
<1>4. DOMAIN s = 1 .. Len(d) /\ Len(d) \in Nat
  BY <1>1, <1>2
<1>5. \A i \in DOMAIN s : s[i] \in 0 .. 9
  <2>1. \A i \in 1 .. Len(d) : Len(d) - i + 1 \in 1 .. Len(d)
    BY <1>4
  <2> QED BY <1>1, <1>2, <1>4, <2>1
<1>6. R!Minus = -3
  BY DEF R!Minus
<1>7. ~(s # <<>> /\ s[1] = R!Minus)
  <2>1. s # <<>> => 1 \in DOMAIN s
    BY <1>2
  <2> QED BY <1>5, <1>6, <2>1
<1>8. R!IsNumber(s)
  <2>1. s # <<R!Minus>>
    <3>1. s = <<R!Minus>> => s # <<>> /\ s[1] = R!Minus
      BY <1>6
    <3> QED BY <1>7, <3>1
  <2> QED BY <1>5, <2>1 DEF R!IsNumber
<1>9. PICK v : Outcome("digit", 0, s, v) /\ R!Number(s) = 1 * v
  <2>1. SignOf(s) = 1 /\ Unsigned(s) = s
    BY <1>7 DEF SignOf, Unsigned
  <2> QED BY <1>2, <2>1, NumberTurns
<1>10. v = n
  BY <1>1, <1>9, OneOutcome
<1>11. n \in Int /\ n # -IntMax - 1
  BY DEF Ints
<1> QED BY <1>3, <1>8, <1>9, <1>10, <1>11 DEF Says

LEMMA NegativeSays ==
  ASSUME IntMax \in Nat, NEW n \in Ints, n < 0
  PROVE  Says(R!int_to_str(n), n)
<1> DEFINE w == R!Wrap(-n)
           d == R!digits[w]
           b == R!Reverse(d)
           u == Append(d, R!Minus)
           s == R!Reverse(u)
<1>1. n \in Int /\ w \in Ints /\ w # 0 /\ w = IF n = -IntMax - 1 THEN n ELSE -n
  <2> HIDE DEF w
  <2>1. w = IF n = -IntMax - 1 THEN n ELSE -n
    BY WrapIs DEF w
  <2> QED BY <2>1 DEF Ints
<1>2. R!int_to_str(n) = s
  BY DEF R!int_to_str
<1> HIDE DEF w
<1>3. /\ d \in Seq(Int) /\ Outcome("digit", 0, b, w)
      /\ w >= 0 => \A i \in 1 .. Len(d) : d[i] \in 0 .. 9
      /\ w <= 0 => \A i \in 1 .. Len(d) : d[i] \in -9 .. 0
      /\ Len(d) > 0 /\ d[Len(d)] # 0
  BY <1>1, DigitsSpell DEF Spells
<1> HIDE DEF d
<1>4. b \in Seq(Int) /\ Len(b) = Len(d) /\ \A i \in 1 .. Len(d) : b[i] = d[Len(d) - i + 1]
  BY <1>3, ReverseIs
<1> DEFINE m == Len(d)
<1>5. R!Minus = -3 /\ R!Minus \in Int /\ m \in Nat /\ m > 0
  BY <1>3 DEF R!Minus
<1>6. /\ u \in Seq(Int) /\ Len(u) = m + 1 /\ u[m + 1] = R!Minus
      /\ \A i \in 1 .. m : u[i] = d[i]
  BY <1>3, <1>5
<1> HIDE DEF u, b, m
<1>7. s \in Seq(Int) /\ Len(s) = m + 1 /\ \A i \in 1 .. m + 1 : s[i] = u[m + 1 - i + 1]
  <2>1. s \in Seq(Int) /\ Len(s) = Len(u) /\ \A i \in 1 .. Len(u) : s[i] = u[Len(u) - i + 1]
    BY ONLY <1>6, ReverseIs
  <2> QED BY ONLY <1>5, <1>6, <2>1
<1> HIDE DEF s
<1>8. s # <<>> /\ s[1] = R!Minus
  <2>1. 1 \in 1 .. m + 1 /\ m + 1 - 1 + 1 = m + 1
    BY <1>5
  <2>2. s[1] = u[m + 1]
    BY <1>7, <2>1
  <2>3. Len(s) # 0
    BY <1>5, <1>7
  <2> QED BY <1>6, <2>2, <2>3
<1>9. \A i \in 2 .. m + 1 : s[i] = d[m + 1 - i + 1] /\ m + 1 - i + 1 \in 1 .. m
  BY <1>5, <1>6, <1>7
<1>10. Tail(s) = b
  <2>1. Tail(s) \in Seq(Int) /\ Len(Tail(s)) = m /\ \A i \in 1 .. m : Tail(s)[i] = s[i + 1]
    BY <1>5, <1>7, <1>8
  <2>2. ASSUME NEW i \in 1 .. m PROVE Tail(s)[i] = b[i]
    <3>1. i + 1 \in 2 .. m + 1 /\ m + 1 - (i + 1) + 1 = m - i + 1
      BY <1>5
    <3>2. s[i + 1] = d[m + 1 - (i + 1) + 1]
      BY <1>9, <3>1
    <3>3. b[i] = d[m - i + 1]
      BY <1>4 DEF m
    <3> QED BY <2>1, <3>1, <3>2, <3>3
  <2>3. Len(b) = m
    BY <1>4 DEF m
  <2> QED BY <1>4, <2>1, <2>2, <2>3, SMTT(30)
<1>11. PICK v : Outcome("digit", 0, b, v) /\ R!Number(s) = (-1) * v
  <2>1. SignOf(s) = -1 /\ Unsigned(s) = b
    BY <1>8, <1>10 DEF SignOf, Unsigned
  <2> QED BY <1>4, <2>1, NumberTurns
<1>12. v = w
  BY <1>3, <1>11, OneOutcome
<1>13. R!Number(s) = -w
  BY <1>1, <1>11, <1>12 DEF Ints
<1>14. DOMAIN s = 1 .. m + 1
  BY <1>7
<1>15. CASE n = -IntMax - 1
  <2>1. s[2] = d[m] /\ 2 \in 1 .. m + 1
    <3>1. 2 \in 2 .. m + 1 /\ m + 1 - 2 + 1 = m /\ 2 \in 1 .. m + 1
      BY <1>5
    <3> QED BY <1>9, <3>1
  <2>2. s[2] \notin 0 .. 9
    <3>1. m \in 1 .. m
      BY <1>5
    <3>2. d[m] \in -9 .. 0 /\ d[m] # 0
      BY <1>1, <1>3, <1>15, <3>1 DEF m
    <3> QED BY <2>1, <3>2
  <2>3. ~R!IsNumber(s)
    BY <1>8, <1>14, <2>1, <2>2 DEF R!IsNumber
  <2> QED BY <1>1, <1>2, <1>13, <1>15, <2>3 DEF Says
<1>16. CASE n # -IntMax - 1
  <2>1. \A i \in 1 .. m + 1 : s[i] \in 0 .. 9 \/ (i = 1 /\ s[i] = R!Minus)
    <3>1. \A i \in 1 .. m + 1 : i = 1 \/ i \in 2 .. m + 1
      BY <1>5
    <3>2. \A i \in 1 .. m : d[i] \in 0 .. 9
      BY <1>1, <1>3, <1>16 DEF m
    <3> QED BY <1>8, <1>9, <3>1, <3>2
  <2>2. s # <<R!Minus>>
    <3>1. Len(<<R!Minus>>) = 1
      OBVIOUS
    <3> QED BY <1>5, <1>7, <3>1
  <2>3. R!IsNumber(s)
    BY <1>14, <2>1, <2>2 DEF R!IsNumber
  <2>4. -w = n
    BY <1>1, <1>16
  <2> QED BY <1>2, <1>13, <1>16, <2>3, <2>4 DEF Says
<1> QED BY <1>15, <1>16

LEMMA IntsAreSaid ==
  ASSUME IntMax \in Nat, NEW n \in Ints
  PROVE  Says(R!int_to_str(n), n)
<1>1. n >= 0 \/ n < 0
  BY DEF Ints
<1> QED BY <1>1, PositiveSays, NegativeSays


-----------------------------------------------------------------------------
(* The largest and the smallest *)

Started(t) == [max |-> t, min |-> t]

(* r holds the largest and the smallest of t and the ints of s.             *)
Extremes(r, t, s) ==
  /\ r \in [max : Int, min : Int]
  /\ r.min <= t /\ t <= r.max
  /\ \A i \in 1 .. Len(s) : r.min <= s[i] /\ s[i] <= r.max
  /\ r.max = t \/ \E i \in 1 .. Len(s) : r.max = s[i]
  /\ r.min = t \/ \E i \in 1 .. Len(s) : r.min = s[i]

LEMMA LookMore ==
  ASSUME NEW t \in Int, NEW s \in Seq(Int), NEW c \in Int, NEW r, Extremes(r, t, s)
  PROVE  Extremes(OneTurn("look", r, c), t, Append(s, c))
<1> DEFINE u == Append(s, c)
           m == Len(s)
           q == OneTurn("look", r, c)
<1>1. m \in Nat /\ Len(u) = m + 1 /\ u[m + 1] = c /\ \A i \in 1 .. m : u[i] = s[i] /\ s[i] \in Int
  OBVIOUS
<1>2. /\ r \in [max : Int, min : Int]
      /\ r.min <= t /\ t <= r.max
      /\ \A i \in 1 .. m : r.min <= s[i] /\ s[i] <= r.max
      /\ r.max = t \/ \E i \in 1 .. m : r.max = s[i]
      /\ r.min = t \/ \E i \in 1 .. m : r.min = s[i]
  BY DEF Extremes
<1>3. /\ q \in [max : Int, min : Int]
      /\ q.max = IF c > r.max THEN c ELSE r.max
      /\ q.min = IF c < r.min THEN c ELSE r.min
  <2>1. r.max \in Int /\ r.min \in Int /\ r.min <= r.max
    BY <1>2
  <2> QED BY <1>2, <2>1 DEF OneTurn
<1> HIDE DEF u, m, q
<1>4. q.min <= t /\ t <= q.max
  BY <1>2, <1>3
<1>5. ASSUME NEW i \in 1 .. m + 1 PROVE q.min <= u[i] /\ u[i] <= q.max
  <2>1. CASE i = m + 1
    BY <1>1, <1>2, <1>3, <2>1
  <2>2. CASE i # m + 1
    <3>1. i \in 1 .. m
      BY <1>1, <2>2
    <3>2. u[i] = s[i] /\ s[i] \in Int /\ r.min <= s[i] /\ s[i] <= r.max
      BY <1>1, <1>2, <3>1
    <3> QED BY <1>2, <1>3, <3>2
  <2> QED BY <2>1, <2>2
<1>6. m + 1 \in 1 .. m + 1 /\ \A i \in 1 .. m : i \in 1 .. m + 1
  BY <1>1
<1>7. q.max = t \/ \E i \in 1 .. m + 1 : q.max = u[i]
  BY <1>1, <1>2, <1>3, <1>6
<1>8. q.min = t \/ \E i \in 1 .. m + 1 : q.min = u[i]
  BY <1>1, <1>2, <1>3, <1>6
<1>9. Extremes(q, t, u)
  BY <1>1, <1>3, <1>4, <1>5, <1>7, <1>8 DEF Extremes
<1> QED BY <1>9 DEF q, u

LEMMA ExtremesFound ==
  ASSUME NEW t \in Int, NEW s \in Seq(Int)
  PROVE  \E r : Outcome("look", Started(t), s, r) /\ Extremes(r, t, s)
<1> DEFINE Found(u) == \E r : Outcome("look", Started(t), u, r) /\ Extremes(r, t, u)
           Bad == {k \in Nat : \E u \in Seq(Int) : Len(u) = k /\ ~Found(u)}
<1>1. SUFFICES ASSUME Bad # {} PROVE FALSE
  <2>1. Len(s) \in Nat
    OBVIOUS
  <2> QED BY <1>1, <2>1
<1>2. PICK m \in Bad : \A k \in Bad : m <= k
  BY <1>1, LeastOf
<1>3. PICK u \in Seq(Int) : Len(u) = m /\ ~Found(u)
  BY <1>2
<1>4. CASE m = 0
  <2>1. u = <<>>
    BY <1>3, <1>4
  <2>2. Outcome("look", Started(t), <<>>, Started(t))
    BY NoTurns
  <2>3. Extremes(Started(t), t, <<>>)
    BY DEF Extremes, Started
  <2> QED BY <1>3, <2>1, <2>2, <2>3
<1>5. CASE m # 0
  <2> DEFINE p == SubSeq(u, 1, m - 1)
  <2>1. m \in Nat /\ m - 1 \in Nat /\ ~(m <= m - 1) /\ m \in 1 .. m
    BY <1>2, <1>5
  <2>2. p \in Seq(Int) /\ Len(p) = m - 1 /\ u[m] \in Int
    BY <1>3, <2>1
  <2>3. u = Append(p, u[m])
    <3>1. \A i \in 1 .. m - 1 : p[i] = u[i]
      BY <1>3, <2>1
    <3> HIDE DEF p
    <3>2. Append(p, u[m]) \in Seq(Int) /\ Len(Append(p, u[m])) = m
          /\ \A i \in 1 .. m : Append(p, u[m])[i] = u[i]
      BY <2>1, <2>2, <3>1
    <3> QED BY <1>3, <3>2
  <2> HIDE DEF p, Found
  <2>4. Found(p)
    BY <1>2, <2>1, <2>2
  <2>5. PICK r : Outcome("look", Started(t), p, r) /\ Extremes(r, t, p)
    BY <2>4 DEF Found
  <2>6. Outcome("look", Started(t), Append(p, u[m]), OneTurn("look", r, u[m]))
    BY <2>2, <2>5, TurnMore
  <2>7. Extremes(OneTurn("look", r, u[m]), t, Append(p, u[m]))
    BY <2>2, <2>5, LookMore
  <2>8. Found(u)
    BY <2>3, <2>6, <2>7 DEF Found
  <2> QED BY <1>3, <2>8
<1> QED BY <1>4, <1>5

-----------------------------------------------------------------------------
(* One file *)

(* What is read of a file, and the ints of it.                              *)
ReadOf(ints) == SubSeq(ints, 1, IF Len(ints) < BufferInts THEN Len(ints) ELSE BufferInts)
IntsOf(ints) == {ints[k] : k \in {j \in DOMAIN ints : j <= BufferInts}}

LEMMA ReadIs ==
  ASSUME ReportSizes, NEW ints \in Contents
  PROVE  /\ ReadOf(ints) \in Seq(Ints) /\ ReadOf(ints) \in Seq(Int)
         /\ Len(ReadOf(ints)) = IF Len(ints) < BufferInts THEN Len(ints) ELSE BufferInts
         /\ Len(ReadOf(ints)) \in Ints
         /\ \A i \in 1 .. Len(ReadOf(ints)) : ReadOf(ints)[i] = ints[i]
         /\ \A n : n \in IntsOf(ints) <=> \E i \in 1 .. Len(ReadOf(ints)) : n = ReadOf(ints)[i]
<1> DEFINE e == IF Len(ints) < BufferInts THEN Len(ints) ELSE BufferInts
           s == ReadOf(ints)
<1>1. ints \in Seq(Ints) /\ Len(ints) \in Nat /\ BufferInts \in Nat
  BY DEF ReportSizes
<1>2. e \in Nat /\ e <= Len(ints) /\ e <= BufferInts /\ e \in Ints
  BY <1>1 DEF ReportSizes, Ints
<1>3. s \in Seq(Ints) /\ Len(s) = e /\ \A i \in 1 .. e : s[i] = ints[i]
  <2>1. s = SubSeq(ints, 1, e)
    BY DEF ReadOf
  <2> HIDE DEF s, e
  <2>2. \A i \in 1 .. e : i \in 1 .. Len(ints)
    BY <1>1, <1>2
  <2> QED BY <1>1, <1>2, <2>1, <2>2
<1>4. s \in Seq(Int)
  <2>1. \A n \in Ints : n \in Int
    BY DEF Ints, ReportSizes
  <2> QED BY <1>3, <2>1
<1>5. \A j : j \in DOMAIN ints /\ j <= BufferInts <=> j \in 1 .. e
  BY <1>1
<1> HIDE DEF s, e
<1>6. \A n : n \in IntsOf(ints) <=> \E i \in 1 .. e : n = ints[i]
  BY <1>5 DEF IntsOf
<1> QED BY <1>2, <1>3, <1>4, <1>6 DEF s, e

(* What the record of a file says of it.                                    *)
TrueRecord(rec, ints) ==
  /\ Says(rec[1], IF Len(ints) < BufferInts THEN Len(ints) ELSE BufferInts)
  /\ IntsOf(ints) # {} => /\ \E n \in IntsOf(ints) : Says(rec[2], n) /\ \A k \in IntsOf(ints) : k <= n
                          /\ \E n \in IntsOf(ints) : Says(rec[3], n) /\ \A k \in IntsOf(ints) : k >= n

(* The record is of the length and of the outcome of looking at every int.  *)
LEMMA RecordIs ==
  ASSUME NEW ints, NEW first, ReadOf(ints) \in Seq(Int)
  PROVE  LET s == ReadOf(ints)
             t == IF s = <<>> THEN first ELSE s[1]
         IN  \E r : Outcome("look", Started(t), s, r)
                    /\ R!analyze_bin(ints, first) = R!Record(Len(s), r.max, r.min)
<1> DEFINE s == ReadOf(ints)
           t == IF s = <<>> THEN first ELSE s[1]
           Is(h) == h = [T \in SUBSET DOMAIN s |->
                           IF T = {} THEN [max |-> t, min |-> t]
                           ELSE IF s[R!Max(T)] > h[T \ {R!Max(T)}].max
                                THEN [h[T \ {R!Max(T)}] EXCEPT !.max = s[R!Max(T)]]
                           ELSE IF s[R!Max(T)] < h[T \ {R!Max(T)}].min
                                THEN [h[T \ {R!Max(T)}] EXCEPT !.min = s[R!Max(T)]]
                           ELSE h[T \ {R!Max(T)}]]
           iter == CHOOSE h : Is(h)
           n == Len(s)
<1>1. R!analyze_bin(ints, first) = R!Record(n, iter[DOMAIN s].max, iter[DOMAIN s].min)
  BY DEF R!analyze_bin, R!FoldLeft, R!MapThenFoldSet, ReadOf
<1>2. n \in Nat /\ DOMAIN s = 1 .. n
  OBVIOUS
<1> HIDE DEF s, n, t
<1>3. ASSUME NEW h PROVE Is(h) <=> TurnsOf("look", h, Started(t), s, n)
  <2> DEFINE Step(T, x) == IF s[x] > h[T \ {x}].max THEN [h[T \ {x}] EXCEPT !.max = s[x]]
                           ELSE IF s[x] < h[T \ {x}].min THEN [h[T \ {x}] EXCEPT !.min = s[x]]
                           ELSE h[T \ {x}]
  <2>1. Is(h) <=> h = [T \in SUBSET DOMAIN s |-> IF T = {} THEN Started(t) ELSE Step(T, R!Max(T))]
    BY Zenon DEF Started
  <2>2. TurnsOf("look", h, Started(t), s, n)
          <=> h = [T \in SUBSET DOMAIN s |-> IF T = {} THEN Started(t) ELSE Step(T, Max(T))]
    <3>1. "look" # "digit"
      OBVIOUS
    <3>2. \A T : OneTurn("look", h[T \ {Max(T)}], s[Max(T)]) = Step(T, Max(T))
      BY <3>1 DEF OneTurn
    <3> HIDE DEF Step
    <3> QED BY <1>2, <3>2 DEF TurnsOf
  <2>3. \A T : Step(T, R!Max(T)) = Step(T, Max(T))
    <3> HIDE DEF Step
    <3> QED BY ReportMax
  <2> HIDE DEF Step, Is
  <2> QED BY <2>1, <2>2, <2>3
<1>4. Is(iter)
  <2>1. \E h : Is(h)
    BY <1>2, <1>3, TurnsExist
  <2> QED BY <2>1
<1> HIDE DEF iter, Is
<1>5. TurnsOf("look", iter, Started(t), s, n)
  BY <1>3, <1>4
<1>6. Outcome("look", Started(t), s, iter[DOMAIN s])
  BY <1>2, <1>5 DEF Outcome
<1> QED BY <1>1, <1>6 DEF s, n, t

LEMMA RecordIsTrue ==
  ASSUME ReportSizes, NEW ints \in Contents, NEW first \in Garbage
  PROVE  TrueRecord(R!analyze_bin(ints, first), ints)
<1> DEFINE s == ReadOf(ints)
           t == IF s = <<>> THEN first ELSE s[1]
           n == Len(s)
           rec == R!analyze_bin(ints, first)
<1>1. /\ s \in Seq(Int) /\ n \in Ints /\ n = IF Len(ints) < BufferInts THEN Len(ints) ELSE BufferInts
      /\ \A k : k \in IntsOf(ints) <=> \E i \in 1 .. n : k = s[i]
  BY ReadIs
<1>2. \A k \in IntsOf(ints) : k \in Ints
  <2>1. \A i \in 1 .. n : s[i] \in Ints
    BY ReadIs
  <2> QED BY <1>1, <2>1
<1>3. IntMax \in Nat /\ \A k \in Ints : k \in Int
  BY DEF ReportSizes, Ints
<1>4. n \in Nat /\ (s # <<>> => n > 0 /\ t = s[1] /\ s[1] \in Int)
  BY <1>1
<1>5. PICK r : Outcome("look", Started(t), s, r) /\ rec = R!Record(n, r.max, r.min)
  BY <1>1, RecordIs
<1> HIDE DEF s, t, n, rec
<1>6. /\ rec[1] = R!int_to_str(n) /\ rec[2] = R!int_to_str(r.max) /\ rec[3] = R!int_to_str(r.min)
  BY <1>5 DEF R!Record
<1>7. Says(rec[1], n)
  BY <1>1, <1>3, <1>6, IntsAreSaid
<1>8. ASSUME IntsOf(ints) # {}
      PROVE  /\ \E k \in IntsOf(ints) : Says(rec[2], k) /\ \A j \in IntsOf(ints) : j <= k
             /\ \E k \in IntsOf(ints) : Says(rec[3], k) /\ \A j \in IntsOf(ints) : j >= k
  <2>1. n > 0 /\ s # <<>>
    <3>1. \E i \in 1 .. n : TRUE
      BY <1>1, <1>8
    <3>2. n > 0
      BY <1>4, <3>1
    <3> QED BY <3>2 DEF n
  <2>2. t = s[1] /\ t \in Int
    BY <1>4, <2>1
  <2>3. PICK q : Outcome("look", Started(t), s, q) /\ Extremes(q, t, s)
    BY <1>1, <2>2, ExtremesFound
  <2>4. q = r
    BY ONLY <1>5, <2>3, OneOutcome
  <2>5. /\ r \in [max : Int, min : Int]
        /\ \A i \in 1 .. n : r.min <= s[i] /\ s[i] <= r.max
        /\ r.max = t \/ \E i \in 1 .. n : r.max = s[i]
        /\ r.min = t \/ \E i \in 1 .. n : r.min = s[i]
    BY <2>3, <2>4 DEF Extremes, n
  <2>6. 1 \in 1 .. n
    BY <1>4, <2>1
  <2>7. r.max \in IntsOf(ints) /\ r.min \in IntsOf(ints)
    BY <1>1, <2>2, <2>5, <2>6
  <2>8. \A j \in IntsOf(ints) : j <= r.max /\ j >= r.min
    <3>1. \A j \in IntsOf(ints) : j \in Int /\ r.min <= j /\ j <= r.max
      BY <1>1, <1>2, <1>3, <2>5
    <3> QED BY <2>5, <3>1
  <2>9. Says(rec[2], r.max) /\ Says(rec[3], r.min)
    BY <1>2, <1>3, <1>6, <2>7, IntsAreSaid
  <2> QED BY <2>7, <2>8, <2>9
<1> QED BY <1>1, <1>7, <1>8 DEF TrueRecord, rec

-----------------------------------------------------------------------------
(* The whole report *)

Records == {R!analyze_bin(ints, first) : ints \in Contents, first \in Garbage} \cup {R!Torn}

RecordsTrue ==
  \A i \in 1 .. Len(report) : report[i] = R!Torn \/ TrueRecord(report[i], given[i])

(* The invariant: a record for every file opened, unless reading one        *)
(* failed, and every record tells of its own file.                          *)
RInv ==
  /\ \E n \in Nat : given \in [1 .. n -> Contents]
  /\ opened \in Nat /\ opened <= Len(given) /\ opened <= MaxOpen
  /\ report \in Seq(Records) /\ Len(report) <= opened
  /\ exit \in {-1, 0} => Len(report) = opened
  /\ exit = 0 => opened = Len(given)
  /\ RecordsTrue

LEMMA ReportInit == ASSUME ReportSizes PROVE R!Init => RInv
<1> SUFFICES ASSUME R!Init PROVE RInv
  OBVIOUS
<1>1. PICK n \in 1 .. Files : given \in [1 .. n -> Contents]
  BY DEF R!Init
<1>2. n \in Nat /\ Len(given) = n
  BY <1>1 DEF ReportSizes
<1>3. opened = 0 /\ report = <<>> /\ exit = -1
  BY DEF R!Init
<1> QED BY <1>1, <1>2, <1>3 DEF RInv, RecordsTrue, ReportSizes

LEMMA OneFileKeeps == ASSUME ReportSizes, RInv, R!OneFile PROVE RInv'
<1>1. PICK n \in Nat : given \in [1 .. n -> Contents]
  BY DEF RInv
<1>2. PICK first \in Garbage : \E record \in {R!analyze_bin(given[opened + 1], first), R!Torn} :
        report' = Append(report, record)
  BY DEF R!OneFile
<1>2a. PICK rec \in {R!analyze_bin(given[opened + 1], first), R!Torn} :
        report' = Append(report, rec)
  BY <1>2
<1> DEFINE m == Len(report)
<1>3. /\ exit = -1 /\ opened \in Nat /\ opened < Len(given) /\ opened < MaxOpen /\ Len(given) = n
      /\ opened' = opened + 1 /\ given' = given /\ exit' = exit
      /\ report \in Seq(Records) /\ m = opened
  BY <1>1 DEF RInv, R!OneFile
<1>4. given[opened + 1] \in Contents
  BY <1>1, <1>3
<1>5. rec \in Records
  BY <1>2a, <1>4 DEF Records
<1>6. rec = R!Torn \/ TrueRecord(rec, given[opened + 1])
  BY <1>2a, <1>4, RecordIsTrue
<1>7. /\ report' \in Seq(Records) /\ Len(report') = m + 1
      /\ report'[m + 1] = rec /\ \A i \in 1 .. m : report'[i] = report[i]
  BY <1>2a, <1>3, <1>5
<1>8. \A i \in 1 .. m : report[i] = R!Torn \/ TrueRecord(report[i], given[i])
  BY DEF RInv, RecordsTrue
<1> HIDE DEF m
<1>9. ASSUME NEW i \in 1 .. m + 1
       PROVE  report'[i] = R!Torn \/ TrueRecord(report'[i], given[i])
  <2>1. CASE i = m + 1
    BY <1>3, <1>6, <1>7, <2>1
  <2>2. CASE i # m + 1
    <3>1. i \in 1 .. m
      BY <1>3, <2>2
    <3> QED BY <1>7, <1>8, <3>1
  <2> QED BY <2>1, <2>2
<1>10. RecordsTrue'
  <2>1. \A i \in 1 .. Len(report') : report'[i] = R!Torn \/ TrueRecord(report'[i], given'[i])
    BY <1>3, <1>7, <1>9
  <2> QED BY <2>1 DEF RecordsTrue, TrueRecord, Says, IntsOf, R!Torn
<1>11. MaxOpen \in Nat
  BY DEF ReportSizes
<1>12. opened' \in Nat /\ opened' <= Len(given') /\ opened' <= MaxOpen
       /\ Len(report') = opened' /\ Len(report') <= opened' /\ exit' # 0
  BY <1>1, <1>3, <1>7, <1>11
<1> QED BY <1>1, <1>3, <1>7, <1>10, <1>12 DEF RInv

LEMMA RecordsStay == ASSUME RecordsTrue, report' = report, given' = given PROVE RecordsTrue'
BY DEF RecordsTrue

LEMMA ReportInductive == ASSUME ReportSizes PROVE RInv /\ [R!Next]_(R!reportVars) => RInv'
<1> SUFFICES ASSUME RInv, [R!Next]_(R!reportVars) PROVE RInv'
  OBVIOUS
<1>1. ASSUME given' = given, report' = report, NEW e \in {2, 3}, exit' = e,
             opened' \in Nat, opened' <= Len(given), opened' <= MaxOpen, opened <= opened'
      PROVE  RInv'
  <2>1. report \in Seq(Records) /\ Len(report) \in Nat /\ opened \in Nat /\ Len(report) <= opened
    BY DEF RInv
  <2>2. Len(report') <= opened'
    BY <1>1, <2>1
  <2>3. RecordsTrue'
    BY <1>1, RecordsStay DEF RInv
  <2> QED BY <1>1, <2>1, <2>2, <2>3 DEF RInv
<1>2. opened \in Nat /\ opened <= MaxOpen /\ opened <= Len(given) /\ Len(given) \in Nat /\ MaxOpen \in Nat
  BY DEF RInv, ReportSizes
<1>3. CASE R!OneFile
  BY <1>3, OneFileKeeps
<1>4. CASE R!OpenFails
  BY <1>1, <1>2, <1>4 DEF R!OpenFails
<1>5. CASE R!ReadFails
  <2>1. opened + 1 \in Nat /\ opened + 1 <= Len(given) /\ opened + 1 <= MaxOpen /\ opened <= opened + 1
    BY <1>2, <1>5 DEF R!ReadFails
  <2> QED BY <1>1, <1>5, <2>1 DEF R!ReadFails
<1>6. CASE R!End
  <2>1. RecordsTrue'
    BY <1>6, RecordsStay DEF R!End, RInv
  <2> QED BY <1>6, <2>1 DEF R!End, RInv
<1>7. CASE UNCHANGED R!reportVars
  <2>1. RecordsTrue'
    BY <1>7, RecordsStay DEF R!reportVars, RInv
  <2> QED BY <1>7, <2>1 DEF R!reportVars, RInv
<1> QED BY <1>3, <1>4, <1>5, <1>6, <1>7 DEF R!Next

LEMMA ReportImplied == ASSUME ReportSizes PROVE RInv => R!ReportsAreExact
<1> SUFFICES ASSUME RInv PROVE R!ReportsAreExact
  OBVIOUS
<1>1. exit = 0 => Len(report) = Len(given) /\ Len(given) <= MaxOpen
  BY DEF RInv
<1>2. DOMAIN report = 1 .. Len(report)
  BY DEF RInv
<1>3. \A i \in {k \in DOMAIN report : report[k] # R!Torn} : TrueRecord(report[i], given[i])
  BY <1>2 DEF RInv, RecordsTrue
<1> QED BY <1>1, <1>3, Zenon DEF R!ReportsAreExact, TrueRecord, Says, IntsOf

(* 5_03's 2_54, IntReport.ReportsAreExact: for every size of int and of the *)
(* buffer, any number of files and of ints in them, and whatever of the     *)
(* opening, reading and writing fails, the records are those of the files   *)
(* in order and, where they were written whole, read as what is in them;    *)
(* the smallest int never does.                                             *)
THEOREM ReportCorrect == R!Spec => []R!ReportsAreExact
<1>0. ReportSizes
  BY FilesAssumption
<1>1. R!Init => RInv
  BY <1>0, ReportInit
<1>2. RInv /\ [R!Next]_(R!reportVars) => RInv'
  BY <1>0, ReportInductive
<1>3. RInv => R!ReportsAreExact
  BY <1>0, ReportImplied
<1> QED BY <1>1, <1>2, <1>3, PTL DEF R!Spec

-----------------------------------------------------------------------------
(***************************************************************************)
(* TextFilters                                                             *)
(***************************************************************************)
(* The text as a reader sees it, for any text s: with E for the characters  *)
(* that end a line, where the line of the i-th character begins, how many   *)
(* lines there are up to it, and what is to be put out for it.              *)
Ends(p) == IF p = "2_53" THEN Text!LineEnds ELSE {"\n"}
StartIn(E, s, i) == Max({1} \cup {j + 1 : j \in {k \in 1 .. i - 1 : s[k] \in E}})
NumberIn(s, i) == 1 + Cardinality({k \in 1 .. i - 1 : s[k] = "\n"})
SepIn(s, i) == i < 1 \/ s[i] \in Text!Separators
TwoIn(s, i) == /\ SepIn(s, i) /\ ~SepIn(s, i - 1)
               /\ ~SepIn(s, i - 2) /\ SepIn(s, i - 3)

SpaceChar == " "

(* What of these nine is put out, in the order of TextFilters.Expected.     *)
Choice(p, a28, b, c28, d28, a30, c30, brackets, lengths, two) ==
  CASE p = "5_28A" -> a28
    [] p \in {"5_28B", "5_30B"} -> b
    [] p = "5_28C" -> c28
    [] p = "5_28D" -> d28
    [] p = "5_30A" -> a30
    [] p = "5_30C" -> c30
    [] p = "4_09_1" -> brackets
    [] p = "2_53" -> lengths
    [] p = "4_09_2" -> two

Asked28A(s, i) ==
  Text!When(NumberIn(s, i) < max_lines \/ (NumberIn(s, i) = max_lines /\ s[i] # "\n"), <<s[i]>>)
AskedB(s, i, l) == Text!When(s[l] \in Text!Blanks, <<s[i]>>)
Asked28C(s, i, l) == Text!When(i - l + 1 < max_chars \/ s[i] = "\n", <<s[i]>>)
Asked28D(s, i, l) == Text!When(\A k \in l .. i : s[k] \notin Text!Blanks, <<s[i]>>)
                       \o Text!When(s[i] = "\n" /\ s[l] \notin Text!Blanks, <<s[i]>>)
Asked30A(s, i) == Text!When(NumberIn(s, i) % 2 = 0, <<s[i]>>)
Asked30C(s, i, l) == Text!When(i - l + 1 <= Columns \/ s[i] = "\n", <<s[i]>>)
AskedBrackets(s, i) == Text!When(~SepIn(s, i) /\ SepIn(s, i - 1), <<"(">>)
                         \o Text!When(SepIn(s, i) /\ ~SepIn(s, i - 1), <<")">>) \o <<s[i]>>
(* dirty: the bytes of 2_53's int are not what was read.                    *)
AskedLengths(s, i, l, dirty) == Text!When(s[i] \in Text!LineEnds /\ ~dirty, <<<<"bin", i - l>>>>)
                                  \o Text!When(s[l] = SpaceChar /\ ~dirty, <<<<"txt", s[i]>>>>)
AskedTwo(s, i) == Text!When(TwoIn(s, i), SubSeq(s, i - 2, i))
                    \o Text!When(s[i] = "\n" /\ ~TwoIn(s, i), <<s[i]>>)
AskedFor(p, dirty, s, i) ==
  LET l == StartIn(Ends(p), s, i) IN
    Choice(p, Asked28A(s, i), AskedB(s, i, l), Asked28C(s, i, l), Asked28D(s, i, l),
           Asked30A(s, i), Asked30C(s, i, l), AskedBrackets(s, i),
           AskedLengths(s, i, l, dirty), AskedTwo(s, i))

Dirty == filter = "2_53" /\ mem.dirty
Asked == {"5_28A", "5_28B", "5_28C", "5_28D", "5_30A", "5_30B", "5_30C", "4_09_1", "4_09_2", "2_53"}

LEMMA TextMax == ASSUME NEW S PROVE Text!Max(S) = Max(S)
BY DEF Text!Max, Max

LEMMA TextCardinality == ASSUME NEW S PROVE Text!Cardinality(S) = Cardinality(S)
BY DEF Text!Cardinality, Text!IsFiniteSet, Cardinality, IsFiniteSet

LEMMA TextFlatten == ASSUME NEW s PROVE Text!FlattenSeq(s) = FlattenSeq(s)
BY DEF Text!FlattenSeq, FlattenSeq

(* Each program's own.                                                      *)
ChoiceOf(x, p, a28, b, c28, d28, a30, c30, brackets, lengths, two) ==
  /\ p = "5_28A" => x = a28
  /\ p \in {"5_28B", "5_30B"} => x = b
  /\ p = "5_28C" => x = c28
  /\ p = "5_28D" => x = d28
  /\ p = "5_30A" => x = a30
  /\ p = "5_30C" => x = c30
  /\ p = "4_09_1" => x = brackets
  /\ p = "2_53" => x = lengths
  /\ p = "4_09_2" => x = two

LEMMA ChoiceIs ==
  ASSUME NEW p, NEW a28, NEW b, NEW c28, NEW d28, NEW a30, NEW c30, NEW brackets, NEW lengths, NEW two,
         NEW x, x = Choice(p, a28, b, c28, d28, a30, c30, brackets, lengths, two)
  PROVE  ChoiceOf(x, p, a28, b, c28, d28, a30, c30, brackets, lengths, two)
<1>1. p = "5_28A" => Choice(p, a28, b, c28, d28, a30, c30, brackets, lengths, two) = a28
  BY DEF Choice
<1>2. p \in {"5_28B", "5_30B"} => Choice(p, a28, b, c28, d28, a30, c30, brackets, lengths, two) = b
  BY DEF Choice
<1>3. p = "5_28C" => Choice(p, a28, b, c28, d28, a30, c30, brackets, lengths, two) = c28
  BY DEF Choice
<1>4. p = "5_28D" => Choice(p, a28, b, c28, d28, a30, c30, brackets, lengths, two) = d28
  BY DEF Choice
<1>5. p = "5_30A" => Choice(p, a28, b, c28, d28, a30, c30, brackets, lengths, two) = a30
  BY DEF Choice
<1>6. p = "5_30C" => Choice(p, a28, b, c28, d28, a30, c30, brackets, lengths, two) = c30
  BY DEF Choice
<1>7. p = "4_09_1" => Choice(p, a28, b, c28, d28, a30, c30, brackets, lengths, two) = brackets
  BY DEF Choice
<1>8. p = "2_53" => Choice(p, a28, b, c28, d28, a30, c30, brackets, lengths, two) = lengths
  BY DEF Choice
<1>9. p = "4_09_2" => Choice(p, a28, b, c28, d28, a30, c30, brackets, lengths, two) = two
  BY DEF Choice
<1> QED BY <1>1, <1>2, <1>3, <1>4, <1>5, <1>6, <1>7, <1>8, <1>9, Zenon DEF ChoiceOf

(* A line begins after the last line's end, or with the text.               *)
LEMMA StartIs ==
  ASSUME NEW E, NEW s, NEW i \in Nat \ {0}
  PROVE  /\ StartIn(E, s, i) \in 1 .. i
         /\ StartIn(E, s, i) # 1 => s[StartIn(E, s, i) - 1] \in E
         /\ \A k \in StartIn(E, s, i) .. i - 1 : s[k] \notin E
<1> DEFINE B == {1} \cup {j + 1 : j \in {k \in 1 .. i - 1 : s[k] \in E}}
           l == Max(B)
<1>1. B \in SUBSET (1 .. i) /\ B # {}
  OBVIOUS
<1>2. \A x \in B : x # 1 => s[x - 1] \in E
  <2>1. SUFFICES ASSUME NEW j \in 1 .. i - 1, s[j] \in E PROVE s[(j + 1) - 1] \in E
    OBVIOUS
  <2>2. (j + 1) - 1 = j
    OBVIOUS
  <2> QED BY <2>1, <2>2
<1>3. \A k \in 1 .. i - 1 : s[k] \in E => k + 1 \in B
  OBVIOUS
<1>4. l \in B /\ \A y \in B : l >= y
  <2> HIDE DEF B
  <2> QED BY <1>1, MaxIsIn
<1>5. StartIn(E, s, i) = l
  BY DEF StartIn
<1> HIDE DEF B, l
<1>6. l \in 1 .. i
  BY <1>1, <1>4
<1>7. \A k \in l .. i - 1 : s[k] \notin E
  <2> SUFFICES ASSUME NEW k \in l .. i - 1, s[k] \in E PROVE FALSE
    OBVIOUS
  <2>1. k \in 1 .. i - 1 /\ ~(l >= k + 1)
    BY <1>6
  <2> QED BY <1>3, <1>4, <2>1
<1> QED BY <1>2, <1>4, <1>5, <1>6, <1>7

LEMMA ExpectedIs ==
  ASSUME NEW i \in Nat \ {0}, filter \in Asked
  PROVE  Text!Expected(i) = AskedFor(filter, Dirty, text, i)
<1>1. \A k : Text!Eol(text[k]) <=> text[k] \in Ends(filter)
  BY Zenon DEF Text!Eol, Text!LineLengths, Text!LineEnds, Ends
<1>2. Text!LineStart(i) = StartIn(Ends(filter), text, i)
  <2>1. {k \in 1 .. i - 1 : Text!Eol(text[k])} = {k \in 1 .. i - 1 : text[k] \in Ends(filter)}
    BY <1>1
  <2> QED BY <2>1, TextMax, Zenon DEF Text!LineStart, StartIn
<1>3. Text!LineNumber(i) = NumberIn(text, i)
  BY TextCardinality DEF Text!LineNumber, NumberIn
<1>4. \A k : Text!Sep(k) <=> SepIn(text, k)
  BY DEF Text!Sep, SepIn
<1>5. Text!WordEnd(i) <=> SepIn(text, i) /\ ~SepIn(text, i - 1)
  BY <1>4 DEF Text!WordEnd
<1>6. TwoIn(text, i) <=> Text!WordEnd(i) /\ ~Text!Sep(i - 2) /\ Text!Sep(i - 3)
  BY <1>4, <1>5 DEF TwoIn
<1> DEFINE l == StartIn(Ends(filter), text, i)
           c == text[i]
           a28 == Text!When(Text!LineNumber(i) < max_lines
                          \/ (Text!LineNumber(i) = max_lines /\ ~(c = "\n")), <<c>>)
           b == Text!When(text[Text!LineStart(i)] \in Text!Blanks, <<c>>)
           c28 == Text!When(Text!Column(i) < max_chars \/ c = "\n", <<c>>)
           d28 == Text!When(\A k \in Text!LineStart(i) .. i : text[k] \notin Text!Blanks, <<c>>)
                    \o Text!When(c = "\n" /\ text[Text!LineStart(i)] \notin Text!Blanks, <<c>>)
           a30 == Text!When(Text!LineNumber(i) % 2 = 0, <<c>>)
           c30 == Text!When(Text!Column(i) <= Columns \/ c = "\n", <<c>>)
           brackets == Text!When(~Text!Sep(i) /\ Text!Sep(i - 1), <<"(">>) \o Text!When(Text!WordEnd(i), <<")">>)
                         \o <<c>>
           lengths == Text!When(Text!Eol(c) /\ ~mem.dirty, <<<<"bin", Text!Column(i) - 1>>>>)
                        \o Text!When(text[Text!LineStart(i)] = " " /\ ~mem.dirty, <<<<"txt", c>>>>)
           two == Text!When(Text!WordEnd(i) /\ ~Text!Sep(i - 2) /\ Text!Sep(i - 3), SubSeq(text, i - 2, i))
                    \o Text!When(c = "\n" /\ ~(Text!WordEnd(i) /\ ~Text!Sep(i - 2) /\ Text!Sep(i - 3)), <<c>>)
<1>7. Text!LineStart(i) = l /\ Text!Column(i) = i - l + 1
  BY <1>2 DEF Text!Column
<1>8. Text!Expected(i) = Choice(filter, a28, b, c28, d28, a30, c30, brackets, lengths, two)
  BY Zenon DEF Text!Expected, Choice, Text!Brackets, Text!LineLengths, Text!TwoLetters
<1>9. a28 = Asked28A(text, i)
  BY <1>3 DEF Asked28A
<1>10. b = AskedB(text, i, l)
  <2> HIDE DEF l
  <2> QED BY <1>7 DEF AskedB
<1>11. c28 = Asked28C(text, i, l)
  <2> HIDE DEF l
  <2> QED BY <1>7 DEF Asked28C
<1>12. d28 = Asked28D(text, i, l)
  <2> HIDE DEF l
  <2> QED BY <1>7 DEF Asked28D
<1>13. a30 = Asked30A(text, i)
  BY <1>3 DEF Asked30A
<1>14. c30 = Asked30C(text, i, l)
  <2> HIDE DEF l
  <2> QED BY <1>7 DEF Asked30C
<1>15. brackets = AskedBrackets(text, i)
  <2>1. Text!When(~Text!Sep(i) /\ Text!Sep(i - 1), <<"(">>) = Text!When(~SepIn(text, i) /\ SepIn(text, i - 1), <<"(">>)
    BY <1>4 DEF Text!When
  <2>2. Text!When(Text!WordEnd(i), <<")">>) = Text!When(SepIn(text, i) /\ ~SepIn(text, i - 1), <<")">>)
    BY <1>5 DEF Text!When
  <2> QED BY <2>1, <2>2, Zenon DEF AskedBrackets
<1>16. filter = "2_53" => lengths = AskedLengths(text, i, l, Dirty)
  <2>1. l \in Int /\ Text!Column(i) - 1 = i - l
    <3>1. l \in Int
      BY StartIs
    <3> HIDE DEF l
    <3> QED BY <1>7, <3>1
  <2> HIDE DEF l
  <2> SUFFICES ASSUME filter = "2_53" PROVE lengths = AskedLengths(text, i, l, Dirty)
    OBVIOUS
  <2>2. Text!When(Text!Eol(c) /\ ~mem.dirty, <<<<"bin", Text!Column(i) - 1>>>>)
          = Text!When(text[i] \in Text!LineEnds /\ ~Dirty, <<<<"bin", i - l>>>>)
    BY <1>1, <2>1 DEF Dirty, Ends, Text!When
  <2>2a. filter = "2_53"
    OBVIOUS
  <2>3. Text!When(text[Text!LineStart(i)] = " " /\ ~mem.dirty, <<<<"txt", c>>>>)
          = Text!When(text[l] = SpaceChar /\ ~Dirty, <<<<"txt", text[i]>>>>)
    <3>1. Text!LineStart(i) = l
      BY <1>7
    <3>2. text[Text!LineStart(i)] = " " /\ ~mem.dirty <=> text[l] = SpaceChar /\ ~Dirty
      BY <2>2a, <3>1, Zenon DEF Dirty, SpaceChar
    <3> QED BY <3>2, Zenon DEF Text!When
  <2> QED BY <2>2, <2>3, Zenon DEF AskedLengths
<1>17. two = AskedTwo(text, i)
  <2>1. Text!When(Text!WordEnd(i) /\ ~Text!Sep(i - 2) /\ Text!Sep(i - 3), SubSeq(text, i - 2, i))
          = Text!When(TwoIn(text, i), SubSeq(text, i - 2, i))
    BY <1>6 DEF Text!When
  <2>2. Text!When(c = "\n" /\ ~(Text!WordEnd(i) /\ ~Text!Sep(i - 2) /\ Text!Sep(i - 3)), <<c>>)
          = Text!When(text[i] = "\n" /\ ~TwoIn(text, i), <<text[i]>>)
    BY <1>6 DEF Text!When
  <2> QED BY <2>1, <2>2, Zenon DEF AskedTwo
<1>18. AskedFor(filter, Dirty, text, i)
         = Choice(filter, Asked28A(text, i), AskedB(text, i, l), Asked28C(text, i, l), Asked28D(text, i, l),
                  Asked30A(text, i), Asked30C(text, i, l), AskedBrackets(text, i),
                  AskedLengths(text, i, l, Dirty), AskedTwo(text, i))
  BY Zenon DEF AskedFor
<1> HIDE DEF l, a28, b, c28, d28, a30, c30, brackets, lengths, two
<1>19. ChoiceOf(Text!Expected(i), filter, a28, b, c28, d28, a30, c30, brackets, lengths, two)
  BY ONLY <1>8, ChoiceIs, Zenon
<1>20. ChoiceOf(AskedFor(filter, Dirty, text, i), filter,
                Asked28A(text, i), AskedB(text, i, l), Asked28C(text, i, l), Asked28D(text, i, l),
                Asked30A(text, i), Asked30C(text, i, l), AskedBrackets(text, i),
                AskedLengths(text, i, l, Dirty), AskedTwo(text, i))
  BY ONLY <1>18, ChoiceIs, Zenon
<1> QED BY <1>9, <1>10, <1>11, <1>12, <1>13, <1>14, <1>15, <1>16, <1>17, <1>19, <1>20 DEF ChoiceOf, Asked

-----------------------------------------------------------------------------
(* One character more changes nothing about those before it.                *)
LEMMA StartSame ==
  ASSUME NEW E, NEW s, NEW u, NEW i \in Nat, \A k \in 1 .. i - 1 : u[k] = s[k]
  PROVE  StartIn(E, u, i) = StartIn(E, s, i) /\ NumberIn(u, i) = NumberIn(s, i)
<1>1. {k \in 1 .. i - 1 : u[k] \in E} = {k \in 1 .. i - 1 : s[k] \in E}
  OBVIOUS
<1>2. {k \in 1 .. i - 1 : u[k] = "\n"} = {k \in 1 .. i - 1 : s[k] = "\n"}
  OBVIOUS
<1> QED BY <1>1, <1>2, Zenon DEF StartIn, NumberIn

LEMMA StartMore ==
  ASSUME NEW E, NEW s, NEW i \in Nat \ {0}
  PROVE  /\ s[i] \in E => StartIn(E, s, i + 1) = i + 1
         /\ s[i] \notin E => StartIn(E, s, i + 1) = StartIn(E, s, i)
<1> DEFINE l == StartIn(E, s, i)
           m == StartIn(E, s, i + 1)
<1>1. /\ l \in 1 .. i /\ (l # 1 => s[l - 1] \in E)
      /\ \A k \in l .. i - 1 : s[k] \notin E
  BY StartIs, Zenon
<1>2. /\ m \in 1 .. i + 1 /\ (m # 1 => s[m - 1] \in E)
      /\ \A k \in m .. i : s[k] \notin E
  <2>1. i + 1 \in Nat \ {0} /\ (i + 1) - 1 = i
    OBVIOUS
  <2>2. /\ m \in 1 .. i + 1 /\ (m # 1 => s[m - 1] \in E)
        /\ \A k \in m .. (i + 1) - 1 : s[k] \notin E
    BY ONLY <2>1, StartIs, Zenon
  <2> QED BY <2>1, <2>2
<1> HIDE DEF l, m
<1>3. ASSUME s[i] \in E PROVE m = i + 1
  BY <1>2, <1>3
<1>4. ASSUME s[i] \notin E PROVE m = l
  <2>1. m <= i
    <3>1. m = i + 1 => m # 1 /\ m - 1 = i
      OBVIOUS
    <3> QED BY <1>2, <1>4, <3>1
  <2>2. ~(l < m)
    <3>1. l < m => m # 1 /\ m - 1 \in l .. i - 1
      BY <1>1, <1>2, <2>1
    <3> QED BY <1>1, <1>2, <3>1
  <2>3. ~(m < l)
    <3>1. m < l => l # 1 /\ l - 1 \in m .. i
      BY <1>1, <1>2
    <3> QED BY <1>1, <1>2, <3>1
  <2> QED BY <1>1, <1>2, <2>2, <2>3
<1> QED BY <1>3, <1>4 DEF l, m

LEMMA NumberIs ==
  ASSUME NEW s, NEW i \in Nat \ {0}
  PROVE  /\ NumberIn(s, i) \in Nat
         /\ NumberIn(s, i + 1) = NumberIn(s, i) + (IF s[i] = "\n" THEN 1 ELSE 0)
<1> DEFINE S == {k \in 1 .. i - 1 : s[k] = "\n"}
           U == {k \in 1 .. (i + 1) - 1 : s[k] = "\n"}
<1>1. IsFiniteSet(S) /\ Cardinality(S) \in Nat
  <2>1. IsFiniteSet(1 .. i - 1) /\ S \in SUBSET (1 .. i - 1)
    BY FS_Interval
  <2> HIDE DEF S
  <2> QED BY <2>1, FS_Subset, FS_CardinalityType
<1>2. s[i] # "\n" => U = S
  <2>1. \A k : k \in 1 .. (i + 1) - 1 <=> k \in 1 .. i - 1 \/ k = i
    OBVIOUS
  <2> QED BY <2>1
<1>3. s[i] = "\n" => U = S \cup {i} /\ i \notin S
  <2>1. \A k : k \in 1 .. (i + 1) - 1 <=> k \in 1 .. i - 1 \/ k = i
    OBVIOUS
  <2>2. i \notin 1 .. i - 1
    OBVIOUS
  <2> QED BY <2>1, <2>2
<1>4. NumberIn(s, i) = 1 + Cardinality(S) /\ NumberIn(s, i + 1) = 1 + Cardinality(U)
  BY DEF NumberIn
<1> HIDE DEF S, U
<1>5. CASE s[i] = "\n"
  <2>1. Cardinality(U) = Cardinality(S) + 1
    BY <1>1, <1>3, <1>5, FS_AddElement
  <2> QED BY <1>1, <1>4, <1>5, <2>1
<1>6. CASE s[i] # "\n"
  BY <1>1, <1>2, <1>4, <1>6
<1> QED BY <1>5, <1>6

(* At the first character.                                                  *)
LEMMA StartFirst ==
  ASSUME NEW E, NEW s
  PROVE  StartIn(E, s, 1) = 1 /\ NumberIn(s, 1) = 1 /\ SepIn(s, 0)
<1>1. StartIn(E, s, 1) = 1
  BY StartIs
<1>2. {k \in 1 .. 1 - 1 : s[k] = "\n"} = {}
  OBVIOUS
<1>3. NumberIn(s, 1) = 1 + Cardinality({})
  BY <1>2, Zenon DEF NumberIn
<1>4. Cardinality({}) = 0
  BY FS_EmptySet
<1>5. SepIn(s, 0)
  BY DEF SepIn
<1> QED BY <1>1, <1>3, <1>4, <1>5

(* What is asked of each program for the i-th character of s, whose line    *)
(* begins at l.                                                             *)
AskedOf(p, dirty, s, i, l) ==
  /\ p = "5_28A" => AskedFor(p, dirty, s, i) = Asked28A(s, i)
  /\ p \in {"5_28B", "5_30B"} => AskedFor(p, dirty, s, i) = AskedB(s, i, l)
  /\ p = "5_28C" => AskedFor(p, dirty, s, i) = Asked28C(s, i, l)
  /\ p = "5_28D" => AskedFor(p, dirty, s, i) = Asked28D(s, i, l)
  /\ p = "5_30A" => AskedFor(p, dirty, s, i) = Asked30A(s, i)
  /\ p = "5_30C" => AskedFor(p, dirty, s, i) = Asked30C(s, i, l)
  /\ p = "4_09_1" => AskedFor(p, dirty, s, i) = AskedBrackets(s, i)
  /\ p = "2_53" => AskedFor(p, dirty, s, i) = AskedLengths(s, i, l, dirty)
  /\ p = "4_09_2" => AskedFor(p, dirty, s, i) = AskedTwo(s, i)

LEMMA AskedIs ==
  ASSUME NEW p, NEW dirty, NEW s, NEW i, NEW l, StartIn(Ends(p), s, i) = l
  PROVE  AskedOf(p, dirty, s, i, l)
<1>1. AskedFor(p, dirty, s, i)
        = Choice(p, Asked28A(s, i), AskedB(s, i, l), Asked28C(s, i, l), Asked28D(s, i, l),
                 Asked30A(s, i), Asked30C(s, i, l), AskedBrackets(s, i),
                 AskedLengths(s, i, l, dirty), AskedTwo(s, i))
  BY Zenon DEF AskedFor
<1>2. ChoiceOf(AskedFor(p, dirty, s, i), p,
               Asked28A(s, i), AskedB(s, i, l), Asked28C(s, i, l), Asked28D(s, i, l),
               Asked30A(s, i), Asked30C(s, i, l), AskedBrackets(s, i),
               AskedLengths(s, i, l, dirty), AskedTwo(s, i))
  BY ONLY <1>1, ChoiceIs, Zenon
<1> QED BY <1>2, Zenon DEF ChoiceOf, AskedOf

(* The text s of n characters whose last line begins at l, and the text u   *)
(* of one character more, c.                                                *)
More(A, E, s, c, u, n, l) ==
  /\ n \in Nat /\ n = Len(s) /\ Len(u) = n + 1 /\ u \in Seq(A)
  /\ u[n + 1] = c /\ \A k \in 1 .. n : u[k] = s[k]
  /\ l \in 1 .. n + 1 /\ StartIn(E, s, n + 1) = l /\ StartIn(E, u, n + 1) = l
  /\ c \in E => StartIn(E, u, n + 2) = n + 2
  /\ c \notin E => StartIn(E, u, n + 2) = l
  /\ NumberIn(s, n + 1) \in Nat /\ NumberIn(u, n + 1) = NumberIn(s, n + 1)
  /\ NumberIn(u, n + 2) = NumberIn(s, n + 1) + (IF c = "\n" THEN 1 ELSE 0)

LEMMA OneLineMore ==
  ASSUME NEW A, NEW s \in Seq(A), NEW c \in A, NEW E
  PROVE  More(A, E, s, c, Append(s, c), Len(s), StartIn(E, s, Len(s) + 1))
<1> DEFINE n == Len(s)
           u == Append(s, c)
<1>1. n \in Nat /\ Len(u) = n + 1 /\ u \in Seq(A) /\ u[n + 1] = c /\ \A k \in 1 .. n : u[k] = s[k]
      /\ n = Len(s)
  OBVIOUS
<1> HIDE DEF n, u
<1>2. n + 1 \in Nat \ {0} /\ (n + 1) + 1 = n + 2 /\ (n + 1) - 1 = n
  BY <1>1
<1>3. StartIn(E, s, n + 1) \in 1 .. n + 1
  BY <1>2, StartIs
<1>4. StartIn(E, u, n + 1) = StartIn(E, s, n + 1) /\ NumberIn(u, n + 1) = NumberIn(s, n + 1)
  <2>1. \A k \in 1 .. (n + 1) - 1 : u[k] = s[k]
    BY <1>1, <1>2
  <2> QED BY <1>2, <2>1, StartSame
<1>5. /\ u[n + 1] \in E => StartIn(E, u, (n + 1) + 1) = (n + 1) + 1
      /\ u[n + 1] \notin E => StartIn(E, u, (n + 1) + 1) = StartIn(E, u, n + 1)
  BY ONLY <1>2, StartMore, Zenon
<1>6. /\ NumberIn(u, n + 1) \in Nat
      /\ NumberIn(u, (n + 1) + 1) = NumberIn(u, n + 1) + (IF u[n + 1] = "\n" THEN 1 ELSE 0)
  BY ONLY <1>2, NumberIs, Zenon
<1> QED BY <1>1, <1>2, <1>3, <1>4, <1>5, <1>6, Zenon DEF n, u, More

(* What is asked for a character depends on those up to it.                 *)
LEMMA AskedSame ==
  ASSUME NEW p, NEW dirty, NEW s, NEW u, NEW i \in Nat \ {0}, \A k \in 1 .. i : u[k] = s[k]
  PROVE  AskedFor(p, dirty, u, i) = AskedFor(p, dirty, s, i)
<1> DEFINE l == StartIn(Ends(p), s, i)
<1>1. StartIn(Ends(p), u, i) = l /\ NumberIn(u, i) = NumberIn(s, i)
  BY StartSame
<1>2. l \in 1 .. i
  BY StartIs
<1> HIDE DEF l
<1>3. u[i] = s[i] /\ u[l] = s[l] /\ \A k \in l .. i : u[k] = s[k]
  BY <1>2
<1>4. \A k \in Int : k < i + 1 => (SepIn(u, k) <=> SepIn(s, k))
  <2> SUFFICES ASSUME NEW k \in Int, k < i + 1 PROVE SepIn(u, k) <=> SepIn(s, k)
    OBVIOUS
  <2> QED BY DEF SepIn
<1>5. Asked28A(u, i) = Asked28A(s, i) /\ Asked30A(u, i) = Asked30A(s, i)
  BY <1>1, <1>3 DEF Asked28A, Asked30A
<1>6. AskedB(u, i, l) = AskedB(s, i, l) /\ Asked28C(u, i, l) = Asked28C(s, i, l)
      /\ Asked30C(u, i, l) = Asked30C(s, i, l)
  BY <1>3 DEF AskedB, Asked28C, Asked30C
<1>7. Asked28D(u, i, l) = Asked28D(s, i, l)
  <2>1. (\A k \in l .. i : u[k] \notin Text!Blanks) <=> \A k \in l .. i : s[k] \notin Text!Blanks
    BY <1>3
  <2>2. Text!When(\A k \in l .. i : u[k] \notin Text!Blanks, <<u[i]>>)
          = Text!When(\A k \in l .. i : s[k] \notin Text!Blanks, <<s[i]>>)
    BY <1>3, <2>1 DEF Text!When
  <2> QED BY <1>3, <2>2, Zenon DEF Asked28D
<1>8. AskedBrackets(u, i) = AskedBrackets(s, i)
  <2>1. (SepIn(u, i) <=> SepIn(s, i)) /\ (SepIn(u, i - 1) <=> SepIn(s, i - 1))
    <3>1. i < i + 1 /\ i - 1 < i + 1 /\ i \in Int /\ i - 1 \in Int
      OBVIOUS
    <3> QED BY <1>4, <3>1
  <2>2. Text!When(~SepIn(u, i) /\ SepIn(u, i - 1), <<"(">>) = Text!When(~SepIn(s, i) /\ SepIn(s, i - 1), <<"(">>)
    BY <2>1 DEF Text!When
  <2>3. Text!When(SepIn(u, i) /\ ~SepIn(u, i - 1), <<")">>) = Text!When(SepIn(s, i) /\ ~SepIn(s, i - 1), <<")">>)
    BY <2>1 DEF Text!When
  <2> QED BY <1>3, <2>2, <2>3, Zenon DEF AskedBrackets
<1>9. AskedLengths(u, i, l, dirty) = AskedLengths(s, i, l, dirty)
  BY <1>3 DEF AskedLengths
<1>10. AskedTwo(u, i) = AskedTwo(s, i)
  <2>1. TwoIn(u, i) <=> TwoIn(s, i)
    <3>1. i < i + 1 /\ i - 1 < i + 1 /\ i - 2 < i + 1 /\ i - 3 < i + 1
          /\ i \in Int /\ i - 1 \in Int /\ i - 2 \in Int /\ i - 3 \in Int
      OBVIOUS
    <3> QED BY <1>4, <3>1 DEF TwoIn
  <2>2. Text!When(TwoIn(u, i), SubSeq(u, i - 2, i)) = Text!When(TwoIn(s, i), SubSeq(s, i - 2, i))
    <3>1. CASE TwoIn(s, i)
      <4>1. ~(i - 2 < 1)
        BY <3>1 DEF TwoIn, SepIn
      <4>2. \A k \in 1 .. i - (i - 2) + 1 : (i - 2) + k - 1 \in 1 .. i
        BY <4>1
      <4>3. \A k \in 1 .. i - (i - 2) + 1 : u[(i - 2) + k - 1] = s[(i - 2) + k - 1]
        BY <4>2
      <4>4. SubSeq(u, i - 2, i) = SubSeq(s, i - 2, i)
        BY <4>3
      <4> QED BY <2>1, <4>4 DEF Text!When
    <3>2. CASE ~TwoIn(s, i)
      BY <2>1, <3>2 DEF Text!When
    <3> QED BY <3>1, <3>2
  <2>3. Text!When(u[i] = "\n" /\ ~TwoIn(u, i), <<u[i]>>) = Text!When(s[i] = "\n" /\ ~TwoIn(s, i), <<s[i]>>)
    BY <1>3, <2>1 DEF Text!When
  <2> QED BY <2>2, <2>3, Zenon DEF AskedTwo
<1> QED BY <1>1, <1>5, <1>6, <1>7, <1>8, <1>9, <1>10, Zenon DEF AskedFor, l

-----------------------------------------------------------------------------
(* What a program remembers of the text s, when the next character is the   *)
(* j-th, in the line that begins at l.                                      *)
Memory28 == [lines : Int, new_line : BOOLEAN, first_is_space : BOOLEAN,
             chars : Int, first_word : BOOLEAN, newline : BOOLEAN]
Knows28(p, m, s, j, l) ==
  /\ m \in Memory28
  /\ m.lines = NumberIn(s, j) - 1 /\ m.chars = j - l
  /\ m.new_line <=> l = j
  /\ l # j => /\ m.first_is_space <=> s[l] \in Text!Blanks
              /\ m.first_word <=> \A k \in l .. j - 1 : s[k] \notin Text!Blanks
  /\ m.newline <=> p = "5_28D" /\ l # j /\ s[l] \notin Text!Blanks

Put28(m, chars, lines, word, space, start) ==
  [[[[[m EXCEPT !.chars = chars] EXCEPT !.lines = lines] EXCEPT !.first_word = word]
     EXCEPT !.first_is_space = space] EXCEPT !.new_line = start]

Has28(r, m, chars, lines, word, space, start) ==
  /\ r \in Memory28 /\ r.newline = m.newline /\ r.chars = chars /\ r.lines = lines
  /\ r.first_word = word /\ r.first_is_space = space /\ r.new_line = start

LEMMA Put28Is ==
  ASSUME NEW m \in Memory28, NEW chars \in Int, NEW lines \in Int,
         NEW word \in BOOLEAN, NEW space \in BOOLEAN, NEW start \in BOOLEAN,
         NEW r, r = Put28(m, chars, lines, word, space, start)
  PROVE  Has28(r, m, chars, lines, word, space, start)
BY DEF Memory28, Put28, Has28

(* update_info() keeps the account of the lines and columns.                *)
LEMMA UpdateIs ==
  ASSUME NEW p, NEW m, NEW A, NEW s \in Seq(A), NEW c \in A,
         Knows28(p, m, s, Len(s) + 1, StartIn({"\n"}, s, Len(s) + 1))
  PROVE  LET n == Len(s)
             u == Append(s, c)
             l == StartIn({"\n"}, s, n + 1)
             after == Text!update_info(m, c)
         IN  /\ after \in Memory28 /\ after.newline = m.newline
             /\ after.lines = NumberIn(u, n + 2) - 1
             /\ after.chars = (IF c = "\n" THEN 0 ELSE (n + 2) - l)
             /\ after.new_line <=> c = "\n"
             /\ after.first_is_space <=> u[l] \in Text!Blanks
             /\ after.first_word <=> \A k \in l .. n + 1 : u[k] \notin Text!Blanks
<1> DEFINE n == Len(s)
           u == Append(s, c)
           l == StartIn({"\n"}, s, n + 1)
           after == Text!update_info(m, c)
<1>0. More(A, {"\n"}, s, c, u, n, l)
  BY OneLineMore, Zenon
<1>1. /\ n \in Nat /\ u[n + 1] = c /\ \A k \in 1 .. n : u[k] = s[k]
      /\ l \in 1 .. n + 1
      /\ NumberIn(s, n + 1) \in Nat
      /\ NumberIn(u, n + 2) = NumberIn(s, n + 1) + (IF c = "\n" THEN 1 ELSE 0)
  <2> HIDE DEF n, u, l
  <2> QED BY <1>0, Zenon DEF More
<1>2. Knows28(p, m, s, n + 1, l)
  OBVIOUS
<1>3. m \in Memory28 /\ m.lines = NumberIn(s, n + 1) - 1 /\ m.chars = (n + 1) - l
      /\ (m.new_line <=> l = n + 1)
  BY <1>2, Zenon DEF Knows28
<1>4. /\ after \in Memory28 /\ after.newline = m.newline
      /\ after.chars = (IF c = "\n" THEN 0 ELSE m.chars + 1)
      /\ after.lines = (IF c = "\n" THEN m.lines + 1 ELSE m.lines)
      /\ after.first_word <=> (m.new_line \/ m.first_word) /\ c \notin Text!Blanks
      /\ after.first_is_space <=> (IF m.new_line THEN c \in Text!Blanks ELSE m.first_is_space)
      /\ after.new_line <=> (c = "\n")
  <2> DEFINE chars == IF c = "\n" THEN 0 ELSE m.chars + 1
             lines == IF c = "\n" THEN m.lines + 1 ELSE m.lines
             word == (m.new_line \/ m.first_word) /\ c \notin Text!Blanks
             space == IF m.new_line THEN c \in Text!Blanks ELSE m.first_is_space
             start == c = "\n"
  <2>1. m \in Memory28 /\ chars \in Int /\ lines \in Int
    BY <1>3 DEF Memory28
  <2>2. word \in BOOLEAN /\ start \in BOOLEAN
    BY Zenon
  <2>3. space \in BOOLEAN
    <3>1. m.first_is_space \in BOOLEAN
      BY <1>3 DEF Memory28
    <3>2. CASE m.new_line
      <4>1. space = (c \in Text!Blanks)
        BY <3>2, Zenon
      <4>2. (c \in Text!Blanks) \in BOOLEAN
        OBVIOUS
      <4> QED BY ONLY <4>1, <4>2, Zenon
    <3>3. CASE ~m.new_line
      BY <3>1, <3>3, Zenon
    <3> QED BY <3>2, <3>3
  <2>4. after = Put28(m, chars, lines, word, space, start)
    BY Zenon DEF Text!update_info, Put28
  <2> HIDE DEF n, u, l, after, chars, lines, word, space, start
  <2>5. Has28(after, m, chars, lines, word, space, start)
    BY ONLY <2>1, <2>2, <2>3, <2>4, Put28Is, Zenon
  <2> QED BY ONLY <2>5, Zenon DEF Has28, chars, lines, word, space, start
<1> HIDE DEF n, u, l, after
<1>5. after.lines = NumberIn(u, n + 2) - 1
  BY <1>1, <1>3, <1>4
<1>6. after.chars = (IF c = "\n" THEN 0 ELSE (n + 2) - l)
  BY <1>1, <1>3, <1>4
<1>7. CASE l = n + 1
  <2>1. m.new_line /\ u[l] = c /\ l .. n + 1 = {n + 1}
    BY <1>1, <1>3, <1>7
  <2>2. after.first_is_space <=> u[l] \in Text!Blanks
    BY <1>4, <2>1
  <2>3. after.first_word <=> \A k \in l .. n + 1 : u[k] \notin Text!Blanks
    BY <1>1, <1>4, <2>1
  <2> QED BY <1>4, <1>5, <1>6, <2>2, <2>3, Zenon DEF n, u, l, after
<1>8. CASE l # n + 1
  <2>1. ~m.new_line /\ l <= n /\ u[l] = s[l]
    BY <1>1, <1>3, <1>8
  <2>2. /\ m.first_is_space <=> s[l] \in Text!Blanks
        /\ m.first_word <=> \A k \in l .. n : s[k] \notin Text!Blanks
    <3>1. /\ m.first_is_space <=> s[l] \in Text!Blanks
          /\ m.first_word <=> \A k \in l .. (n + 1) - 1 : s[k] \notin Text!Blanks
      BY <1>2, <1>8, Zenon DEF Knows28
    <3>2. (n + 1) - 1 = n
      BY <1>1
    <3> QED BY ONLY <3>1, <3>2, Zenon
  <2>3. after.first_is_space <=> u[l] \in Text!Blanks
    BY <1>4, <2>1, <2>2
  <2>4. (\A k \in l .. n + 1 : u[k] \notin Text!Blanks)
          <=> (\A k \in l .. n : s[k] \notin Text!Blanks) /\ c \notin Text!Blanks
    <3>1. \A k : k \in l .. n + 1 <=> k \in l .. n \/ k = n + 1
      BY <1>1
    <3>2. \A k \in l .. n : u[k] = s[k]
      BY <1>1
    <3> QED BY <1>1, <3>1, <3>2
  <2>5. after.first_word <=> \A k \in l .. n + 1 : u[k] \notin Text!Blanks
    BY <1>4, <2>1, <2>2, <2>4
  <2> QED BY <1>4, <1>5, <1>6, <2>3, <2>5, Zenon DEF n, u, l, after
<1> QED BY <1>7, <1>8

(* One or no character.                                                     *)
LEMMA WhenType ==
  ASSUME NEW test, NEW x, NEW V, x \in Seq(V)
  PROVE  Text!When(test, x) \in Seq(V)
<1>1. <<>> \in Seq(V)
  OBVIOUS
<1> QED BY <1>1 DEF Text!When

LEMMA AndNothing ==
  ASSUME NEW a, NEW b, NEW c, ~b
  PROVE  Text!When(a, <<c>>) \o Text!When(b, <<c>>) = Text!When(a, <<c>>)
<1>1. Text!When(b, <<c>>) = <<>>
  BY DEF Text!When
<1>2. Text!When(a, <<c>>) \in Seq({c})
  <2>1. <<c>> \in Seq({c})
    OBVIOUS
  <2> QED BY <2>1, WhenType
<1>3. \A x \in Seq({c}) : x \o <<>> = x
  OBVIOUS
<1> QED BY <1>1, <1>2, <1>3

LEMMA LimitsAre ==
  ASSUME TextSizes
  PROVE  max_lines \in Int /\ max_chars \in Int /\ 0 < max_chars /\ Columns \in Int
<1>1. max_lines \in Int /\ max_chars \in Nat \ {0} /\ Columns \in Int
  BY Zenon DEF TextSizes
<1> QED BY <1>1

LEMMA WhenSame ==
  ASSUME NEW a, NEW b, NEW x, a <=> b
  PROVE  Text!When(a, x) = Text!When(b, x)
BY DEF Text!When

(* 5_28: the next character is put out as asked, and what the program       *)
(* remembers is true of the longer text.                                    *)
LEMMA Step28Is ==
  ASSUME NEW m, NEW A, NEW s \in Seq(A), NEW c \in A, filter \in Text!Filters28, TextSizes,
         Knows28(filter, m, s, Len(s) + 1, StartIn({"\n"}, s, Len(s) + 1))
  PROVE  LET u == Append(s, c)
             step == Text!Step28(m, c)
         IN  /\ step.put = AskedFor(filter, FALSE, u, Len(u))
             /\ Knows28(filter, step.mem, u, Len(u) + 1, StartIn({"\n"}, u, Len(u) + 1))
<1> DEFINE n == Len(s)
           u == Append(s, c)
           l == StartIn({"\n"}, s, n + 1)
           e == StartIn({"\n"}, u, n + 2)
           after == Text!update_info(m, c)
           P == Text!Chosen28(after, c)
           D == filter = "5_28D" /\ c = "\n" /\ (P \/ m.newline)
           step == Text!Step28(m, c)
<1>1. More(A, {"\n"}, s, c, u, n, l)
  BY OneLineMore, Zenon
<1>2. /\ after \in Memory28 /\ after.newline = m.newline
      /\ after.lines = NumberIn(u, n + 2) - 1
      /\ after.chars = (IF c = "\n" THEN 0 ELSE (n + 2) - l)
      /\ after.new_line <=> c = "\n"
      /\ after.first_is_space <=> u[l] \in Text!Blanks
      /\ after.first_word <=> \A k \in l .. n + 1 : u[k] \notin Text!Blanks
  BY UpdateIs, Zenon
<1>3. /\ m.newline <=> filter = "5_28D" /\ l # n + 1 /\ s[l] \notin Text!Blanks
      /\ m.newline \in BOOLEAN
  <2>1. Knows28(filter, m, s, n + 1, l)
    OBVIOUS
  <2>2. m \in Memory28 /\ (m.newline <=> filter = "5_28D" /\ l # n + 1 /\ s[l] \notin Text!Blanks)
    BY <2>1, Zenon DEF Knows28
  <2> HIDE DEF l, n
  <2> QED BY <2>2 DEF Memory28
<1>4. step.put = Text!When(P, <<c>>) \o Text!When(D, <<c>>)
      /\ step.mem = [after EXCEPT !.newline = (@ \/ (filter = "5_28D" /\ P)) /\ ~D]
  BY DEF Text!Step28, Text!When
<1>5. AskedOf(filter, FALSE, u, n + 1, l)
  <2>1. Ends(filter) = {"\n"}
    BY DEF Ends, Text!Filters28
  <2>2. StartIn({"\n"}, u, n + 1) = l
    BY <1>1, Zenon DEF More
  <2> HIDE DEF n, u, l
  <2> QED BY <2>1, <2>2, AskedIs, Zenon
<1>6. /\ n \in Nat /\ l \in 1 .. n + 1 /\ u[n + 1] = c /\ \A k \in 1 .. n : u[k] = s[k]
      /\ Len(u) = n + 1
      /\ c = "\n" => e = n + 2
      /\ c # "\n" => e = l
      /\ NumberIn(s, n + 1) \in Nat /\ NumberIn(u, n + 1) = NumberIn(s, n + 1)
      /\ NumberIn(u, n + 2) = NumberIn(s, n + 1) + (IF c = "\n" THEN 1 ELSE 0)
  <2> HIDE DEF n, u, l
  <2> QED BY <1>1 DEF More
<1>7. /\ filter = "5_28A" => (P <=> after.lines < max_lines)
      /\ filter = "5_28B" => (P <=> after.first_is_space)
      /\ filter = "5_28C" => (P <=> after.chars < max_chars)
      /\ filter = "5_28D" => (P <=> after.first_word)
  <2> HIDE DEF after
  <2> QED BY DEF Text!Chosen28
<1> HIDE DEF n, u, l, e, after, P, step
<1>8. filter = "5_28D" => (P \/ m.newline <=> u[l] \notin Text!Blanks)
  <2> SUFFICES ASSUME filter = "5_28D" PROVE P \/ m.newline <=> u[l] \notin Text!Blanks
    OBVIOUS
  <2>1. P <=> \A k \in l .. n + 1 : u[k] \notin Text!Blanks
    BY <1>2, <1>7
  <2>2. CASE l = n + 1
    <3>1. l .. n + 1 = {n + 1}
      BY <1>6, <2>2
    <3> QED BY <1>3, <2>1, <2>2, <3>1
  <2>3. CASE l # n + 1
    <3>1. l \in l .. n + 1 /\ u[l] = s[l]
      BY <1>6, <2>3
    <3> QED BY <1>3, <2>1, <3>1
  <2> QED BY <2>2, <2>3
<1>9. D <=> filter = "5_28D" /\ c = "\n" /\ u[l] \notin Text!Blanks
  BY <1>8
<1> HIDE DEF D
<1>10. step.put = AskedFor(filter, FALSE, u, n + 1)
  <2>1. CASE filter = "5_28A"
    <3>1. P <=> NumberIn(u, n + 1) < max_lines \/ (NumberIn(u, n + 1) = max_lines /\ u[n + 1] # "\n")
      <4>1. P <=> after.lines < max_lines
        BY <1>7, <2>1, Zenon
      <4>2. after.lines = NumberIn(u, n + 1) + (IF c = "\n" THEN 1 ELSE 0) - 1
            /\ NumberIn(u, n + 1) \in Int
        BY <1>2, <1>6
      <4>3. max_lines \in Int /\ u[n + 1] = c
        BY <1>6, LimitsAre
      <4> QED BY ONLY <4>1, <4>2, <4>3
    <3>2. Asked28A(u, n + 1) = Text!When(P, <<c>>)
      BY <1>6, <3>1, WhenSame DEF Asked28A
    <3>3. step.put = Text!When(P, <<c>>)
      BY <1>4, <1>9, <2>1, AndNothing
    <3> QED BY <1>5, <2>1, <3>2, <3>3 DEF AskedOf
  <2>2. CASE filter = "5_28B"
    <3>1. P <=> u[l] \in Text!Blanks
      BY <1>2, <1>7, <2>2
    <3>2. AskedB(u, n + 1, l) = Text!When(P, <<c>>)
      BY <1>6, <3>1, WhenSame DEF AskedB
    <3>3. step.put = Text!When(P, <<c>>)
      BY <1>4, <1>9, <2>2, AndNothing
    <3> QED BY <1>5, <2>2, <3>2, <3>3 DEF AskedOf
  <2>3. CASE filter = "5_28C"
    <3>1. P <=> (n + 1) - l + 1 < max_chars \/ u[n + 1] = "\n"
      <4>1. P <=> after.chars < max_chars
        BY <1>7, <2>3, Zenon
      <4>2. after.chars = (IF c = "\n" THEN 0 ELSE (n + 2) - l) /\ n \in Int /\ l \in Int
        BY <1>2, <1>6
      <4>3. max_chars \in Int /\ 0 < max_chars /\ u[n + 1] = c
        BY <1>6, LimitsAre
      <4> QED BY ONLY <4>1, <4>2, <4>3
    <3>2. Asked28C(u, n + 1, l) = Text!When(P, <<c>>)
      BY <1>6, <3>1, WhenSame DEF Asked28C
    <3>3. step.put = Text!When(P, <<c>>)
      BY <1>4, <1>9, <2>3, AndNothing
    <3> QED BY <1>5, <2>3, <3>2, <3>3 DEF AskedOf
  <2>4. CASE filter = "5_28D"
    <3>1. P <=> \A k \in l .. n + 1 : u[k] \notin Text!Blanks
      BY <1>2, <1>7, <2>4
    <3>2. Text!When(\A k \in l .. n + 1 : u[k] \notin Text!Blanks, <<u[n + 1]>>) = Text!When(P, <<c>>)
      BY <1>6, <3>1 DEF Text!When
    <3>3. Text!When(u[n + 1] = "\n" /\ u[l] \notin Text!Blanks, <<u[n + 1]>>) = Text!When(D, <<c>>)
      BY <1>6, <1>9, <2>4 DEF Text!When
    <3>4. Asked28D(u, n + 1, l) = step.put
      BY <1>4, <3>2, <3>3, Zenon DEF Asked28D
    <3> QED BY <1>5, <2>4, <3>4 DEF AskedOf
  <2> QED BY <2>1, <2>2, <2>3, <2>4 DEF Text!Filters28
<1>11. Knows28(filter, step.mem, u, n + 2, e)
  <2> DEFINE b == (after.newline \/ (filter = "5_28D" /\ P)) /\ ~D
             r == step.mem
  <2>1. b \in BOOLEAN
    BY Zenon
  <2>2. r = [after EXCEPT !.newline = b]
    BY <1>4
  <2> HIDE DEF b, r
  <2>3. /\ r \in Memory28 /\ r.lines = after.lines /\ r.chars = after.chars /\ r.new_line = after.new_line
        /\ r.first_is_space = after.first_is_space /\ r.first_word = after.first_word /\ r.newline = b
    BY <1>2, <2>1, <2>2 DEF Memory28
  <2>4. (n + 1) + 1 = n + 2 /\ r.lines = NumberIn(u, n + 2) - 1
    BY <1>2, <1>6, <2>3
  <2>5. r.chars = (n + 2) - e
    BY <1>2, <1>6, <2>3
  <2>6. r.new_line <=> e = n + 2
    BY <1>2, <1>6, <2>3
  <2>7. e # n + 2 => /\ r.first_is_space <=> u[e] \in Text!Blanks
                     /\ r.first_word <=> \A k \in e .. (n + 2) - 1 : u[k] \notin Text!Blanks
    <3>1. e # n + 2 => e = l /\ (n + 2) - 1 = n + 1
      BY <1>6
    <3> QED BY <1>2, <2>3, <3>1
  <2>8. r.newline <=> filter = "5_28D" /\ e # n + 2 /\ u[e] \notin Text!Blanks
    <3>1. b <=> (m.newline \/ (filter = "5_28D" /\ P)) /\ ~D
      <4>1. after.newline = m.newline
        BY <1>2, Zenon
      <4>2. after.newline <=> m.newline
        BY <4>1
      <4> QED BY <4>2, Zenon DEF b
    <3>2. filter # "5_28D" => ~m.newline
      BY <1>3
    <3>3. CASE c = "\n"
      <4>1. e = n + 2
        BY <1>6, <3>3
      <4>2. ~b
        BY <1>8, <1>9, <3>1, <3>2, <3>3
      <4> QED BY <2>3, <4>1, <4>2
    <3>4. CASE c # "\n"
      <4>1. e # n + 2 /\ e = l
        BY <1>6, <3>4
      <4>2. b <=> filter = "5_28D" /\ u[l] \notin Text!Blanks
        BY <1>8, <1>9, <3>1, <3>2, <3>4
      <4> QED BY <2>3, <4>1, <4>2
    <3> QED BY <3>3, <3>4
  <2> QED BY ONLY <2>3, <2>4, <2>5, <2>6, <2>7, <2>8, Zenon DEF Knows28, r
<1>12. (n + 1) + 1 = n + 2
  BY <1>6
<1> QED BY <1>6, <1>10, <1>11, <1>12, Zenon DEF n, u, e, step

-----------------------------------------------------------------------------
(* 5_30: the cell.                                                          *)
Knows30(p, cell, s, j, l) ==
  /\ p = "5_30A" => cell = (NumberIn(s, j) - 1) % 2
  /\ p = "5_30B" => cell = IF l = j THEN 0 ELSE IF s[l] \in Text!Blanks THEN 1 ELSE -1
  /\ p = "5_30C" => cell = j - l

LEMMA Step30Is ==
  ASSUME NEW m, NEW A, NEW s \in Seq(A), NEW c \in A, filter \in Text!Filters30, TextSizes,
         Knows30(filter, m, s, Len(s) + 1, StartIn({"\n"}, s, Len(s) + 1))
  PROVE  LET u == Append(s, c)
             step == Text!Step30(m, c)
         IN  /\ step.put = AskedFor(filter, FALSE, u, Len(u))
             /\ Knows30(filter, step.mem, u, Len(u) + 1, StartIn({"\n"}, u, Len(u) + 1))
<1> DEFINE n == Len(s)
           u == Append(s, c)
           l == StartIn({"\n"}, s, n + 1)
           w == Len(u)
           e == StartIn({"\n"}, u, n + 2)
           step == Text!Step30(m, c)
<1>1. More(A, {"\n"}, s, c, u, n, l)
  BY OneLineMore, Zenon
<1>2. AskedOf(filter, FALSE, u, n + 1, l)
  <2>1. Ends(filter) = {"\n"}
    BY DEF Ends, Text!Filters30
  <2>2. StartIn({"\n"}, u, n + 1) = l
    BY <1>1, Zenon DEF More
  <2> HIDE DEF n, u, l
  <2> QED BY <2>1, <2>2, AskedIs, Zenon
<1>3. Knows30(filter, m, s, n + 1, l)
  OBVIOUS
<1>4. /\ n = Len(s) /\ w = Len(u)
      /\ n \in Nat /\ l \in 1 .. n + 1 /\ u[n + 1] = c /\ \A k \in 1 .. n : u[k] = s[k]
      /\ w = n + 1 /\ w + 1 = n + 2
      /\ c = "\n" => e = n + 2
      /\ c # "\n" => e = l
      /\ NumberIn(s, n + 1) \in Nat /\ NumberIn(u, n + 1) = NumberIn(s, n + 1)
      /\ NumberIn(u, n + 2) = NumberIn(s, n + 1) + (IF c = "\n" THEN 1 ELSE 0)
  <2>1. (c = "\n" => c \in {"\n"}) /\ (c # "\n" => c \notin {"\n"})
    OBVIOUS
  <2> HIDE DEF u, l, n
  <2>2. /\ n \in Nat /\ n = Len(s) /\ Len(u) = n + 1 /\ u[n + 1] = c /\ \A k \in 1 .. n : u[k] = s[k]
        /\ l \in 1 .. n + 1 /\ NumberIn(s, n + 1) \in Nat /\ NumberIn(u, n + 1) = NumberIn(s, n + 1)
        /\ NumberIn(u, n + 2) = NumberIn(s, n + 1) + (IF c = "\n" THEN 1 ELSE 0)
        /\ c = "\n" => e = n + 2
        /\ c # "\n" => e = l
    BY <1>1, <2>1, Zenon DEF More
  <2>3. w = n + 1 /\ w + 1 = n + 2
    BY <2>2
  <2> QED BY <2>2, <2>3, Zenon
<1> HIDE DEF n, u, l, e, w
<1>5. CASE filter = "5_30A"
  <2>1. m = (NumberIn(s, n + 1) - 1) % 2
    BY <1>3, <1>4, <1>5, Zenon DEF Knows30
  <2>2. m = (NumberIn(u, n + 1) - 1) % 2
    <3>1. NumberIn(u, n + 1) = NumberIn(s, n + 1)
      BY <1>4, Zenon
    <3> QED BY ONLY <2>1, <3>1
  <2>3. step.put = Text!When(m = 1, <<c>>) /\ step.mem = IF c = "\n" THEN 1 - m ELSE m
    BY <1>5 DEF Text!Step30, Text!When
  <2>4. m = 1 <=> NumberIn(u, n + 1) % 2 = 0
    <3>1. NumberIn(u, n + 1) \in Nat
      BY <1>4
    <3> QED BY ONLY <2>2, <3>1
  <2>5. Asked30A(u, n + 1) = Text!When(m = 1, <<c>>)
    BY <1>4, <2>4, WhenSame DEF Asked30A
  <2>6. step.put = AskedFor(filter, FALSE, u, w)
    BY <1>2, <1>4, <1>5, <2>3, <2>5 DEF AskedOf
  <2>7. (IF c = "\n" THEN 1 - m ELSE m) = (NumberIn(u, n + 2) - 1) % 2
    <3> DEFINE N == NumberIn(s, n + 1)
    <3>1. N \in Nat /\ NumberIn(u, n + 2) = N + (IF c = "\n" THEN 1 ELSE 0) /\ m = (N - 1) % 2
      BY <1>4, <2>1
    <3> HIDE DEF N
    <3>2. CASE c = "\n"
      <4>1. 1 - ((N - 1) % 2) = ((N + 1) - 1) % 2
        BY <3>1
      <4>2. NumberIn(u, n + 2) = N + 1
        BY <3>1, <3>2
      <4>3. (NumberIn(u, n + 2) - 1) % 2 = 1 - m
        BY ONLY <3>1, <4>1, <4>2
      <4> QED BY <3>2, <4>3
    <3>3. CASE c # "\n"
      BY <3>1, <3>3
    <3> QED BY <3>2, <3>3
  <2>8. step.mem = (NumberIn(u, n + 2) - 1) % 2
    BY ONLY <2>3, <2>7, Zenon
  <2>9. Knows30(filter, step.mem, u, n + 2, e)
    <3> HIDE DEF step
    <3> QED BY <1>4, <1>5, <2>8 DEF Knows30
  <2> QED BY <1>4, <2>6, <2>9, Zenon DEF n, u, e, w, step
<1>6. CASE filter = "5_30B"
  <2>1. m = IF l = n + 1 THEN 0 ELSE IF s[l] \in Text!Blanks THEN 1 ELSE -1
    BY <1>3, <1>4, <1>6, Zenon DEF Knows30
  <2> DEFINE f == Text!Line30(m, c)
  <2>2. f = IF u[l] \in Text!Blanks THEN 1 ELSE -1
    <3>1. CASE l = n + 1
      BY <1>4, <2>1, <3>1 DEF Text!Line30
    <3>2. CASE l # n + 1
      <4>1. u[l] = s[l]
        BY <1>4, <3>2
      <4> QED BY <2>1, <3>2, <4>1 DEF Text!Line30
    <3> QED BY <3>1, <3>2
  <2>3. step.put = Text!When(f = 1, <<c>>) /\ step.mem = IF c = "\n" THEN 0 ELSE f
    BY <1>6 DEF Text!Step30, Text!When
  <2> HIDE DEF f
  <2>4. f = 1 <=> u[l] \in Text!Blanks
    BY <2>2
  <2>5. AskedB(u, n + 1, l) = Text!When(f = 1, <<c>>)
    BY <1>4, <2>4, WhenSame DEF AskedB
  <2>6. step.put = AskedFor(filter, FALSE, u, w)
    BY <1>2, <1>4, <1>6, <2>3, <2>5 DEF AskedOf
  <2>7. step.mem = IF e = n + 2 THEN 0 ELSE IF u[e] \in Text!Blanks THEN 1 ELSE -1
    <3>1. CASE c = "\n"
      BY <1>4, <2>3, <3>1
    <3>2. CASE c # "\n"
      BY <1>4, <2>2, <2>3, <3>2
    <3> QED BY <3>1, <3>2
  <2>8. Knows30(filter, step.mem, u, n + 2, e)
    <3> HIDE DEF step
    <3> QED BY <1>4, <1>6, <2>7 DEF Knows30
  <2> QED BY <1>4, <2>6, <2>8, Zenon DEF n, u, e, w, step
<1>7. CASE filter = "5_30C"
  <2>1. m = (n + 1) - l
    BY <1>3, <1>4, <1>7, Zenon DEF Knows30
  <2>3. step.put = Text!When(m < Columns \/ c = "\n", <<c>>) /\ step.mem = IF c = "\n" THEN 0 ELSE m + 1
    BY <1>7 DEF Text!Step30, Text!When
  <2>4. m < Columns \/ c = "\n" <=> (n + 1) - l + 1 <= Columns \/ u[n + 1] = "\n"
    <3>1. Columns \in Int /\ n \in Int /\ l \in Int
      BY <1>4, LimitsAre
    <3>2. m < Columns <=> (n + 1) - l + 1 <= Columns
      BY ONLY <2>1, <3>1
    <3> QED BY <1>4, <3>2
  <2>5. Asked30C(u, n + 1, l) = Text!When(m < Columns \/ c = "\n", <<c>>)
    BY <1>4, <2>4, WhenSame DEF Asked30C
  <2>6. step.put = AskedFor(filter, FALSE, u, w)
    BY <1>2, <1>4, <1>7, <2>3, <2>5 DEF AskedOf
  <2>7. step.mem = (n + 2) - e
    BY <1>4, <2>1, <2>3
  <2>8. Knows30(filter, step.mem, u, n + 2, e)
    <3> HIDE DEF step
    <3> QED BY <1>4, <1>7, <2>7 DEF Knows30
  <2> QED BY <1>4, <2>6, <2>8, Zenon DEF n, u, e, w, step
<1> QED BY <1>5, <1>6, <1>7 DEF Text!Filters30

-----------------------------------------------------------------------------
(* Nothing before or behind a text.                                         *)
LEMMA NothingMore ==
  ASSUME NEW V, NEW x \in Seq(V)
  PROVE  <<>> \o x = x /\ x \o <<>> = x
OBVIOUS

(* 4_09_1: whether a word can begin.                                        *)
KnowsBrackets(m, s) == m \in {Text!Start} \cup Text!Blanks <=> SepIn(s, Len(s))

LEMMA SepMore ==
  ASSUME NEW A, NEW s \in Seq(A), NEW c \in A
  PROVE  LET n == Len(s)
             u == Append(s, c)
         IN  /\ n \in Nat /\ Len(u) = n + 1 /\ u[n + 1] = c
             /\ SepIn(u, n + 1) <=> c \in Text!Separators
             /\ \A k \in Int : k <= n => (SepIn(u, k) <=> SepIn(s, k))
<1> DEFINE n == Len(s)
           u == Append(s, c)
<1>1. n \in Nat /\ Len(u) = n + 1 /\ u[n + 1] = c /\ \A k \in 1 .. n : u[k] = s[k]
  OBVIOUS
<1> HIDE DEF n, u
<1>2. SepIn(u, n + 1) <=> c \in Text!Separators
  BY <1>1 DEF SepIn
<1>3. ASSUME NEW k \in Int, k <= n PROVE SepIn(u, k) <=> SepIn(s, k)
  BY <1>1, <1>3 DEF SepIn
<1> QED BY <1>1, <1>2, <1>3, Zenon DEF n, u

LEMMA BracketsStep ==
  ASSUME NEW m, NEW A, NEW s \in Seq(A), NEW c \in A, filter = Text!Brackets, Text!Start \notin A,
         KnowsBrackets(m, s)
  PROVE  LET u == Append(s, c)
             step == Text!print_words_with_brackets(c, m)
         IN  /\ step.put = AskedFor(filter, FALSE, u, Len(u))
             /\ KnowsBrackets(step.mem, u)
<1> DEFINE n == Len(s)
           u == Append(s, c)
           step == Text!print_words_with_brackets(c, m)
           a == Text!When(Text!is_start_of_word(c, m), <<"(">>)
           x == Text!When(c \notin Text!Separators, <<c>>)
           z == Text!When(Text!is_end_of_word(c, m), <<")">>)
           y == Text!When(c \in Text!Separators, <<c>>)
<1>1. /\ n \in Nat /\ Len(u) = n + 1 /\ u[n + 1] = c
      /\ SepIn(u, n + 1) <=> c \in Text!Separators
      /\ SepIn(u, n) <=> SepIn(s, n)
  <2>1. n \in Int /\ n <= n
    OBVIOUS
  <2> HIDE DEF n
  <2> QED BY <2>1, SepMore DEF n
<1>2. step.put = a \o x \o z \o y /\ step.mem = IF c = "\n" THEN Text!Start ELSE c
  BY DEF Text!print_words_with_brackets, Text!When
<1>3. AskedFor(filter, FALSE, u, n + 1) = AskedBrackets(u, n + 1)
  <2> HIDE DEF u, n
  <2>1. AskedOf(filter, FALSE, u, n + 1, StartIn(Ends(filter), u, n + 1))
    BY AskedIs
  <2> QED BY <2>1 DEF AskedOf, Text!Brackets
<1>4. m \in {Text!Start} \cup Text!Blanks <=> SepIn(s, n)
  BY Zenon DEF KnowsBrackets
<1> HIDE DEF n, u, step
<1>5. SepIn(u, (n + 1) - 1) <=> SepIn(s, n)
  <2>1. (n + 1) - 1 = n
    BY <1>1
  <2> QED BY <1>1, <2>1
<1>6. Text!is_start_of_word(c, m) <=> ~SepIn(u, n + 1) /\ SepIn(u, (n + 1) - 1)
  BY <1>1, <1>4, <1>5 DEF Text!is_start_of_word
<1>7. Text!is_end_of_word(c, m) <=> SepIn(u, n + 1) /\ ~SepIn(u, (n + 1) - 1)
  BY <1>1, <1>4, <1>5 DEF Text!is_end_of_word
<1>8. AskedBrackets(u, n + 1) = a \o z \o <<c>>
  <2>1. Text!When(~SepIn(u, n + 1) /\ SepIn(u, (n + 1) - 1), <<"(">>) = a
    BY <1>6 DEF Text!When
  <2>2. Text!When(SepIn(u, n + 1) /\ ~SepIn(u, (n + 1) - 1), <<")">>) = z
    BY <1>7 DEF Text!When
  <2> HIDE DEF a, z
  <2> QED BY <1>1, <2>1, <2>2, Zenon DEF AskedBrackets
<1>9. a \o x \o z \o y = a \o z \o <<c>>
  <2> DEFINE V == {"(", ")", c}
  <2>1. <<"(">> \in Seq(V) /\ <<")">> \in Seq(V) /\ <<c>> \in Seq(V) /\ <<>> \in Seq(V)
    OBVIOUS
  <2>2. a \in Seq(V) /\ z \in Seq(V) /\ <<c>> \in Seq(V)
    BY <2>1, WhenType, Zenon
  <2>3. CASE c \in Text!Separators
    <3>1. x = <<>> /\ y = <<c>> /\ a = <<>>
      BY <2>3 DEF Text!When, Text!is_start_of_word
    <3> HIDE DEF a, z, x, y, V
    <3>2. <<>> \o <<>> = <<>>
      BY <2>1, NothingMore
    <3> QED BY ONLY <3>1, <3>2, Zenon
  <2>4. CASE c \notin Text!Separators
    <3>1. x = <<c>> /\ y = <<>> /\ z = <<>>
      BY <2>4 DEF Text!When, Text!is_end_of_word
    <3> HIDE DEF a, z, x, y
    <3>2. a \o <<c>> \in Seq(V)
      BY <2>2
    <3> DEFINE ac == a \o <<c>>
    <3>3. ac \o <<>> = ac
      <4> HIDE DEF ac
      <4> HIDE DEF V
      <4> QED BY <3>2, NothingMore DEF ac
    <3>4. a \o <<>> = a
      BY <2>2, NothingMore
    <3> QED BY ONLY <3>1, <3>3, <3>4, Zenon DEF ac
  <2> QED BY <2>3, <2>4
<1>10. step.put = AskedFor(filter, FALSE, u, n + 1)
  BY ONLY <1>2, <1>3, <1>8, <1>9, Zenon
<1>11. step.mem \in {Text!Start} \cup Text!Blanks <=> c \in Text!Separators
  <2>1. c # Text!Start
    OBVIOUS
  <2> QED BY <1>2, <2>1 DEF Text!Separators, Text!Blanks
<1>12. KnowsBrackets(step.mem, u)
  BY <1>1, <1>11 DEF KnowsBrackets
<1> QED BY <1>1, <1>10, <1>12, Zenon DEF u, n, step

-----------------------------------------------------------------------------
(* 4_09_2, in the first line: the length of the word that is being read,    *)
(* and its last two characters.                                             *)
MemoryTwo(A) == [symbols : Nat, t_1 : A \cup {Text!Start}, t_2 : A \cup {Text!Start}]
KnowsTwo(A, m, s, n) ==
  /\ m \in MemoryTwo(A)
  /\ m.symbols <= n /\ SepIn(s, n - m.symbols)
  /\ \A k \in (n - m.symbols) + 1 .. n : ~SepIn(s, k)
  /\ m.t_1 = IF m.symbols = 0 THEN Text!Start ELSE s[n]
  /\ m.t_2 = IF m.symbols < 2 THEN Text!Start ELSE s[n - 1]

(* What the variables become.                                               *)
TwoBecomes(m, r, c) ==
  IF Text!is_EOL(m.symbols + 1, c) THEN r.symbols = 0 /\ r.t_1 = Text!Start /\ r.t_2 = Text!Start
  ELSE /\ r.symbols = m.symbols + 1 /\ r.t_1 = c
       /\ r.t_2 = IF m.t_1 # Text!Start THEN m.t_1 ELSE m.t_2

LEMMA StepTwoIs ==
  ASSUME NEW A, NEW m \in MemoryTwo(A), NEW c \in A
  PROVE  Text!StepTwo(m, c).mem \in MemoryTwo(A) /\ TwoBecomes(m, Text!StepTwo(m, c).mem, c)
<1> DEFINE Eol == Text!is_EOL(m.symbols + 1, c)
           kept == IF Eol THEN [symbols |-> 0, t_1 |-> Text!Start, t_2 |-> Text!Start]
                   ELSE [m EXCEPT !.symbols = m.symbols + 1]
           r == Text!StepTwo(m, c).mem
<1>1. r = [kept EXCEPT !.t_2 = IF kept.t_1 # Text!Start THEN kept.t_1 ELSE @,
                       !.t_1 = IF Eol THEN Text!Start ELSE c]
  BY DEF Text!StepTwo
<1> HIDE DEF r
<1>2. CASE Eol
  <2>1. kept = [symbols |-> 0, t_1 |-> Text!Start, t_2 |-> Text!Start]
    BY <1>2
  <2> HIDE DEF kept
  <2>2. r = [symbols |-> 0, t_1 |-> Text!Start, t_2 |-> Text!Start]
    BY <1>1, <1>2, <2>1
  <2>3. r \in MemoryTwo(A) /\ r.symbols = 0 /\ r.t_1 = Text!Start /\ r.t_2 = Text!Start
    BY <2>2 DEF MemoryTwo
  <2> QED BY <1>2, <2>3, Zenon DEF TwoBecomes, r
<1>3. CASE ~Eol
  <2>1. kept = [m EXCEPT !.symbols = m.symbols + 1]
    BY <1>3
  <2>2. kept \in MemoryTwo(A) /\ kept.symbols = m.symbols + 1 /\ kept.t_1 = m.t_1 /\ kept.t_2 = m.t_2
    BY <2>1 DEF MemoryTwo
  <2> HIDE DEF kept
  <2> DEFINE t == IF m.t_1 # Text!Start THEN m.t_1 ELSE m.t_2
  <2>3. t \in A \cup {Text!Start}
    BY DEF MemoryTwo
  <2>4. (IF kept.t_1 # Text!Start THEN kept.t_1 ELSE kept.t_2) = t
    BY <2>2
  <2> HIDE DEF t
  <2>5. r = [[kept EXCEPT !.t_2 = t] EXCEPT !.t_1 = c]
    BY <1>1, <1>3, <2>4, Zenon
  <2>6. r \in MemoryTwo(A) /\ r.symbols = m.symbols + 1 /\ r.t_1 = c /\ r.t_2 = t
    BY <2>2, <2>3, <2>5 DEF MemoryTwo
  <2> QED BY <1>3, <2>6, Zenon DEF TwoBecomes, t, r
<1> QED BY <1>2, <1>3 DEF r

(* Until the line ends.                                                     *)
InFirstLine(A, c, m, u) == c # "\n" => KnowsTwo(A, m, u, Len(u))

(* Three characters.                                                        *)
LEMMA Triple ==
  ASSUME NEW V, NEW x \in V, NEW y \in V, NEW z \in V, NEW f, NEW h,
         f = [i \in 1 .. 3 |-> h[i]], h[1] = x, h[2] = y, h[3] = z
  PROVE  f = <<x, y>> \o <<z>> /\ f \o <<>> = f
<1> DEFINE a == <<x, y>>
           b == <<z>>
           ab == a \o b
<1>1. a \in Seq(V) /\ b \in Seq(V) /\ Len(a) = 2 /\ Len(b) = 1 /\ a[1] = x /\ a[2] = y /\ b[1] = z
  OBVIOUS
<1> HIDE DEF a, b
<1>2. ab \in Seq(V) /\ Len(ab) = 3 /\ ab[1] = x /\ ab[2] = y /\ ab[3] = z
  <2>1. ab \in Seq(V) /\ Len(ab) = Len(a) + Len(b)
    BY <1>1, ConcatProperties
  <2>2. \A i \in 1 .. Len(a) + Len(b) : ab[i] = IF i <= Len(a) THEN a[i] ELSE b[i - Len(a)]
    BY <1>1, ConcatProperties, Zenon
  <2> HIDE DEF ab
  <2>3. ab[1] = a[1] /\ ab[2] = a[2] /\ ab[3] = b[1]
    BY <1>1, <2>2
  <2> QED BY <1>1, <2>1, <2>3
<1> HIDE DEF ab
<1>3. f \in Seq(V) /\ Len(f) = 3 /\ f[1] = x /\ f[2] = y /\ f[3] = z
  <2>1. \A i \in 1 .. 3 : h[i] \in V
    OBVIOUS
  <2>2. f \in [1 .. 3 -> V]
    BY <2>1
  <2>3. f \in Seq(V)
    BY <2>2, SeqDef
  <2>4. Len(f) = 3
    <3>1. DOMAIN f = 1 .. 3
      OBVIOUS
    <3>2. DOMAIN f = 1 .. Len(f) /\ Len(f) \in Nat
      BY <2>3, LenProperties
    <3> QED BY ONLY <3>1, <3>2
  <2> QED BY <2>3, <2>4
<1>4. f = ab
  <2>1. \A i \in 1 .. Len(f) : f[i] = ab[i]
    BY <1>2, <1>3
  <2> QED BY <1>2, <1>3, <2>1, SeqEqual
<1>5. f \o <<>> = f
  BY <1>3, NothingMore
<1> QED BY <1>4, <1>5 DEF ab, a, b

LEMMA TwoStep ==
  ASSUME NEW m, NEW A, NEW s \in Seq(A), NEW c \in A, filter = Text!TwoLetters, Text!Start \notin A,
         KnowsTwo(A, m, s, Len(s))
  PROVE  LET u == Append(s, c)
             step == Text!StepTwo(m, c)
         IN  /\ step.put = AskedFor(filter, FALSE, u, Len(u))
             /\ InFirstLine(A, c, step.mem, u)
<1> DEFINE n == Len(s)
           u == Append(s, c)
           w == Len(u)
           step == Text!StepTwo(m, c)
           r == step.mem
           two == TwoIn(u, w)
<1>1. n \in Nat /\ w = n + 1 /\ u[w] = c /\ \A k \in 1 .. n : u[k] = s[k] /\ s[k] \in A
  OBVIOUS
<1>2. /\ SepIn(u, w) <=> c \in Text!Separators
      /\ \A k \in Int : k <= n => (SepIn(u, k) <=> SepIn(s, k))
  <2>1. /\ SepIn(u, n + 1) <=> c \in Text!Separators
        /\ \A k \in Int : k <= n => (SepIn(u, k) <=> SepIn(s, k))
    BY SepMore, Zenon
  <2> HIDE DEF n, u, w
  <2> QED BY <1>1, <2>1
<1>3. /\ m \in MemoryTwo(A)
      /\ m.symbols <= n /\ SepIn(s, n - m.symbols)
      /\ \A k \in (n - m.symbols) + 1 .. n : ~SepIn(s, k)
      /\ m.t_1 = IF m.symbols = 0 THEN Text!Start ELSE s[n]
      /\ m.t_2 = IF m.symbols < 2 THEN Text!Start ELSE s[n - 1]
  BY Zenon DEF KnowsTwo
<1>4. r \in MemoryTwo(A) /\ TwoBecomes(m, r, c)
  BY <1>3, StepTwoIs, Zenon
<1>5. AskedFor(filter, FALSE, u, w) = AskedTwo(u, w)
  <2> HIDE DEF u, w
  <2>1. AskedOf(filter, FALSE, u, w, StartIn(Ends(filter), u, w))
    BY AskedIs
  <2> QED BY <2>1 DEF AskedOf, Text!TwoLetters
<1>6. step.put = Text!When(m.symbols + 1 = 3 /\ c \in Text!Separators, <<m.t_2, m.t_1>>)
                  \o Text!When(c \in Text!Separators /\ (m.symbols + 1 = 3 \/ c = "\n"), <<c>>)
  BY DEF Text!StepTwo, Text!When, Text!is_to_print_word, Text!is_to_print_end
<1>7. m.symbols \in Nat
  BY <1>3 DEF MemoryTwo
<1> HIDE DEF n, u, w, step, r, two
<1>8. two <=> c \in Text!Separators /\ ~SepIn(s, n) /\ ~SepIn(s, n - 1) /\ SepIn(s, n - 2)
  <2>1. w - 1 = n /\ w - 2 = n - 1 /\ w - 3 = n - 2 /\ n \in Int /\ n - 1 \in Int /\ n - 2 \in Int
        /\ n <= n /\ n - 1 <= n /\ n - 2 <= n
    BY <1>1
  <2> QED BY <1>2, <2>1 DEF TwoIn, two
<1>9. two <=> c \in Text!Separators /\ m.symbols = 2
  <2>1. ASSUME ~SepIn(s, n), ~SepIn(s, n - 1), SepIn(s, n - 2) PROVE m.symbols = 2
    <3>1. m.symbols # 0
      <4>1. m.symbols = 0 => n - m.symbols = n
        BY <1>1
      <4> QED BY <1>3, <2>1, <4>1
    <3>2. m.symbols # 1
      BY <1>3, <2>1
    <3>3. ~(m.symbols > 2)
      <4>1. m.symbols > 2 => n - 2 \in (n - m.symbols) + 1 .. n
        BY <1>1, <1>7
      <4> QED BY <1>3, <2>1, <4>1
    <3> QED BY <1>7, <3>1, <3>2, <3>3
  <2>2. ASSUME m.symbols = 2 PROVE ~SepIn(s, n) /\ ~SepIn(s, n - 1) /\ SepIn(s, n - 2)
    <3>1. n \in (n - 2) + 1 .. n /\ n - 1 \in (n - 2) + 1 .. n
      BY <1>1
    <3> QED BY <1>3, <2>2, <3>1
  <2> QED BY <1>8, <2>1, <2>2
<1>10. step.put = AskedTwo(u, w)
  <2>1. CASE two
    <3>1. m.symbols = 2 /\ c \in Text!Separators /\ n >= 2
      BY <1>3, <1>9, <2>1
    <3>2. m.t_2 = s[n - 1] /\ m.t_1 = s[n]
      BY <1>3, <3>1
    <3>3. step.put = <<s[n - 1], s[n]>> \o <<c>>
      BY <1>6, <3>1, <3>2 DEF Text!When
    <3>4. AskedTwo(u, w) = SubSeq(u, w - 2, w) \o <<>>
      BY <2>1 DEF AskedTwo, two, Text!When
    <3>5. w - 2 = n - 1 /\ w - 2 \in Int /\ w \in Int /\ w - (w - 2) + 1 = 3
      BY <1>1
    <3>6. u[n - 1] = s[n - 1] /\ u[n] = s[n]
      BY <1>1, <3>1
    <3>7. /\ SubSeq(u, w - 2, w) = <<s[n - 1], s[n]>> \o <<c>>
          /\ SubSeq(u, w - 2, w) \o <<>> = SubSeq(u, w - 2, w)
      <4>1. SubSeq(u, w - 2, w) = [i \in 1 .. 3 |-> u[(w - 2) + i - 1]]
        BY <3>5
      <4>2. \A i \in 1 .. 3 : (w - 2) + i - 1 = (IF i = 1 THEN n - 1 ELSE IF i = 2 THEN n ELSE w)
        BY <1>1
      <4>3. \A i \in 1 .. 3 : u[(w - 2) + i - 1] = (IF i = 1 THEN s[n - 1] ELSE IF i = 2 THEN s[n] ELSE c)
        BY <1>1, <3>6, <4>2
      <4> DEFINE h == [i \in 1 .. 3 |-> u[(w - 2) + i - 1]]
      <4>4. h[1] = s[n - 1] /\ h[2] = s[n] /\ h[3] = c
        BY <4>3
      <4>5. h = [i \in 1 .. 3 |-> h[i]]
        OBVIOUS
      <4>6. s[n - 1] \in A /\ s[n] \in A
        BY <1>1, <3>1
      <4> HIDE DEF h
      <4>7. h = <<s[n - 1], s[n]>> \o <<c>> /\ h \o <<>> = h
        BY ONLY <4>4, <4>5, <4>6, c \in A, Triple
      <4> QED BY ONLY <4>1, <4>7, Zenon DEF h
    <3> QED BY ONLY <3>3, <3>4, <3>7, Zenon
  <2>2. CASE ~two
    <3>1. ~(m.symbols + 1 = 3 /\ c \in Text!Separators)
      BY <1>7, <1>9, <2>2
    <3>2. c \in Text!Separators /\ (m.symbols + 1 = 3 \/ c = "\n") <=> u[w] = "\n" /\ ~two
      BY <1>1, <2>2, <3>1 DEF Text!Separators
    <3>3. Text!When(m.symbols + 1 = 3 /\ c \in Text!Separators, <<m.t_2, m.t_1>>) = <<>>
      BY <3>1 DEF Text!When
    <3>4. Text!When(c \in Text!Separators /\ (m.symbols + 1 = 3 \/ c = "\n"), <<c>>) = Text!When(u[w] = "\n" /\ ~two, <<u[w]>>)
      BY <1>1, <3>2 DEF Text!When
    <3>5. AskedTwo(u, w) = <<>> \o Text!When(u[w] = "\n" /\ ~two, <<u[w]>>)
      BY <2>2 DEF AskedTwo, two, Text!When
    <3> QED BY <1>6, <3>3, <3>4, <3>5, Zenon
  <2> QED BY <2>1, <2>2
<1>11. ASSUME c # "\n" PROVE KnowsTwo(A, r, u, w)
  <2>1. Text!is_EOL(m.symbols + 1, c) <=> c \in Text!Separators
    BY <1>11 DEF Text!is_EOL
  <2>2. CASE c \in Text!Separators
    <3>1. r.symbols = 0 /\ r.t_1 = Text!Start /\ r.t_2 = Text!Start
      BY <1>4, <2>1, <2>2 DEF TwoBecomes
    <3>2. r.symbols <= w /\ w - r.symbols = w /\ (w - r.symbols) + 1 .. w = {}
      BY <1>1, <3>1
    <3>3. SepIn(u, w - r.symbols)
      BY <1>2, <2>2, <3>2
    <3> QED BY <1>4, <3>1, <3>2, <3>3 DEF KnowsTwo
  <2>3. CASE c \notin Text!Separators
    <3>1. /\ r.symbols = m.symbols + 1 /\ r.t_1 = c
          /\ r.t_2 = IF m.t_1 # Text!Start THEN m.t_1 ELSE m.t_2
      BY <1>4, <2>1, <2>3 DEF TwoBecomes
    <3>2. r.symbols <= w /\ w - r.symbols = n - m.symbols /\ n - m.symbols \in Int /\ n - m.symbols <= n
      <4>1. m.symbols <= n /\ m.symbols \in Nat /\ n \in Nat /\ w = n + 1 /\ r.symbols = m.symbols + 1
        BY <1>1, <1>3, <1>7, <3>1
      <4> QED BY ONLY <4>1
    <3>3. SepIn(u, w - r.symbols)
      BY <1>2, <1>3, <3>2
    <3>4. ASSUME NEW k \in (w - r.symbols) + 1 .. w PROVE ~SepIn(u, k)
      <4>1. k = w \/ (k \in (n - m.symbols) + 1 .. n /\ k \in Int /\ k <= n)
        BY <1>1, <3>2
      <4> QED BY <1>2, <1>3, <2>3, <4>1
    <3>5. r.t_1 = IF r.symbols = 0 THEN Text!Start ELSE u[w]
      BY <1>1, <1>7, <3>1
    <3>6. r.t_2 = IF r.symbols < 2 THEN Text!Start ELSE u[w - 1]
      <4>1. CASE m.symbols = 0
        BY <1>3, <3>1, <4>1
      <4>2. CASE m.symbols # 0
        <5>1. n \in 1 .. n /\ w - 1 = n
          BY <1>1, <1>3, <1>7, <4>2
        <5>2. m.t_1 = s[n] /\ s[n] # Text!Start /\ u[n] = s[n]
          BY <1>1, <1>3, <4>2, <5>1
        <5>3. ~(r.symbols < 2)
          BY <1>7, <3>1, <4>2
        <5> QED BY <3>1, <5>1, <5>2, <5>3
      <4> QED BY <4>1, <4>2
    <3> QED BY <1>4, <3>2, <3>3, <3>4, <3>5, <3>6, Zenon DEF KnowsTwo
  <2> QED BY <2>2, <2>3
<1> QED BY <1>5, <1>10, <1>11, Zenon DEF u, w, r, step, InFirstLine

-----------------------------------------------------------------------------
(* 2_53: the length of the line, and whether it is kept.  With the bytes    *)
(* dirty no line is.                                                        *)
MemoryLengths == [current_line_len : Int, write_to_txt : BOOLEAN, dirty : BOOLEAN]
KnowsLengths(m, s, j, l) ==
  /\ m \in MemoryLengths
  /\ m.dirty => ~m.write_to_txt
  /\ ~m.dirty => /\ m.current_line_len = j - l
                 /\ m.write_to_txt <=> l # j /\ s[l] = SpaceChar

HasLengths(r, m, long, keep) ==
  r \in MemoryLengths /\ r.dirty = m.dirty /\ r.current_line_len = long /\ r.write_to_txt = keep

LEMMA PutLengths ==
  ASSUME NEW m \in MemoryLengths, NEW long \in Int, NEW keep \in BOOLEAN,
         NEW r, r = [m EXCEPT !.current_line_len = long, !.write_to_txt = keep]
  PROVE  HasLengths(r, m, long, keep)
BY DEF MemoryLengths, HasLengths

LEMMA LengthsStep ==
  ASSUME NEW m, NEW A, NEW s \in Seq(A), NEW c \in A, filter = Text!LineLengths,
         KnowsLengths(m, s, Len(s) + 1, StartIn(Text!LineEnds, s, Len(s) + 1))
  PROVE  LET u == Append(s, c)
             step == Text!StepLength(m, c)
         IN  /\ step.put = AskedFor(filter, m.dirty, u, Len(u))
             /\ step.mem.dirty = m.dirty
             /\ KnowsLengths(step.mem, u, Len(u) + 1, StartIn(Text!LineEnds, u, Len(u) + 1))
<1> DEFINE n == Len(s)
           u == Append(s, c)
           E == Text!LineEnds
           l == StartIn(E, s, n + 1)
           e == StartIn(E, u, n + 2)
           step == Text!StepLength(m, c)
           r == step.mem
           sees == IF m.dirty THEN "unknown" ELSE c
           keeps == m.write_to_txt \/ (m.current_line_len = 0 /\ sees = " ")
           txt == IF keeps THEN <<<<"txt", c>>>> ELSE <<>>
           wanted == AskedFor(filter, m.dirty, u, n + 1)
<1>1. More(A, E, s, c, u, n, l)
  BY OneLineMore, Zenon
<1>2. KnowsLengths(m, s, n + 1, l)
  OBVIOUS
<1>3. IF sees \in E
      THEN /\ r = [m EXCEPT !.current_line_len = 0, !.write_to_txt = FALSE]
           /\ step.put = <<<<"bin", m.current_line_len>>>> \o txt
      ELSE /\ r = [m EXCEPT !.current_line_len = m.current_line_len + 1, !.write_to_txt = keeps]
           /\ step.put = txt
  <2> HIDE DEF u, n, l, e
  <2> QED BY DEF Text!StepLength
<1>4. wanted = AskedLengths(u, n + 1, l, m.dirty)
  <2>1. StartIn(Ends(filter), u, n + 1) = l
    <3>1. StartIn(E, u, n + 1) = l
      BY <1>1, Zenon DEF More
    <3>2. Ends(filter) = E
      BY DEF Ends, Text!LineLengths
    <3> HIDE DEF u, n, l, E
    <3> QED BY ONLY <3>1, <3>2, Zenon
  <2> HIDE DEF u, n, l
  <2>2. AskedOf(filter, m.dirty, u, n + 1, l)
    BY <2>1, AskedIs, Zenon
  <2> QED BY <2>2 DEF AskedOf, Text!LineLengths
<1> HIDE DEF l, n, u, e, step, r, wanted
<1>5. /\ n \in Nat /\ l \in 1 .. n + 1 /\ u[n + 1] = c /\ \A k \in 1 .. n : u[k] = s[k]
      /\ Len(u) = n + 1 /\ (n + 1) + 1 = n + 2
      /\ c \in E => e = n + 2
      /\ c \notin E => e = l
  <2> HIDE DEF E
  <2>1. /\ n \in Nat /\ l \in 1 .. n + 1 /\ u[n + 1] = c /\ \A k \in 1 .. n : u[k] = s[k]
        /\ Len(u) = n + 1
        /\ c \in E => e = n + 2
        /\ c \notin E => e = l
    BY <1>1, Zenon DEF More, e
  <2> QED BY <2>1
<1>6. m \in MemoryLengths /\ m.dirty \in BOOLEAN /\ m.write_to_txt \in BOOLEAN
  BY <1>2 DEF KnowsLengths, MemoryLengths
<1>7. CASE m.dirty
  <2>1. sees = "unknown" /\ sees \notin E /\ ~m.write_to_txt
    <3>1. sees = "unknown" /\ ~m.write_to_txt
      BY <1>2, <1>7 DEF KnowsLengths
    <3>2. "unknown" \notin Text!LineEnds
      BY Zenon DEF Text!LineEnds
    <3> QED BY <3>1, <3>2
  <2>2. ~keeps
    BY <2>1
  <2>3. r = [m EXCEPT !.current_line_len = m.current_line_len + 1, !.write_to_txt = keeps] /\ step.put = <<>>
    BY <1>3, <2>1, <2>2
  <2>4. wanted = <<>>
    <3>1. <<>> \o <<>> = <<>>
      OBVIOUS
    <3>2. wanted = <<>> \o <<>>
      BY <1>4, <1>7 DEF AskedLengths, Text!When
    <3> QED BY <3>1, <3>2
  <2> DEFINE k0 == keeps
  <2>5. k0 \in BOOLEAN /\ ~k0
    BY <2>2, Zenon
  <2> HIDE DEF keeps, k0
  <2>6. r \in MemoryLengths /\ r.dirty = m.dirty /\ r.write_to_txt = k0
    <3>1. m.current_line_len + 1 \in Int
      BY <1>6 DEF MemoryLengths
    <3>2. HasLengths(r, m, m.current_line_len + 1, k0)
      BY ONLY <1>6, <2>3, <2>5, <3>1, PutLengths, Zenon DEF k0
    <3> QED BY <3>2 DEF HasLengths
  <2>7. KnowsLengths(r, u, n + 2, e)
    BY <1>7, <2>5, <2>6 DEF KnowsLengths
  <2> QED BY <1>5, <2>3, <2>4, <2>6, <2>7, Zenon DEF wanted, u, e, r, step
<1>8. CASE ~m.dirty
  <2>1. sees = c
    BY <1>8
  <2>2. /\ m.current_line_len = (n + 1) - l
        /\ m.write_to_txt <=> l # n + 1 /\ s[l] = SpaceChar
    BY <1>2, <1>8 DEF KnowsLengths
  <2>3. keeps <=> u[l] = SpaceChar
    <3>0. keeps <=> m.write_to_txt \/ (m.current_line_len = 0 /\ c = SpaceChar)
      BY ONLY <2>1, Zenon DEF keeps, SpaceChar
    <3> HIDE DEF keeps
    <3>1. CASE l = n + 1
      BY <1>5, <2>2, <3>0, <3>1
    <3>2. CASE l # n + 1
      <4>1. u[l] = s[l] /\ m.current_line_len # 0
        BY <1>5, <2>2, <3>2
      <4> QED BY <2>2, <3>0, <3>2, <4>1
    <3> QED BY <3>1, <3>2
  <2>4. txt = Text!When(u[l] = SpaceChar /\ ~m.dirty, <<<<"txt", c>>>>)
    BY <1>8, <2>3 DEF Text!When
  <2>5. wanted = Text!When(c \in E /\ ~m.dirty, <<<<"bin", m.current_line_len>>>>) \o txt
    <3>1. u[n + 1] = c
      BY <1>5
    <3> HIDE DEF txt
    <3> QED BY <1>4, <2>2, <2>4, <3>1, Zenon DEF AskedLengths, E
  <2> DEFINE k0 == keeps
  <2>6. k0 \in BOOLEAN
    BY Zenon
  <2>7. CASE c \in E
    <3>1. r = [m EXCEPT !.current_line_len = 0, !.write_to_txt = FALSE]
          /\ step.put = <<<<"bin", m.current_line_len>>>> \o txt
      BY <1>3, <2>1, <2>7
    <3>2. step.put = wanted
      <4>1. Text!When(c \in E /\ ~m.dirty, <<<<"bin", m.current_line_len>>>>) = <<<<"bin", m.current_line_len>>>>
        BY <1>8, <2>7 DEF Text!When
      <4> HIDE DEF txt, E
      <4> QED BY <2>5, <3>1, <4>1, Zenon
    <3>3. r \in MemoryLengths /\ r.dirty = m.dirty /\ r.current_line_len = 0 /\ ~r.write_to_txt
      <4>1. HasLengths(r, m, 0, FALSE)
        <5>1. 0 \in Int /\ FALSE \in BOOLEAN
          OBVIOUS
        <5>2. r = [m EXCEPT !.current_line_len = 0, !.write_to_txt = FALSE]
          BY <3>1
        <5> HIDE DEF keeps
        <5> QED BY ONLY <1>6, <5>1, <5>2, PutLengths, Zenon
      <4> QED BY <4>1 DEF HasLengths
    <3>4. e = n + 2 /\ (n + 2) - e = 0
      BY <1>5, <2>7
    <3>5. KnowsLengths(r, u, n + 2, e)
      BY <3>3, <3>4 DEF KnowsLengths
    <3> QED BY <1>5, <3>2, <3>3, <3>5, Zenon DEF wanted, u, e, r, step
  <2>8. CASE c \notin E
    <3>1. r = [m EXCEPT !.current_line_len = m.current_line_len + 1, !.write_to_txt = keeps]
          /\ step.put = txt
      BY <1>3, <2>1, <2>8
    <3>2. step.put = wanted
      <4>1. Text!When(c \in E /\ ~m.dirty, <<<<"bin", m.current_line_len>>>>) = <<>>
        BY <2>8 DEF Text!When
      <4>2. <<>> \o txt = txt
        <5>1. txt = <<>> \/ txt = <<<<"txt", c>>>>
          BY Zenon
        <5>2. txt \in Seq({<<"txt", c>>})
          <6>1. <<>> \in Seq({<<"txt", c>>}) /\ <<<<"txt", c>>>> \in Seq({<<"txt", c>>})
            OBVIOUS
          <6> HIDE DEF txt
          <6> QED BY <5>1, <6>1
        <5> HIDE DEF txt
        <5> QED BY <5>2, NothingMore
      <4> HIDE DEF txt, E
      <4> QED BY <2>5, <3>1, <4>1, <4>2, Zenon
    <3> HIDE DEF keeps, k0
    <3>3. r \in MemoryLengths /\ r.dirty = m.dirty /\ r.current_line_len = m.current_line_len + 1
          /\ r.write_to_txt = k0
      <4>1. m.current_line_len + 1 \in Int
        BY <1>6 DEF MemoryLengths
      <4>2. HasLengths(r, m, m.current_line_len + 1, k0)
        BY ONLY <1>6, <2>6, <3>1, <4>1, PutLengths, Zenon DEF k0
      <4> QED BY <4>2 DEF HasLengths
    <3>4. e = l /\ l # n + 2 /\ (n + 2) - l = ((n + 1) - l) + 1
      BY <1>5, <2>8
    <3>5. k0 <=> u[l] = SpaceChar
      BY <2>3, Zenon DEF k0
    <3>6. KnowsLengths(r, u, n + 2, e)
      BY <1>8, <2>2, <3>3, <3>4, <3>5 DEF KnowsLengths
    <3> QED BY <1>5, <3>2, <3>3, <3>6, Zenon DEF wanted, u, e, r, step
  <2> QED BY <2>7, <2>8
<1> QED BY <1>6, <1>7, <1>8

-----------------------------------------------------------------------------
(* What each program remembers of the text it has read.                     *)
Clean(s, n) == \A i \in 1 .. n : s[i] # "\n"
Knows(p, m, s) ==
  LET j == Len(s) + 1
      l == StartIn(Ends(p), s, j)
  IN  /\ p \in Text!Filters28 => Knows28(p, m, s, j, l)
      /\ p \in Text!Filters30 => Knows30(p, m, s, j, l)
      /\ p = Text!Brackets => KnowsBrackets(m, s)
      /\ p = Text!TwoLetters /\ Clean(s, Len(s)) => KnowsTwo(Alphabet[p], m, s, Len(s))
      /\ p = Text!LineLengths => KnowsLengths(m, s, j, l)

(* Which program's step is taken.                                           *)
LEMMA StepOf ==
  ASSUME NEW c
  PROVE  /\ filter \in Text!Filters28 => Text!Step(c) = Text!Step28(mem, c)
         /\ filter \in Text!Filters30 => Text!Step(c) = Text!Step30(mem, c)
         /\ filter = Text!Brackets => Text!Step(c) = Text!print_words_with_brackets(c, mem)
         /\ filter = Text!TwoLetters => Text!Step(c) = Text!StepTwo(mem, c)
         /\ filter = Text!LineLengths => Text!Step(c) = Text!StepLength(mem, c)
<1> DEFINE a == Text!Step28(mem, c)
           b == Text!Step30(mem, c)
           d == Text!print_words_with_brackets(c, mem)
           e == Text!StepTwo(mem, c)
           f == Text!StepCount(mem, c)
           g == Text!StepLine(mem, c)
           h == Text!StepLength(mem, c)
           S == Text!Step(c)
<1>1. S = CASE filter \in Text!Filters28 -> a
            [] filter \in Text!Filters30 -> b
            [] filter = Text!Brackets -> d
            [] filter = Text!TwoLetters -> e
            [] filter = Text!WordCount -> f
            [] filter = Text!Statistics -> g
            [] filter = Text!LineLengths -> h
  BY Zenon DEF Text!Step
<1> HIDE DEF a, b, d, e, f, g, h, S
<1>2. filter \in Text!Filters28 => S = a
  BY <1>1 DEF Text!Filters28, Text!Filters30, Text!Brackets, Text!TwoLetters, Text!WordCount, Text!Statistics, Text!LineLengths
<1>3. filter \in Text!Filters30 => S = b
  BY <1>1 DEF Text!Filters28, Text!Filters30, Text!Brackets, Text!TwoLetters, Text!WordCount, Text!Statistics, Text!LineLengths
<1>4. filter = Text!Brackets => S = d
  BY <1>1 DEF Text!Filters28, Text!Filters30, Text!Brackets, Text!TwoLetters, Text!WordCount, Text!Statistics, Text!LineLengths
<1>5. filter = Text!TwoLetters => S = e
  BY <1>1 DEF Text!Filters28, Text!Filters30, Text!Brackets, Text!TwoLetters, Text!WordCount, Text!Statistics, Text!LineLengths
<1>6. filter = Text!LineLengths => S = h
  BY <1>1 DEF Text!Filters28, Text!Filters30, Text!Brackets, Text!TwoLetters, Text!WordCount, Text!Statistics, Text!LineLengths
<1> QED BY <1>2, <1>3, <1>4, <1>5, <1>6, Zenon DEF a, b, d, e, h, S

(* A step puts out what is asked for, and what is remembered stays true.    *)
LEMMA TextStep ==
  ASSUME NEW A, text \in Seq(A), NEW c \in A, A = Alphabet[filter], filter \in DOMAIN Alphabet,
         filter \in Asked, TextSizes, Knows(filter, mem, text)
  PROVE  LET u == Append(text, c) IN
         /\ Knows(filter, Text!Step(c).mem, u)
         /\ (filter = Text!TwoLetters => Clean(text, Len(text)))
              => Text!Step(c).put = AskedFor(filter, Dirty, u, Len(u))
         /\ filter = "2_53" => Text!Step(c).mem.dirty = mem.dirty
<1> DEFINE u == Append(text, c)
           l == StartIn(Ends(filter), text, Len(text) + 1)
           e == StartIn(Ends(filter), u, Len(u) + 1)
           S == Text!Step(c)
<1> USE DEF Text!Brackets, Text!TwoLetters, Text!LineLengths
<1>1. Text!Start \notin A
  BY Zenon DEF TextSizes
<1>2. CASE filter \in Text!Filters28
  <2>1. filter \notin Text!Filters30 \cup {"4_09_1", "4_09_2", "2_53"} /\ Ends(filter) = {"\n"}
    BY <1>2 DEF Text!Filters28, Text!Filters30, Ends
  <2>2. Knows28(filter, mem, text, Len(text) + 1, StartIn({"\n"}, text, Len(text) + 1))
    BY <1>2, <2>1, Zenon DEF Knows
  <2>3. /\ Text!Step28(mem, c).put = AskedFor(filter, FALSE, u, Len(u))
        /\ Knows28(filter, Text!Step28(mem, c).mem, u, Len(u) + 1, StartIn({"\n"}, u, Len(u) + 1))
    BY <1>2, <2>2, Step28Is, Zenon
  <2>4. S = Text!Step28(mem, c) /\ Dirty = FALSE
    BY <1>2, <2>1, StepOf DEF Dirty
  <2> HIDE DEF u, S
  <2>5. Knows28(filter, S.mem, u, Len(u) + 1, StartIn(Ends(filter), u, Len(u) + 1))
    BY ONLY <2>1, <2>3, <2>4, Zenon
  <2>6. Knows(filter, S.mem, u)
    BY <2>1, <2>5, Zenon DEF Knows
  <2> QED BY <2>1, <2>3, <2>4, <2>6, Zenon DEF S, u
<1>3. CASE filter \in Text!Filters30
  <2>1. filter \notin Text!Filters28 \cup {"4_09_1", "4_09_2", "2_53"} /\ Ends(filter) = {"\n"}
    BY <1>3 DEF Text!Filters28, Text!Filters30, Ends
  <2>2. Knows30(filter, mem, text, Len(text) + 1, StartIn({"\n"}, text, Len(text) + 1))
    BY <1>3, <2>1, Zenon DEF Knows
  <2>3. /\ Text!Step30(mem, c).put = AskedFor(filter, FALSE, u, Len(u))
        /\ Knows30(filter, Text!Step30(mem, c).mem, u, Len(u) + 1, StartIn({"\n"}, u, Len(u) + 1))
    BY <1>3, <2>2, Step30Is, Zenon
  <2>4. S = Text!Step30(mem, c) /\ Dirty = FALSE
    BY <1>3, <2>1, StepOf DEF Dirty
  <2> HIDE DEF u, S
  <2>5. Knows30(filter, S.mem, u, Len(u) + 1, StartIn(Ends(filter), u, Len(u) + 1))
    BY ONLY <2>1, <2>3, <2>4, Zenon
  <2>6. Knows(filter, S.mem, u)
    BY <2>1, <2>5, Zenon DEF Knows
  <2> QED BY <2>1, <2>3, <2>4, <2>6, Zenon DEF S, u
<1>4. CASE filter = "4_09_1"
  <2>1. filter \notin Text!Filters28 \cup Text!Filters30 \cup {"4_09_2", "2_53"}
    BY <1>4 DEF Text!Filters28, Text!Filters30
  <2>2. KnowsBrackets(mem, text)
    BY <1>4, Zenon DEF Knows
  <2>3. /\ Text!print_words_with_brackets(c, mem).put = AskedFor(filter, FALSE, u, Len(u))
        /\ KnowsBrackets(Text!print_words_with_brackets(c, mem).mem, u)
    BY <1>1, <1>4, <2>2, BracketsStep, Zenon
  <2>4. S = Text!print_words_with_brackets(c, mem) /\ Dirty = FALSE
    BY <1>4, StepOf DEF Dirty
  <2> HIDE DEF u, S
  <2>5. KnowsBrackets(S.mem, u)
    BY ONLY <2>3, <2>4, Zenon
  <2>6. Knows(filter, S.mem, u)
    BY <2>1, <2>5, Zenon DEF Knows
  <2> QED BY <2>1, <2>3, <2>4, <2>6, Zenon DEF S, u
<1>5. CASE filter = "4_09_2"
  <2>1. filter \notin Text!Filters28 \cup Text!Filters30 \cup {"4_09_1", "2_53"}
    BY <1>5 DEF Text!Filters28, Text!Filters30
  <2>2. S = Text!StepTwo(mem, c) /\ Dirty = FALSE
    BY <1>5, StepOf DEF Dirty
  <2>3. Clean(u, Len(u)) => Clean(text, Len(text)) /\ c # "\n"
    <3>1. /\ Len(text) \in Nat /\ Len(u) = Len(text) + 1 /\ u[Len(text) + 1] = c
          /\ \A k \in 1 .. Len(text) : u[k] = text[k]
      OBVIOUS
    <3> DEFINE n == Len(text)
    <3> HIDE DEF u, n
    <3>2. Len(text) = n
      BY DEF n
    <3> QED BY <3>1, <3>2 DEF Clean
  <2>4. ASSUME Clean(text, Len(text))
        PROVE  /\ S.put = AskedFor(filter, Dirty, u, Len(u))
               /\ InFirstLine(A, c, S.mem, u)
    <3>1. KnowsTwo(A, mem, text, Len(text))
      BY <1>5, <2>4, Zenon DEF Knows
    <3>2. /\ Text!StepTwo(mem, c).put = AskedFor(filter, FALSE, u, Len(u))
          /\ InFirstLine(A, c, Text!StepTwo(mem, c).mem, u)
      <4> HIDE DEF Text!TwoLetters
      <4>1. filter = Text!TwoLetters
        BY <1>5 DEF Text!TwoLetters
      <4> QED BY ONLY text \in Seq(A), c \in A, <1>1, <4>1, <3>1, TwoStep, Zenon DEF u
    <3> HIDE DEF u, S
    <3> QED BY ONLY <2>2, <3>2, Zenon
  <2> HIDE DEF u, S
  <2>5. Knows(filter, S.mem, u)
    BY <2>1, <2>3, <2>4, Zenon DEF Knows, InFirstLine
  <2> QED BY <1>5, <2>1, <2>4, <2>5, Zenon DEF S, u
<1>6. CASE filter = "2_53"
  <2>1. filter \notin Text!Filters28 \cup Text!Filters30 \cup {"4_09_1", "4_09_2"} /\ Ends(filter) = Text!LineEnds
    BY <1>6 DEF Text!Filters28, Text!Filters30, Ends
  <2>2. KnowsLengths(mem, text, Len(text) + 1, StartIn(Text!LineEnds, text, Len(text) + 1))
    BY <1>6, <2>1, Zenon DEF Knows
  <2>3. /\ Text!StepLength(mem, c).put = AskedFor(filter, mem.dirty, u, Len(u))
        /\ Text!StepLength(mem, c).mem.dirty = mem.dirty
        /\ KnowsLengths(Text!StepLength(mem, c).mem, u, Len(u) + 1, StartIn(Text!LineEnds, u, Len(u) + 1))
    BY <1>6, <2>2, LengthsStep, Zenon
  <2>4. S = Text!StepLength(mem, c)
    BY <1>6, StepOf
  <2>5. Dirty = mem.dirty
    <3>1. mem.dirty \in BOOLEAN
      BY <2>2 DEF KnowsLengths, MemoryLengths
    <3> QED BY <1>6, <3>1 DEF Dirty
  <2> HIDE DEF u, S
  <2>6. KnowsLengths(S.mem, u, Len(u) + 1, StartIn(Ends(filter), u, Len(u) + 1))
    BY ONLY <2>1, <2>3, <2>4, Zenon
  <2>7. Knows(filter, S.mem, u)
    BY <2>1, <2>6, Zenon DEF Knows
  <2>8. S.put = AskedFor(filter, Dirty, u, Len(u)) /\ S.mem.dirty = mem.dirty
    BY ONLY <2>3, <2>4, <2>5, Zenon
  <2> QED BY <2>7, <2>8, Zenon DEF S, u
<1> QED BY <1>2, <1>3, <1>4, <1>5, <1>6 DEF Asked, Text!Filters28, Text!Filters30

(* What is put out are characters, brackets, and what goes to a file.       *)
Output(A) == (A \cup {"(", ")"}) \cup ({"bin", "txt"} \X (Int \cup A))

LEMMA AskedType ==
  ASSUME NEW A, NEW p \in Asked, NEW dirty, NEW s \in Seq(A), NEW i \in 1 .. Len(s)
  PROVE  AskedFor(p, dirty, s, i) \in Seq(Output(A))
<1> DEFINE l == StartIn(Ends(p), s, i)
           V == Output(A)
<1>1. l \in 1 .. i /\ s[i] \in A
  BY StartIs
<1> HIDE DEF l
<1>2. AskedOf(p, dirty, s, i, l)
  BY AskedIs, Zenon DEF l
<1>3. A \subseteq V /\ "(" \in V /\ ")" \in V /\ <<"bin", i - l>> \in V /\ <<"txt", s[i]>> \in V
  BY <1>1 DEF Output
<1>4. \A x \in V : <<x>> \in Seq(V)
  OBVIOUS
<1> HIDE DEF V
<1>5. \A test, x : x \in V => Text!When(test, <<x>>) \in Seq(V)
  BY <1>4, WhenType
<1>6. \A x, y : x \in Seq(V) /\ y \in Seq(V) => x \o y \in Seq(V)
  BY ConcatProperties
<1>7. s[i] \in V
  BY <1>1, <1>3
<1>8. CASE p \in {"5_28A", "5_28B", "5_28C", "5_30A", "5_30B", "5_30C"}
  <2>1. Asked28A(s, i) \in Seq(V) /\ AskedB(s, i, l) \in Seq(V) /\ Asked28C(s, i, l) \in Seq(V)
    BY <1>5, <1>7, Zenon DEF Asked28A, AskedB, Asked28C
  <2>2. Asked30A(s, i) \in Seq(V) /\ Asked30C(s, i, l) \in Seq(V)
    BY <1>5, <1>7, Zenon DEF Asked30A, Asked30C
  <2> QED BY <1>2, <1>8, <2>1, <2>2 DEF AskedOf, V
<1>9. CASE p = "5_28D"
  <2>1. Asked28D(s, i, l) \in Seq(V)
    BY <1>5, <1>6, <1>7, Zenon DEF Asked28D
  <2> QED BY <1>2, <1>9, <2>1 DEF AskedOf, V
<1>10. CASE p = "4_09_1"
  <2>1. <<s[i]>> \in Seq(V)
    BY <1>4, <1>7
  <2>2. AskedBrackets(s, i) \in Seq(V)
    BY <1>3, <1>5, <1>6, <2>1, Zenon DEF AskedBrackets
  <2> QED BY <1>2, <1>10, <2>2 DEF AskedOf, V
<1>11. CASE p = "2_53"
  <2>1. AskedLengths(s, i, l, dirty) \in Seq(V)
    BY <1>3, <1>5, <1>6, Zenon DEF AskedLengths
  <2> QED BY <1>2, <1>11, <2>1 DEF AskedOf, V
<1>12. CASE p = "4_09_2"
  <2>1. Text!When(TwoIn(s, i), SubSeq(s, i - 2, i)) \in Seq(V)
    <3>1. CASE TwoIn(s, i)
      <4>1. ~(i - 2 < 1)
        BY <3>1 DEF TwoIn, SepIn
      <4>2. SubSeq(s, i - 2, i) \in Seq(A)
        BY <4>1, SubSeqProperties
      <4>3. SubSeq(s, i - 2, i) \in Seq(V)
        BY <1>3, <4>2, SeqMonotonic
      <4> QED BY <4>3, WhenType, Zenon
    <3>2. CASE ~TwoIn(s, i)
      <4>1. <<>> \in Seq(V)
        OBVIOUS
      <4> QED BY <3>2, <4>1 DEF Text!When
    <3> QED BY <3>1, <3>2
  <2>2. AskedTwo(s, i) \in Seq(V)
    BY <1>5, <1>6, <1>7, <2>1, Zenon DEF AskedTwo
  <2> QED BY <1>2, <1>12, <2>2 DEF AskedOf, V
<1> QED BY <1>8, <1>9, <1>10, <1>11, <1>12 DEF Asked

(* All that is asked for a text.                                            *)
AllAsked(p, dirty, s) == FlattenSeq([i \in 1 .. Len(s) |-> AskedFor(p, dirty, s, i)])

LEMMA AllAskedType ==
  ASSUME NEW A, NEW p \in Asked, NEW dirty, NEW s \in Seq(A)
  PROVE  /\ [i \in 1 .. Len(s) |-> AskedFor(p, dirty, s, i)] \in Seq(Seq(Output(A)))
         /\ AllAsked(p, dirty, s) \in Seq(Output(A))
<1> DEFINE f == [i \in 1 .. Len(s) |-> AskedFor(p, dirty, s, i)]
<1>1. f \in [1 .. Len(s) -> Seq(Output(A))]
  <2>1. \A i \in 1 .. Len(s) : AskedFor(p, dirty, s, i) \in Seq(Output(A))
    BY AskedType
  <2> QED BY <2>1, Zenon
<1>2. Len(s) \in Nat
  OBVIOUS
<1> HIDE DEF f
<1>3. f \in Seq(Seq(Output(A)))
  <2> DEFINE W == Seq(Output(A))
  <2> HIDE DEF W
  <2>1. f \in [1 .. Len(s) -> W]
    BY <1>1 DEF W
  <2>2. f \in Seq(W)
    BY <1>2, <2>1, SeqDef
  <2> QED BY <2>2 DEF W
<1> QED BY <1>3, FlattenType, Zenon DEF AllAsked, f

LEMMA AllAskedMore ==
  ASSUME NEW A, NEW p \in Asked, NEW dirty, NEW s \in Seq(A), NEW c \in A
  PROVE  AllAsked(p, dirty, Append(s, c))
           = AllAsked(p, dirty, s) \o AskedFor(p, dirty, Append(s, c), Len(Append(s, c)))
<1> DEFINE n == Len(s)
           u == Append(s, c)
           x == AskedFor(p, dirty, u, n + 1)
           f == [i \in 1 .. n |-> AskedFor(p, dirty, s, i)]
           g == [i \in 1 .. n + 1 |-> AskedFor(p, dirty, u, i)]
<1>1. n \in Nat /\ Len(u) = n + 1 /\ u \in Seq(A) /\ \A k \in 1 .. n : u[k] = s[k]
  OBVIOUS
<1> HIDE DEF n, u
<1>2. x \in Seq(Output(A))
  <2>1. n + 1 \in 1 .. Len(u)
    BY <1>1
  <2> QED BY <1>1, <2>1, AskedType, Zenon
<1>3. f \in Seq(Seq(Output(A)))
  BY AllAskedType, Zenon DEF n
<1>4. g \in Seq(Seq(Output(A)))
  <2>1. [i \in 1 .. Len(u) |-> AskedFor(p, dirty, u, i)] \in Seq(Seq(Output(A)))
    BY <1>1, AllAskedType, Zenon
  <2> QED BY <1>1, <2>1, Zenon
<1>5. \A i \in 1 .. n : AskedFor(p, dirty, u, i) = AskedFor(p, dirty, s, i)
  <2> SUFFICES ASSUME NEW i \in 1 .. n PROVE AskedFor(p, dirty, u, i) = AskedFor(p, dirty, s, i)
    OBVIOUS
  <2>1. i \in Nat \ {0} /\ \A k \in 1 .. i : u[k] = s[k]
    BY <1>1
  <2> QED BY <2>1, AskedSame, Zenon
<1>6. g = Append(f, x)
  <2> DEFINE a == Append(f, x)
  <2>1. Len(f) = n /\ Len(g) = n + 1
    BY <1>1
  <2>2. \A i \in 1 .. n : f[i] = AskedFor(p, dirty, s, i)
    OBVIOUS
  <2>3. (\A i \in 1 .. n : g[i] = AskedFor(p, dirty, u, i)) /\ g[n + 1] = x
    BY <1>1
  <2> HIDE DEF f, g, x
  <2>4. a \in Seq(Seq(Output(A))) /\ Len(a) = n + 1 /\ a[n + 1] = x /\ \A i \in 1 .. n : a[i] = f[i]
    BY <1>1, <1>2, <1>3, <2>1, AppendProperties
  <2> HIDE DEF a
  <2>5. \A i \in 1 .. Len(g) : g[i] = a[i]
    <3> SUFFICES ASSUME NEW i \in 1 .. n + 1 PROVE g[i] = a[i]
      BY <2>1
    <3>1. CASE i = n + 1
      BY <2>3, <2>4, <3>1
    <3>2. CASE i # n + 1
      <4>1. i \in 1 .. n
        BY <1>1, <3>2
      <4> QED BY <1>5, <2>2, <2>3, <2>4, <4>1
    <3> QED BY <3>1, <3>2
  <2> QED BY <1>4, <2>1, <2>4, <2>5, SeqEqual DEF a
<1> HIDE DEF f, g, x
<1>7. FlattenSeq(g) = FlattenSeq(f) \o x
  BY <1>2, <1>3, <1>6, FlattenMore, Zenon
<1>8. AllAsked(p, dirty, u) = FlattenSeq(g)
  BY <1>1, Zenon DEF AllAsked, g
<1>9. AllAsked(p, dirty, s) = FlattenSeq(f)
  BY Zenon DEF AllAsked, f, n
<1> QED BY <1>1, <1>7, <1>8, <1>9, Zenon DEF u, x


(* What is remembered, and what has been put out, when the text is s.       *)
Said(p, m, s, o, over) ==
  /\ Knows(p, m, s)
  /\ (p = Text!TwoLetters => Clean(s, Len(s) - 1))
       => o = AllAsked(p, p = "2_53" /\ m.dirty, s) \o Text!When(over /\ p = "5_28A", <<"\n">>)
TextInv ==
  /\ filter \in DOMAIN Alphabet /\ text \in Seq(Alphabet[filter])
  /\ filter \in Asked => Said(filter, mem, text, put, done)

(* Before the first character.                                              *)
Begins(p, m) ==
  /\ p \in Text!Filters28 => m = Text!Fresh28
  /\ p \in Text!Filters30 => m = 0
  /\ p = Text!Brackets => m = Text!Start
  /\ p = Text!TwoLetters => m = [symbols |-> 0, t_1 |-> Text!Start, t_2 |-> Text!Start]
  /\ p = Text!LineLengths => \E dirty \in BOOLEAN :
       m = [current_line_len |-> 0, write_to_txt |-> FALSE, dirty |-> dirty]

LEMMA KnowsFirst ==
  ASSUME NEW p, NEW m, Begins(p, m)
  PROVE  Knows(p, m, <<>>)
<1> DEFINE s == <<>>
<1>1. Len(s) = 0
  OBVIOUS
<1> HIDE DEF s
<1>2. StartIn(Ends(p), s, 1) = 1 /\ NumberIn(s, 1) = 1 /\ SepIn(s, 0)
  BY StartFirst
<1>3. p \in Text!Filters28 => Knows28(p, m, s, 1, 1)
  <2>1. Text!Fresh28 \in Memory28
    BY DEF Text!Fresh28, Memory28
  <2>2. /\ Text!Fresh28.lines = 0 /\ Text!Fresh28.chars = 0 /\ Text!Fresh28.new_line = TRUE
        /\ Text!Fresh28.newline = FALSE
    BY DEF Text!Fresh28
  <2> QED BY <1>2, <2>1, <2>2 DEF Knows28, Begins
<1>4. p \in Text!Filters30 => Knows30(p, m, s, 1, 1)
  <2>1. (1 - 1) % 2 = 0
    OBVIOUS
  <2> QED BY <1>2, <2>1 DEF Knows30, Begins
<1>5. p = Text!Brackets => KnowsBrackets(m, s)
  BY <1>1, <1>2, Zenon DEF KnowsBrackets, Begins
<1>6. p = Text!TwoLetters => KnowsTwo(Alphabet[p], m, s, Len(s))
  <2> SUFFICES ASSUME p = Text!TwoLetters PROVE KnowsTwo(Alphabet[p], m, s, 0)
    BY <1>1, Zenon
  <2> DEFINE x == Text!Start
  <2> HIDE DEF x
  <2>1. m = [symbols |-> 0, t_1 |-> x, t_2 |-> x]
    BY Zenon DEF Begins, x
  <2>2. m.symbols = 0 /\ m.t_1 = x /\ m.t_2 = x
    BY <2>1
  <2>3. m \in [symbols : Nat, t_1 : Alphabet[p] \cup {x}, t_2 : Alphabet[p] \cup {x}]
    BY <2>1
  <2>4. m \in MemoryTwo(Alphabet[p])
    BY <2>3, Zenon DEF MemoryTwo, x
  <2>5. m.symbols <= 0 /\ SepIn(s, 0 - m.symbols) /\ \A k \in (0 - m.symbols) + 1 .. 0 : ~SepIn(s, k)
    BY <1>2, <2>2
  <2>6. m.symbols < 2
    BY <2>2
  <2>7. m.t_1 = Text!Start /\ m.t_2 = Text!Start
    BY <2>2, Zenon DEF x
  <2> HIDE DEF x
  <2> QED BY ONLY <2>2, <2>4, <2>5, <2>6, <2>7, Zenon DEF KnowsTwo
<1>7. p = Text!LineLengths => KnowsLengths(m, s, 1, 1)
  <2> SUFFICES ASSUME p = Text!LineLengths PROVE KnowsLengths(m, s, 1, 1)
    OBVIOUS
  <2>1. PICK dirty \in BOOLEAN :
          m = [current_line_len |-> 0, write_to_txt |-> FALSE, dirty |-> dirty]
    BY Zenon DEF Begins
  <2>2. m \in [current_line_len : Int, write_to_txt : BOOLEAN, dirty : BOOLEAN]
    BY ONLY <2>1
  <2>3. m \in MemoryLengths
    BY <2>2, Zenon DEF MemoryLengths
  <2>4. m.current_line_len = 0 /\ m.write_to_txt = FALSE
    BY ONLY <2>1
  <2> QED BY ONLY <2>3, <2>4 DEF KnowsLengths
<1>8. Len(s) + 1 = 1
  BY <1>1
<1> QED BY <1>2, <1>3, <1>4, <1>5, <1>6, <1>7, <1>8, Zenon DEF Knows, s

LEMMA AllAskedNone ==
  ASSUME NEW p \in Asked, NEW dirty
  PROVE  AllAsked(p, dirty, <<>>) = <<>>
<1>1. [i \in 1 .. Len(<<>>) |-> AskedFor(p, dirty, <<>>, i)] = <<>>
  OBVIOUS
<1>2. FlattenSeq(<<>>) = <<>>
  <2>1. Len(<<>>) = 0
    OBVIOUS
  <2> QED BY <2>1, Zenon DEF FlattenSeq
<1> QED BY <1>1, <1>2, Zenon DEF AllAsked

LEMMA TextInit ==
  ASSUME Text!Init
  PROVE  TextInv
<1>1. filter \in DOMAIN Alphabet /\ text = <<>> /\ put = <<>> /\ done = FALSE
  BY Zenon DEF Text!Init
<1>2. Begins(filter, mem)
  <2> DEFINE None == [symbols |-> 0, t_1 |-> Text!Start, t_2 |-> Text!Start]
             Counting == [words |-> 0, prev |-> Text!Start]
             Zero(dirty) == [current_line_len |-> 0, write_to_txt |-> FALSE, dirty |-> dirty]
             a == Text!Fresh28
             b == Text!Start
             d == Text!null_vars
  <2>1. PICK dirty \in BOOLEAN :
          mem = CASE filter \in Text!Filters28 -> a
                  [] filter \in Text!Filters30 -> 0
                  [] filter = Text!Brackets -> b
                  [] filter = Text!TwoLetters -> None
                  [] filter = Text!WordCount -> Counting
                  [] filter = Text!Statistics -> d
                  [] filter = Text!LineLengths -> Zero(dirty)
    BY Zenon DEF Text!Init
  <2> HIDE DEF None, Counting, Zero, a, b, d
  <2>2. filter \in Text!Filters28 => mem = a
    BY <2>1 DEF Text!Filters28, Text!Filters30, Text!Brackets, Text!TwoLetters, Text!WordCount, Text!Statistics, Text!LineLengths
  <2>3. filter \in Text!Filters30 => mem = 0
    BY <2>1 DEF Text!Filters28, Text!Filters30, Text!Brackets, Text!TwoLetters, Text!WordCount, Text!Statistics, Text!LineLengths
  <2>4. filter = Text!Brackets => mem = b
    BY <2>1 DEF Text!Filters28, Text!Filters30, Text!Brackets, Text!TwoLetters, Text!WordCount, Text!Statistics, Text!LineLengths
  <2>5. filter = Text!TwoLetters => mem = None
    BY <2>1 DEF Text!Filters28, Text!Filters30, Text!Brackets, Text!TwoLetters, Text!WordCount, Text!Statistics, Text!LineLengths
  <2>6. filter = Text!LineLengths => mem = Zero(dirty)
    BY <2>1 DEF Text!Filters28, Text!Filters30, Text!Brackets, Text!TwoLetters, Text!WordCount, Text!Statistics, Text!LineLengths
  <2> QED BY <2>2, <2>3, <2>4, <2>5, <2>6, Zenon DEF Begins, None, Zero, a, b
<1>3. Knows(filter, mem, text)
  BY <1>1, <1>2, KnowsFirst, Zenon
<1>4. filter \in Asked => put = AllAsked(filter, filter = "2_53" /\ mem.dirty, text)
                                 \o Text!When(done /\ filter = "5_28A", <<"\n">>)
  <2>1. Text!When(done /\ filter = "5_28A", <<"\n">>) = <<>>
    BY <1>1, Zenon DEF Text!When
  <2>2. <<>> \o <<>> = <<>>
    OBVIOUS
  <2> QED BY <1>1, <2>1, <2>2, AllAskedNone, Zenon
<1>5. text \in Seq(Alphabet[filter])
  BY <1>1
<1> QED BY <1>1, <1>3, <1>4, <1>5, Zenon DEF TextInv, Said

LEMMA TextFeed ==
  ASSUME TextInv, TextSizes, NEW c \in Alphabet[filter], Text!Feed(c)
  PROVE  TextInv'
<1> DEFINE A == Alphabet[filter]
           u == Append(text, c)
           n == Len(text)
           x == AskedFor(filter, Dirty, u, Len(u))
           Plain == filter = Text!TwoLetters => Clean(text, n)
<1>1. filter \in DOMAIN Alphabet
  BY Zenon DEF TextInv
<1>2. ~done
  BY Zenon DEF Text!Feed
<1>3. text \in Seq(A)
  BY Zenon DEF TextInv
<1>4. /\ n \in Nat /\ Len(u) = n + 1 /\ u \in Seq(A) /\ \A k \in 1 .. n : u[k] = text[k]
  BY <1>3
<1>5. text' = u /\ mem' = Text!Step(c).mem /\ put' = put \o Text!Step(c).put /\ done' = done
      /\ Alphabet[filter'] = A /\ filter' = filter
  BY Zenon DEF Text!Feed
<1> HIDE DEF A, u, n, x
<1>6. SUFFICES ASSUME filter \in Asked
               PROVE  Said(filter, mem', u, put', FALSE)
  <2>1. Said(filter, mem', u, put', done') <=> Said(filter, mem', u, put', FALSE)
    BY <1>2, <1>5, Zenon DEF Said
  <2> QED BY <1>4, <1>5, <2>1, Zenon DEF TextInv
<1>7. Said(filter, mem, text, put, done)
  BY <1>6, Zenon DEF TextInv
<1>8. /\ Knows(filter, mem', u)
      /\ Plain => Text!Step(c).put = x
      /\ filter = "2_53" => mem'.dirty = mem.dirty
  <2>1. Knows(filter, mem, text)
    BY <1>7, Zenon DEF Said
  <2> QED BY <1>1, <1>3, <1>5, <1>6, <2>1, TextStep, Zenon DEF A, u, n, x
<1>9. ASSUME Plain
      PROVE  put' = AllAsked(filter, Dirty, u)
  <2>1. filter = Text!TwoLetters => Clean(text, n - 1)
    BY <1>4, <1>9 DEF Clean
  <2>2. put = AllAsked(filter, Dirty, text) \o <<>>
    BY <1>2, <1>7, <2>1, Zenon DEF Said, Dirty, Text!When, n
  <2>3. AllAsked(filter, Dirty, text) \in Seq(Output(A))
    BY <1>3, <1>6, AllAskedType, Zenon
  <2>4. put = AllAsked(filter, Dirty, text)
    BY <2>2, <2>3, NothingMore, Zenon
  <2>5. AllAsked(filter, Dirty, u) = AllAsked(filter, Dirty, text) \o x
    BY <1>3, <1>6, AllAskedMore, Zenon DEF A, u, x
  <2> QED BY <1>5, <1>8, <1>9, <2>4, <2>5, Zenon
<1>10. AllAsked(filter, Dirty, u) \in Seq(Output(A))
  BY <1>4, <1>6, AllAskedType, Zenon
<1>11. AllAsked(filter, Dirty, u) \o <<>> = AllAsked(filter, Dirty, u)
  BY <1>10, NothingMore, Zenon
<1>12. (filter = Text!TwoLetters => Clean(u, Len(u) - 1)) => Plain
  BY <1>4 DEF Clean, n
<1>13. (filter = "2_53" /\ mem'.dirty) = Dirty
  BY <1>8 DEF Dirty
<1> QED BY <1>8, <1>9, <1>11, <1>12, <1>13, Zenon DEF Said, Text!When

LEMMA TextFinish ==
  ASSUME TextInv, NEW c, Text!Finish(c)
  PROVE  TextInv'
<1> DEFINE A == Alphabet[filter]
           o == AllAsked(filter, Dirty, text)
           a == Append(put, "\n")
           b == <<Text!Inc(mem.words, Text!LastWord(mem))>>
<1>1. ~done /\ done' = TRUE /\ filter' = filter /\ mem' = mem /\ text' = text
  BY Zenon DEF Text!Finish
<1>2. text \in Seq(A) /\ text' \in Seq(Alphabet[filter'])
  BY <1>1, Zenon DEF TextInv
<1>3. put' = CASE filter = "5_28A" -> a [] filter = Text!WordCount -> b [] OTHER -> put
  BY Zenon DEF Text!Finish
<1> HIDE DEF A, o, a, b
<1>4. SUFFICES ASSUME filter \in Asked
               PROVE  Said(filter, mem, text, put', TRUE)
  <2>1. Said(filter, mem', text', put', done') <=> Said(filter, mem, text, put', TRUE)
    BY <1>1, Zenon
  <2> QED BY <1>1, <1>2, <2>1, Zenon DEF TextInv
<1>5. Said(filter, mem, text, put, done)
  BY <1>4, Zenon DEF TextInv
<1>6. put' = IF filter = "5_28A" THEN a ELSE put
  BY <1>3, <1>4 DEF Asked, Text!WordCount
<1>7. o \in Seq(Output(A))
  BY <1>2, <1>4, AllAskedType, Zenon DEF o
<1>8. o \o <<>> = o
  BY <1>7, NothingMore, Zenon
<1>9. ASSUME filter = Text!TwoLetters => Clean(text, Len(text) - 1)
      PROVE  put' = o \o Text!When(filter = "5_28A", <<"\n">>)
  <2>1. put = o
    BY <1>1, <1>5, <1>8, <1>9, Zenon DEF Said, Text!When, Dirty, o
  <2>2. CASE filter = "5_28A"
    <3>1. Append(o, "\n") = o \o <<"\n">>
      BY <1>7
    <3> QED BY <1>6, <2>1, <2>2, <3>1, Zenon DEF Text!When, a
  <2>3. CASE filter # "5_28A"
    BY <1>6, <1>8, <2>1, <2>3, Zenon DEF Text!When
  <2> QED BY <2>2, <2>3
<1> QED BY <1>5, <1>9, Zenon DEF Said, Dirty, o

LEMMA TextNext ==
  ASSUME TextInv, TextSizes, Text!Next
  PROVE  TextInv'
<1>1. CASE \E c \in Alphabet[filter] : Text!Feed(c)
  <2>1. PICK c \in Alphabet[filter] : Text!Feed(c)
    BY <1>1
  <2> QED BY <2>1, TextFeed, Zenon DEF Text!Feed
<1>2. CASE \E c \in {"EOF", "255"} : Text!Finish(c)
  <2>1. PICK c : Text!Finish(c)
    BY <1>2, Zenon
  <2> QED BY <2>1, TextFinish, Zenon DEF Text!Finish
<1> QED BY <1>1, <1>2, Zenon DEF Text!Next

LEMMA TextRests ==
  ASSUME TextInv, UNCHANGED filters
  PROVE  TextInv'
<1>1. filter' = filter /\ mem' = mem /\ text' = text /\ put' = put /\ done' = done
  BY DEF filters
<1> QED BY <1>1, Zenon DEF TextInv

LEMMA TextAsAsked ==
  ASSUME TextInv
  PROVE  Text!FiltersAsAsked
<1> DEFINE f == [i \in 1 .. Len(text) |-> Text!Expected(i)]
           g == [i \in 1 .. Len(text) |-> AskedFor(filter, Dirty, text, i)]
           Plain == filter = Text!TwoLetters => \A i \in 1 .. Len(text) - 1 : text[i] # "\n"
           Mine == filter \in Text!Filters28 \cup Text!Filters30 \cup {Text!Brackets, Text!TwoLetters, Text!LineLengths}
           e == Text!When(done /\ filter = "5_28A", <<"\n">>)
<1>1. Mine => filter \in Asked
  BY DEF Asked, Text!Filters28, Text!Filters30, Text!Brackets, Text!TwoLetters, Text!LineLengths
<1>2. SUFFICES ASSUME filter \in Asked, Plain
               PROVE  put = Text!FlattenSeq(f) \o e
  BY <1>1, Zenon DEF Text!FiltersAsAsked
<1>3. text \in Seq(Alphabet[filter]) /\ Said(filter, mem, text, put, done)
  BY <1>2, Zenon DEF TextInv
<1>4. f = g
  <2>1. \A i \in 1 .. Len(text) : Text!Expected(i) = AskedFor(filter, Dirty, text, i)
    <3> SUFFICES ASSUME NEW i \in 1 .. Len(text)
                 PROVE  Text!Expected(i) = AskedFor(filter, Dirty, text, i)
      OBVIOUS
    <3>1. i \in Nat \ {0}
      BY <1>3
    <3> QED BY <1>2, <3>1, ExpectedIs, Zenon
  <2> QED BY <2>1, Zenon
<1>5. Text!FlattenSeq(f) = AllAsked(filter, Dirty, text)
  BY <1>4, TextFlatten, Zenon DEF AllAsked
<1>6. put = AllAsked(filter, Dirty, text) \o e
  BY <1>2, <1>3, Zenon DEF Said, Clean, Dirty
<1> QED BY <1>5, <1>6, Zenon

(* Every filter puts out, at every character of any text, what is asked of  *)
(* it, whatever its sizes and its alphabet.                                 *)
THEOREM TextCorrect == Text!Spec => []Text!FiltersAsAsked
<1>1. Text!Init => TextInv
  BY TextInit
<1>2. TextInv /\ [Text!Next]_(Text!vars) => TextInv'
  <2> SUFFICES ASSUME TextInv, [Text!Next]_(Text!vars) PROVE TextInv'
    OBVIOUS
  <2>1. CASE Text!Next
    BY <2>1, FilesAssumption, TextNext
  <2>2. CASE UNCHANGED Text!vars
    BY <2>2, TextRests DEF Text!vars, filters
  <2> QED BY <2>1, <2>2
<1>3. TextInv => Text!FiltersAsAsked
  BY TextAsAsked
<1> QED BY <1>1, <1>2, <1>3, PTL DEF Text!Spec

-----------------------------------------------------------------------------
(***************************************************************************)
(* The four together                                                       *)
(***************************************************************************)
(* Each program keeps its invariant, and while another one runs it rests.   *)
FilesInv ==
  /\ IF system = "cipher" THEN XInv ELSE CipherIdle
  /\ IF system = "fill" THEN FInv ELSE FillIdle
  /\ IF system = "reports" THEN RInv ELSE ReportsIdle
  /\ IF system = "filters" THEN TextInv ELSE FiltersIdle

LEMMA FilesKeep == FilesInv /\ [FilesNext]_filesVars => FilesInv'
<1> SUFFICES ASSUME FilesInv, [FilesNext]_filesVars PROVE FilesInv'
  OBVIOUS
<1>1. CipherSizes /\ FillSizes /\ ReportSizes /\ TextSizes
  BY FilesAssumption
<1>2. ASSUME UNCHANGED cipher PROVE (XInv => XInv') /\ (CipherIdle => CipherIdle')
  <2>1. UNCHANGED C!cipherVars
    BY <1>2 DEF cipher, C!cipherVars
  <2>2. CipherIdle => CipherIdle'
    BY <1>2 DEF cipher, CipherIdle
  <2>3. XInv => XInv'
    BY <1>1, <2>1, CipherInductive
  <2> QED BY <2>2, <2>3
<1>3. ASSUME UNCHANGED fill PROVE (FInv => FInv') /\ (FillIdle => FillIdle')
  <2>1. UNCHANGED F!fillVars
    BY <1>3 DEF fill, F!fillVars
  <2>2. FillIdle => FillIdle'
    BY <1>3 DEF fill, FillIdle, F!Before, F!Places
  <2>3. FInv => FInv'
    BY <1>1, <2>1, FillInductive
  <2> QED BY <2>2, <2>3
<1>4. ASSUME UNCHANGED reports PROVE (RInv => RInv') /\ (ReportsIdle => ReportsIdle')
  <2>1. UNCHANGED R!reportVars
    BY <1>4 DEF reports, R!reportVars
  <2>2. ReportsIdle => ReportsIdle'
    BY <1>4 DEF reports, ReportsIdle
  <2>3. RInv => RInv'
    BY <1>1, <2>1, ReportInductive
  <2> QED BY <2>2, <2>3
<1>5. ASSUME UNCHANGED filters PROVE (TextInv => TextInv') /\ (FiltersIdle => FiltersIdle')
  <2>1. FiltersIdle => FiltersIdle'
    BY <1>5 DEF filters, FiltersIdle
  <2>2. TextInv => TextInv'
    BY <1>5, TextRests
  <2> QED BY <2>1, <2>2
<1>6. CASE FilesNext
  <2>1. system' = system
    BY <1>6 DEF FilesNext
  <2>2. CASE system = "cipher" /\ C!Next /\ UNCHANGED <<fill, reports, filters>>
    <3>1. XInv => XInv'
      BY <1>1, <2>2, CipherInductive
    <3> QED BY <1>3, <1>4, <1>5, <2>1, <2>2, <3>1 DEF FilesInv
  <2>3. CASE system = "fill" /\ F!Next /\ UNCHANGED <<cipher, reports, filters>>
    <3>1. FInv => FInv'
      BY <1>1, <2>3, FillInductive
    <3> QED BY <1>2, <1>4, <1>5, <2>1, <2>3, <3>1 DEF FilesInv
  <2>4. CASE system = "reports" /\ R!Next /\ UNCHANGED <<cipher, fill, filters>>
    <3>1. RInv => RInv'
      BY <1>1, <2>4, ReportInductive
    <3> QED BY <1>2, <1>3, <1>5, <2>1, <2>4, <3>1 DEF FilesInv
  <2>5. CASE system = "filters" /\ Text!Next /\ UNCHANGED <<cipher, fill, reports>>
    <3>1. TextInv => TextInv'
      BY <1>1, <2>5, TextNext
    <3> QED BY <1>2, <1>3, <1>4, <2>1, <2>5, <3>1 DEF FilesInv
  <2> QED BY <1>6, <2>2, <2>3, <2>4, <2>5 DEF FilesNext
<1>7. CASE UNCHANGED filesVars
  BY <1>2, <1>3, <1>4, <1>5, <1>7 DEF filesVars, FilesInv
<1> QED BY <1>6, <1>7

(* A program that rests has changed nothing.                                *)
LEMMA RestIsExact ==
  /\ CipherIdle => C!CipherIsExact
  /\ FillIdle => F!FillIsExact
  /\ ReportsIdle => R!ReportsAreExact
<1>1. CipherSizes /\ FillSizes
  BY FilesAssumption
<1>2. ASSUME CipherIdle PROVE C!CipherIsExact
  <2>1. ASSUME NEW i \in 1 .. Length PROVE C!Writers(i) = {} /\ data[i] = {}
    BY <1>1, <1>2 DEF CipherSizes, CipherIdle, C!Writers
  <2>2. \A p \in Cmds : pc[p] # "done"
    BY <1>2 DEF CipherIdle
  <2> QED BY <2>1, <2>2, SumOfNone DEF C!CipherIsExact
<1>3. ASSUME FillIdle PROVE F!FillIsExact
  <2>1. \A i \in F!Places : ~(i < place) /\ bytes[i] = F!Before[i]
    BY <1>1, <1>3 DEF FillIdle, FillSizes, F!Places
  <2>2. filling # "done"
    BY <1>3 DEF FillIdle
  <2> QED BY <2>1, <2>2 DEF F!FillIsExact
<1>4. ReportsIdle => R!ReportsAreExact
  BY DEF ReportsIdle, R!ReportsAreExact
<1> QED BY <1>2, <1>3, <1>4

(* What the run checks of the programs, for all these sizes: what the       *)
(* program that runs does to its files is exactly what was asked.           *)
THEOREM FilesCorrect == FilesSpec => []FilesAreExact
<1>1. FilesInit => FilesInv
  BY FilesAssumption, CipherInit, FillInit, ReportInit, TextInit DEF FilesInit, FilesInv
<1>2. FilesInv /\ [FilesNext]_filesVars => FilesInv'
  BY FilesKeep
<1>3. FilesInv => FilesAreExact
  BY FilesAssumption, CipherImplied, FillImplied, ReportImplied, RestIsExact
  DEF FilesInv, FilesAreExact
<1> QED BY <1>1, <1>2, <1>3, PTL DEF FilesSpec

(* And every filter puts out what is asked of it, at every character.       *)
THEOREM FiltersCorrect == FilesSpec => []FiltersAsAsked
<1>1. FilesInit => FilesInv
  BY FilesAssumption, CipherInit, FillInit, ReportInit, TextInit DEF FilesInit, FilesInv
<1>2. FilesInv /\ [FilesNext]_filesVars => FilesInv'
  BY FilesKeep
<1>3. FilesInv => FiltersAsAsked
  <2>1. FiltersIdle => Text!FiltersAsAsked
    <3>1. FiltersIdle => filter \notin Text!Filters28 \cup Text!Filters30
                           \cup {Text!Brackets, Text!TwoLetters, Text!LineLengths}
      BY DEF FiltersIdle, Text!Filters28, Text!Filters30, Text!Brackets, Text!TwoLetters,
             Text!LineLengths
    <3> QED BY <3>1, Zenon DEF Text!FiltersAsAsked
  <2> QED BY <2>1, TextAsAsked DEF FilesInv, FiltersAsAsked
<1> QED BY <1>1, <1>2, <1>3, PTL DEF FilesSpec
=============================================================================
