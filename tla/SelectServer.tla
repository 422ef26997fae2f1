---------------------------- MODULE SelectServer ----------------------------
(***************************************************************************)
(* The two single-process TCP servers built on one select() loop:          *)
(*   c/networks/6_12.c answers every line with "Ok"           ("ack"),     *)
(*   c/networks/6_13.c executes up, down and show on a counter ("counter").*)
(* They share the session buffer, the descriptor-indexed session table and *)
(* the loop, line for line; `prog` says which of the two is running.       *)
(*                                                                         *)
(* A byte stream is a sequence of tokens: a word with the blanks around    *)
(* it, CR, LF or EOT.  One send() of a client arrives as one chunk in the  *)
(* receive queue; a read takes whatever has arrived, up to the room left   *)
(* in the session's buffer, so that lines arrive cut up or run together.   *)
(* An answer is written in a step of its own: write() blocks the one       *)
(* process, and with it every session, while the client it answers has not *)
(* read enough of its earlier answers.                                     *)
(***************************************************************************)
EXTENDS Integers, Sequences

CONSTANTS
  Clients,    (* the peers; each connects at most once                     *)
  Fds,        (* the descriptors accept() may return                       *)
  InBufSize,  (* INBUFSIZE, counted in tokens                              *)
  SendRoom,   (* the unread answers that the buffers of a connection hold  *)
  Programs,   (* which of "ack" and "counter" may run                      *)
  Chunks,     (* what one send() of a client may carry                     *)
  MaxSent,    (* bound: the tokens each client sends                       *)
  Paced,      (* do clients wait until a line is consumed before the next  *)
  Scarce,     (* may accept() fail while the process has free descriptors  *)
  NoClient, NoSession, NoWrite

Words == {"up", "down", "show", "junk"}
Tokens == Words \union {"CR", "LF", "EOT"}
Requests == {"unknown", "up", "down", "show"}
Replies == {"ok", "count", "unknown", "too long"}

ASSUME FdsAssumption == Fds \subseteq Nat
ASSUME BufAssumption == InBufSize \in Nat \ {0}
ASSUME RoomAssumption == SendRoom \in Nat \ {0}
ASSUME ChunksAssumption == Chunks \subseteq Seq(Tokens) \ {<<>>}
ASSUME ProgramsAssumption == Programs \subseteq {"ack", "counter"}
ASSUME NullAssumption ==
  /\ NoClient \notin Clients
  /\ NoSession \notin [buf : Seq(Tokens), request : Requests]
  /\ NoWrite \notin [fd : Fds, msg : Replies \X Int]

VARIABLES
  prog,       (* the program that runs                                     *)
  peer,       (* per client, the state of its end of the connection        *)
  backlog,    (* connections waiting for accept()                          *)
  rcvq,       (* per client, what has arrived and is not read              *)
  fdt,        (* the kernel's descriptor table: whose connection fd f is   *)
  sess,       (* serv->sess_array: the session of fd f, or NoSession       *)
  acceptDue,  (* FD_ISSET(serv->ls, &readfds), not yet dealt with          *)
  ready,      (* the set bits of readfds the loop has not reached          *)
  counter,    (* serv->counter                                             *)
  writing,    (* the write() the process is in: its descriptor and message *)
  unread,     (* per client, the answers that it has not read              *)
  alive,      (* FALSE once SIGPIPE has killed the process                 *)
  sent,       (* history: all a client sent                                *)
  seen,       (* history: the tokens of consumed lines, LF included        *)
  replies,    (* history: the replies that reached the client's host       *)
  verdict,    (* history: why the server closed the session                *)
  overtaken   (* history: per client that has something to be read, how    *)
              (* often each descriptor of another one was read before it   *)

net == <<peer, backlog, rcvq, fdt, unread>>
loop == <<acceptDue, ready>>
hist == <<sent, seen, replies, verdict, overtaken>>
vars == <<prog, net, sess, loop, counter, writing, alive, hist>>

NewSession == [buf |-> <<>>, request |-> "unknown"]

TypeOK ==
  /\ prog \in Programs
  /\ peer \in [Clients -> {"idle", "here", "gone", "reset", "closed"}]
  /\ backlog \in Seq(Clients)
  /\ rcvq \in [Clients -> Seq(Tokens)]
  /\ fdt \in [Fds -> Clients \union {NoClient}]
  /\ sess \in [Fds -> [buf : Seq(Tokens), request : Requests] \union {NoSession}]
  /\ acceptDue \in BOOLEAN
  /\ ready \in SUBSET Fds
  /\ counter \in Int
  /\ writing \in [fd : Fds, msg : Replies \X Int] \union {NoWrite}
  /\ unread \in [Clients -> Nat]
  /\ alive \in BOOLEAN
  /\ sent \in [Clients -> Seq(Tokens)]
  /\ seen \in [Clients -> Seq(Tokens)]
  /\ replies \in [Clients -> Seq(Replies \X Int)]
  /\ verdict \in [Clients -> {"none", "hangup", "too long"}]
  /\ overtaken \in [Clients -> [Fds -> Nat]]

(* server_init: an empty table and a listening socket. *)
Init ==
  /\ prog \in Programs
  /\ peer = [c \in Clients |-> "idle"]
  /\ backlog = <<>>
  /\ rcvq = [c \in Clients |-> <<>>]
  /\ fdt = [f \in Fds |-> NoClient]
  /\ sess = [f \in Fds |-> NoSession]
  /\ acceptDue = FALSE
  /\ ready = {}
  /\ counter = 0
  /\ writing = NoWrite
  /\ unread = [c \in Clients |-> 0]
  /\ alive = TRUE
  /\ sent = [c \in Clients |-> <<>>]
  /\ seen = [c \in Clients |-> <<>>]
  /\ replies = [c \in Clients |-> <<>>]
  /\ verdict = [c \in Clients |-> "none"]
  /\ overtaken = [c \in Clients |-> [f \in Fds |-> 0]]

-----------------------------------------------------------------------------
(* Lines *)

(* The variant whose scan stops one token short of buf_used. *)
MutHasLF(s) == \E i \in 1 .. Len(s) - 1 : s[i] = "LF"
HasLF(s) == \E i \in DOMAIN s : s[i] = "LF"

FirstLF(s) == CHOOSE i \in DOMAIN s : s[i] = "LF" /\ \A j \in 1 .. i-1 : s[j] # "LF"

(* session_get_request on the tokens before the LF: a lone known word, or a *)
(* known word cut short by CR; two words run together are a longer word.    *)
Parse(line) ==
  IF /\ line # <<>>
     /\ line[1] \in Requests
     /\ Len(line) = 1 \/ line[2] = "CR"
  THEN line[1] ELSE "unknown"

(* The variant that keeps the session's previous request on a bad line. *)
MutRequestOf(s, old) ==
  LET r == Parse(SubSeq(s, 1, FirstLF(s) - 1)) IN IF r = "unknown" THEN old ELSE r
RequestOf(s, old) == Parse(SubSeq(s, 1, FirstLF(s) - 1))

(* The variant that moves the rest from pos + 2. *)
MutAfterLF(s) == SubSeq(s, FirstLF(s) + 2, Len(s))
AfterLF(s) == SubSeq(s, FirstLF(s) + 1, Len(s))

-----------------------------------------------------------------------------
(* The clients *)

Connect(c) ==
  /\ peer[c] = "idle"
  /\ peer' = [peer EXCEPT ![c] = "here"]
  /\ backlog' = Append(backlog, c)
  /\ UNCHANGED <<prog, rcvq, fdt, unread, sess, loop, counter, writing, alive, hist>>

(* The process is writing an answer to client c. *)
Answering(c) == writing # NoWrite /\ fdt[writing.fd] = c

(* Nothing of c is left to be consumed, in the socket or in the session,    *)
(* and c has read all its answers.                                          *)
Drained(c) ==
  /\ rcvq[c] = <<>>
  /\ \A f \in Fds : fdt[f] = c => sess[f].buf = <<>>
  /\ ~Answering(c)
  /\ unread[c] = 0

Send(c) ==
  /\ peer[c] = "here"
  /\ Paced => Drained(c)
  /\ \E chunk \in Chunks :
       /\ Len(sent[c]) + Len(chunk) <= MaxSent[c]
       /\ rcvq' = [rcvq EXCEPT ![c] = @ \o chunk]
       /\ sent' = [sent EXCEPT ![c] = @ \o chunk]
  /\ UNCHANGED <<prog, peer, backlog, fdt, unread, sess, loop, counter, writing, alive,
                 seen, replies, verdict, overtaken>>

(* The client reads an answer. *)
Take(c) ==
  /\ peer[c] = "here"
  /\ unread[c] > 0
  /\ unread' = [unread EXCEPT ![c] = @ - 1]
  /\ UNCHANGED <<prog, peer, backlog, rcvq, fdt, sess, loop, counter, writing, alive, hist>>

(* close() sends FIN; with unread replies, or after an abort, RST. *)
Leave(c) ==
  /\ peer[c] = "here"
  /\ Paced => Drained(c)
  /\ \E how \in {"gone", "reset"} : peer' = [peer EXCEPT ![c] = how]
  /\ UNCHANGED <<prog, backlog, rcvq, fdt, unread, sess, loop, counter, writing, alive, hist>>

-----------------------------------------------------------------------------
(* The server *)

AtTop == alive /\ writing = NoWrite /\ ~acceptDue /\ ready = {}

Readable(c) == rcvq[c] # <<>> \/ peer[c] \in {"gone", "reset"}

Watched == {f \in Fds : sess[f] # NoSession}

ReadableFds == {f \in Watched : Readable(fdt[f])}

(* The head of server_go's loop: FD_SET every session, then wait in select. *)
Select ==
  /\ AtTop
  /\ acceptDue' = (backlog # <<>>)
  /\ ready' = ReadableFds
  /\ acceptDue' \/ ready' # {}
  /\ UNCHANGED <<prog, net, sess, counter, writing, alive, hist>>

Free == {f \in Fds : fdt[f] = NoClient}

(* accept() returns the lowest free descriptor, or -1: when the process has *)
(* none, or (Scarce) when the whole system is short of files or memory.     *)
Accept ==
  /\ alive /\ writing = NoWrite /\ acceptDue
  /\ acceptDue' = FALSE
  /\ \/ /\ Free = {} \/ Scarce
        /\ UNCHANGED <<backlog, fdt, sess>>
     \/ \E f \in Free :
          /\ \A g \in Free : f <= g
          /\ fdt' = [fdt EXCEPT ![f] = Head(backlog)]
          /\ sess' = [sess EXCEPT ![f] = NewSession]
          /\ backlog' = Tail(backlog)
  /\ UNCHANGED <<prog, peer, rcvq, unread, ready, counter, writing, alive, hist>>

(* The loop over sess_array: the next descriptor whose bit is still set.    *)
(* The variant goes back to select() after the first one it serves.         *)
MutNextDescriptor(f) ==
  /\ alive /\ writing = NoWrite /\ ~acceptDue
  /\ f \in ready
  /\ \A g \in ready : f <= g
  /\ ready' = {}
  /\ acceptDue' = acceptDue
NextDescriptor(f) ==
  /\ alive /\ writing = NoWrite /\ ~acceptDue
  /\ f \in ready
  /\ \A g \in ready : f <= g
  /\ ready' = ready \ {f}
  /\ acceptDue' = acceptDue

Room(f) == InBufSize - Len(sess[f].buf)

(* What read(sess->fd, sess->buf + bufp, INBUFSIZE - bufp) returns. *)
Arrived(f) ==
  LET q == rcvq[fdt[f]] IN IF Len(q) <= Room(f) THEN q ELSE SubSeq(q, 1, Room(f))
Unread(f) == SubSeq(rcvq[fdt[f]], Len(Arrived(f)) + 1, Len(rcvq[fdt[f]]))
Data(f) == sess[f].buf \o Arrived(f)

(* The cases in which session_do_read returns -1 at once: the end of the    *)
(* stream (or an error) and a read of a lone EOT.                           *)
MutEnded(f) == Arrived(f) = <<"EOT">>
Ended(f) == Arrived(f) \in {<<>>, <<"EOT">>}

(* buf_used >= INBUFSIZE; the variant tests it with > instead. *)
MutFull(s) == Len(s) > InBufSize
Full(s) == Len(s) >= InBufSize

(* session_send_string enters write(), and the step after is Write's. *)
Answer(f, m) == writing' = [fd |-> f, msg |-> m]
Silent == UNCHANGED writing

(* server_close_session, for the reason `why`: close(2) drops what is        *)
(* unread.  The variant leaves the slot of the table set.                    *)
MutCloseSession(f, why) ==
  /\ fdt' = [fdt EXCEPT ![f] = NoClient]
  /\ UNCHANGED sess
  /\ rcvq' = [rcvq EXCEPT ![fdt[f]] = <<>>]
  /\ verdict' = [verdict EXCEPT ![fdt[f]] = why]
CloseSession(f, why) ==
  /\ fdt' = [fdt EXCEPT ![f] = NoClient]
  /\ sess' = [sess EXCEPT ![f] = NoSession]
  /\ rcvq' = [rcvq EXCEPT ![fdt[f]] = <<>>]
  /\ verdict' = [verdict EXCEPT ![fdt[f]] = why]

(* session_do_read returns -1 before anything is buffered. *)
HangUp(f) ==
  /\ Ended(f)
  /\ CloseSession(f, "hangup")
  /\ peer' = [peer EXCEPT ![fdt[f]] = "closed"]
  /\ UNCHANGED <<counter, writing, seen>>

(* server_response to the request `r` of the session on descriptor f; the   *)
(* variant has no break after case down.                                    *)
MutRespond(f, r) ==
  \/ /\ r = "up"
     /\ counter' = counter + 1
     /\ Silent
  \/ /\ r = "down"
     /\ counter' = counter - 1
     /\ Answer(f, <<"count", counter - 1>>)
  \/ /\ r \in {"show", "unknown"}
     /\ UNCHANGED counter
     /\ Answer(f, IF r = "show" THEN <<"count", counter>> ELSE <<"unknown", 0>>)
Respond(f, r) ==
  \/ /\ r = "up"
     /\ counter' = counter + 1
     /\ Silent
  \/ /\ r = "down"
     /\ counter' = counter - 1
     /\ Silent
  \/ /\ r = "show"
     /\ UNCHANGED counter
     /\ Answer(f, <<"count", counter>>)
  \/ /\ r = "unknown"
     /\ UNCHANGED counter
     /\ Answer(f, <<"unknown", 0>>)

(* The first LF in the buffer completes a line; what follows it stays. *)
TakeLine(f) ==
  /\ ~Ended(f)
  /\ HasLF(Data(f))
  /\ LET c == fdt[f]
         r == RequestOf(Data(f), sess[f].request)
     IN /\ sess' = [sess EXCEPT ![f] = [buf |-> AfterLF(Data(f)),
                                        request |-> IF prog = "counter" THEN r ELSE "unknown"]]
        /\ rcvq' = [rcvq EXCEPT ![c] = Unread(f)]
        /\ seen' = [seen EXCEPT ![c] = @ \o SubSeq(Data(f), 1, FirstLF(Data(f)))]
        /\ \/ prog = "ack" /\ Answer(f, <<"ok", 0>>) /\ UNCHANGED counter
           \/ prog = "counter" /\ Respond(f, r)
  /\ UNCHANGED <<peer, fdt, verdict>>

(* No LF yet and room left: the counter server answers all the same, with   *)
(* the request of the previous line.                                        *)
KeepPartial(f) ==
  /\ ~Ended(f)
  /\ ~HasLF(Data(f))
  /\ ~Full(Data(f))
  /\ sess' = [sess EXCEPT ![f].buf = Data(f)]
  /\ rcvq' = [rcvq EXCEPT ![fdt[f]] = Unread(f)]
  /\ \/ prog = "ack" /\ Silent /\ UNCHANGED counter
     \/ prog = "counter" /\ Respond(f, sess[f].request)
  /\ UNCHANGED <<peer, fdt, seen, verdict>>

(* A full buffer without LF: the session is closed once this is written. *)
TooLong == <<"too long", 0>>

Reject(f) ==
  /\ ~Ended(f)
  /\ ~HasLF(Data(f))
  /\ Full(Data(f))
  /\ sess' = [sess EXCEPT ![f].buf = Data(f)]
  /\ rcvq' = [rcvq EXCEPT ![fdt[f]] = Unread(f)]
  /\ Answer(f, TooLong)
  /\ UNCHANGED <<peer, fdt, counter, seen, verdict>>

(* Client c has something to be read on a descriptor of the table. *)
Waiting(c) == Readable(c) /\ \E f \in Fds : fdt[f] = c

(* One turn of the loop: the read on f is counted for those that wait. *)
Serve(f) ==
  /\ NextDescriptor(f)
  /\ HangUp(f) \/ TakeLine(f) \/ KeepPartial(f) \/ Reject(f)
  /\ overtaken' = [c \in Clients |-> [g \in Fds |->
                     IF c = fdt[f] THEN 0
                     ELSE IF g = f /\ Waiting(c) THEN overtaken[c][g] + 1
                     ELSE overtaken[c][g]]]
  /\ UNCHANGED <<prog, backlog, unread, alive, sent, replies>>

(* write() returns: to a client that is there it must find room in the      *)
(* connection's buffers; a first write to a peer that has left provokes its *)
(* RST.  After "too long" server_go closes the session.                     *)
Write ==
  /\ alive /\ writing # NoWrite
  /\ LET f == writing.fd
         c == fdt[f]
     IN /\ \/ /\ peer[c] = "here"
              /\ unread[c] < SendRoom
              /\ replies' = [replies EXCEPT ![c] = Append(@, writing.msg)]
              /\ unread' = [unread EXCEPT ![c] = @ + 1]
           \/ /\ peer[c] # "here"
              /\ UNCHANGED <<replies, unread>>
        /\ \/ /\ writing.msg = TooLong
              /\ CloseSession(f, "too long")
              /\ peer' = [peer EXCEPT ![c] = "closed"]
           \/ /\ writing.msg # TooLong
              /\ peer' = [peer EXCEPT ![c] = IF @ = "gone" THEN "reset" ELSE @]
              /\ UNCHANGED <<rcvq, fdt, sess, verdict>>
  /\ writing' = NoWrite
  /\ UNCHANGED <<prog, backlog, loop, counter, alive, sent, seen, overtaken>>

(* A write after the RST may also fail with SIGPIPE, which nobody handles. *)
Sigpipe ==
  /\ alive /\ writing # NoWrite
  /\ peer[fdt[writing.fd]] = "reset"
  /\ alive' = FALSE
  /\ UNCHANGED <<prog, net, sess, loop, counter, writing, hist>>

Server == Select \/ Accept \/ Write \/ Sigpipe \/ \E f \in Fds : Serve(f)

Next == Server \/ \E c \in Clients : Connect(c) \/ Send(c) \/ Take(c) \/ Leave(c)

Spec == Init /\ [][Next]_vars

(* The kernel keeps running a process that is not blocked. *)
FairSpec == Spec /\ WF_vars(Server)

-----------------------------------------------------------------------------
(* Properties *)

(* A session is in the table exactly while its connection holds that        *)
(* descriptor, no connection holds two, and one that waits for accept()     *)
(* holds none: server_close_session and a reused descriptor leave no trace. *)
SlotsMatchDescriptors ==
  /\ \A f \in Fds : fdt[f] = NoClient <=> sess[f] = NoSession
  /\ \A f, g \in Fds : fdt[f] = fdt[g] /\ fdt[f] # NoClient => f = g
  /\ \A f \in Fds : fdt[f] \notin {backlog[i] : i \in DOMAIN backlog}
  /\ \A i, j \in DOMAIN backlog : backlog[i] = backlog[j] => i = j

(* The process is writing to the session on f that its line is too long. *)
Rejecting(f) == writing # NoWrite /\ writing.fd = f /\ writing.msg = TooLong

(* Between two reads a session's buffer has room, so read() is never asked  *)
(* for 0 bytes and its 0 always means that the peer has left (the session   *)
(* that is being rejected is not read again); and a descriptor the loop     *)
(* will read was reported by select() and still has something to return,    *)
(* however long an answer to another client kept the process: the read      *)
(* never blocks the other sessions.                                         *)
ReadsMakeSense ==
  /\ \A f \in Fds : sess[f] # NoSession /\ ~Rejecting(f) => Len(sess[f].buf) < InBufSize
  /\ \A f \in ready : fdt[f] \in Clients /\ Readable(fdt[f])

Buffered(c) ==
  IF \E f \in Fds : fdt[f] = c
  THEN sess[CHOOSE f \in Fds : fdt[f] = c].buf ELSE <<>>

(* No token is lost, repeated or given to another session by partial reads, *)
(* the memmove after a line and the reuse of descriptors: what a client     *)
(* sent is the lines consumed, then the buffer, then the socket's queue.    *)
NothingLost ==
  \A c \in Clients :
    IF peer[c] = "closed"
    THEN seen[c] = SubSeq(sent[c], 1, Len(seen[c]))
    ELSE sent[c] = seen[c] \o Buffered(c) \o rcvq[c]

(* "Line too long!" is only said of a line that has INBUFSIZE bytes and no  *)
(* LF, never of short lines that piled up because one read handles only one.*)
TooLongIsTrue ==
  \A c \in Clients : verdict[c] = "too long" =>
    \E i \in 0 .. Len(sent[c]) - InBufSize :
      \A j \in 1 .. InBufSize : sent[c][i + j] # "LF"

(* The request on the last line consumed of a history that ends in LF. *)
LastRequest(h) ==
  LET starts == {i \in 1 .. Len(h) : i = 1 \/ h[i - 1] = "LF"}
      from == CHOOSE i \in starts : \A j \in starts : j <= i
  IN IF h = <<>> THEN "unknown" ELSE Parse(SubSeq(h, from, Len(h) - 1))

Effect(r) == CASE r = "up" -> 1 [] r = "down" -> -1 [] OTHER -> 0

(* A read of c that brings no LF, and leaves less than a line in the buffer. *)
BringsPart(c) ==
  /\ rcvq'[c] # rcvq[c]
  /\ Buffered(c)' # <<>> /\ ~HasLF(Buffered(c)')

(* A complete line moves the counter by what it asks for, once, in the step *)
(* that consumes it.  The counter moves in no other step but one: a read    *)
(* that brings only a part of the next line repeats the last request of the *)
(* same client (server_response runs after every read), never one of        *)
(* another client, of the descriptor's earlier owner or of an invalid line. *)
CounterStepsAreAsked ==
  [][/\ \A c \in Clients : prog = "counter" /\ seen'[c] # seen[c] =>
          counter' = counter + Effect(LastRequest(seen'[c]))
     /\ counter' # counter => \E c \in Clients :
          \/ seen'[c] # seen[c]
          \/ BringsPart(c) /\ counter' = counter + Effect(LastRequest(seen[c]))]_vars

(* While a client has something to be read, no other descriptor is read     *)
(* more than twice: once in the pass that began before, once in the next.   *)
NobodyStarves == [][\A c \in Clients, g \in Fds : overtaken'[c][g] <= 2]_vars

(* The process is in a write() to a client that does not read its answers.  *)
Blocked ==
  /\ writing # NoWrite
  /\ peer[fdt[writing.fd]] = "here" /\ unread[fdt[writing.fd]] >= SendRoom

(* Every session is served, whatever the others send: none waits for more   *)
(* than two reads of each other descriptor, and an accepted connection      *)
(* whose peer has left is noticed and its descriptor freed.  Two things     *)
(* end that for all: SIGPIPE, and a client that never reads its answers,    *)
(* to which the one process is writing for ever.                            *)
EverySessionIsServed ==
  /\ NobodyStarves
  /\ []<>~Blocked => \A c \in Clients :
       (peer[c] \in {"gone", "reset"} /\ \E f \in Fds : fdt[f] = c)
         ~> (~alive \/ peer[c] = "closed")

-----------------------------------------------------------------------------
(* Under clients that send one whole line and wait until it is consumed and *)
(* its answer is read, the counter server implements the atomic counter,    *)
(* fairness included: a request is executed by the read that takes its      *)
(* line, and the answer on its way counts as given.                         *)
PendingRequest(c) ==
  IF rcvq[c] = <<>> THEN "none" ELSE Parse(SubSeq(rcvq[c], 1, Len(rcvq[c]) - 1))

Answered(c) ==
  IF Answering(c) THEN Append(replies[c], writing.msg) ELSE replies[c]

Abstract == INSTANCE AtomicCounter WITH
  count <- counter,
  pending <- [c \in Clients |-> PendingRequest(c)],
  replies <- [c \in Clients |-> Answered(c)]

ImplementsAtomicCounter == Abstract!Spec

(* A server whose clients leave only between requests outlives them all:    *)
(* each departure is read as one end of file and nothing is written after it.*)
OutlivesPoliteClients == alive
=============================================================================
