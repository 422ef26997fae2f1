------------------------- MODULE SelectServerProofs -------------------------
(***************************************************************************)
(* Proofs about SelectServer, for every number of clients and descriptors, *)
(* every buffer size, any chunks and any bound on what is sent: in part 1  *)
(* its types, its descriptors and its reads (SlotsMatchDescriptors,        *)
(* ReadsMakeSense); in part 2 what it keeps of its clients' streams        *)
(* (NothingLost, TooLongIsTrue, CounterStepsAreAsked) and how fairly it    *)
(* reads them (NobodyStarves); in part 3 what clients that wait for their  *)
(* answers may rely on: no server dies of them (OutlivesPoliteClients),    *)
(* and if they send whole lines the counter server takes no step that      *)
(* AtomicCounter does not allow.                                           *)
(***************************************************************************)
EXTENDS SelectServer, SequenceTheorems, WellFoundedInduction, TLAPS

-----------------------------------------------------------------------------
(***************************************************************************)
(* Part 1.  Types, descriptors and reads                                   *)
(***************************************************************************)

(* Lemmas on lines and reads *)

(* A nonempty set of naturals has a least element. *)
LEMMA LeastNat ==
  ASSUME NEW T \in SUBSET Nat, T # {}
  PROVE  \E x \in T : \A y \in T : x <= y
<1> DEFINE R == {ss \in Nat \X Nat : ss[1] < ss[2]}
<1>1. IsWellFoundedOn(R, Nat)
  BY NatLessThanWellFounded DEF OpToRel
<1>2. \E x \in T : \A y \in T : ~ (<<y, x>> \in R)
  <2> HIDE DEF R
  <2> QED BY <1>1, WFMin
<1>3. \A x, y \in T : y < x => <<y, x>> \in R
  OBVIOUS
<1>4. PICK x \in T : \A y \in T : ~ (<<y, x>> \in R)
  BY <1>2
<1> HIDE DEF R
<1>5. \A y \in T : ~ (y < x)
  BY <1>3, <1>4
<1>6. \A y \in T : x <= y
  BY <1>5
<1> QED BY <1>6

(* FirstLF is a position of the sequence that holds an LF. *)
LEMMA FirstLFType ==
  ASSUME NEW s \in Seq(Tokens), HasLF(s)
  PROVE  FirstLF(s) \in 1 .. Len(s) /\ s[FirstLF(s)] = "LF"
<1> DEFINE T == {i \in DOMAIN s : s[i] = "LF"}
<1>1. DOMAIN s = 1 .. Len(s) /\ Len(s) \in Nat
  BY LenProperties
<1>2. T \in SUBSET Nat /\ T # {}
  BY <1>1 DEF HasLF
<1>3. PICK x \in T : \A y \in T : x <= y
  BY <1>2, LeastNat
<1>4. x \in DOMAIN s /\ s[x] = "LF" /\ \A j \in 1 .. x-1 : s[j] # "LF"
  BY <1>1, <1>3
<1> QED BY <1>1, <1>4 DEF FirstLF

(* What follows the first LF, and the line up to it, make up the sequence. *)
LEMMA AfterLFType ==
  ASSUME NEW s \in Seq(Tokens), HasLF(s)
  PROVE  /\ AfterLF(s) \in Seq(Tokens)
         /\ Len(AfterLF(s)) < Len(s)
         /\ SubSeq(s, 1, FirstLF(s)) \in Seq(Tokens)
         /\ SubSeq(s, 1, FirstLF(s)) \o AfterLF(s) = s
<1> DEFINE k == FirstLF(s)
<1>1. k \in 1 .. Len(s) /\ Len(s) \in Nat
  BY FirstLFType, LenProperties
<1> HIDE DEF k
<1>2. \A i \in 1 .. Len(s) : s[i] \in Tokens
  BY ElementOfSeq
<1>3. SubSeq(s, k + 1, Len(s)) \in Seq(Tokens) /\ Len(SubSeq(s, k + 1, Len(s))) < Len(s)
  <2>1. \A i \in k + 1 .. Len(s) : s[i] \in Tokens
    BY <1>1, <1>2
  <2>2. k + 1 \in Int /\ Len(s) \in Int
    BY <1>1
  <2> QED BY <1>1, <2>1, <2>2, SubSeqProperties
<1>4. SubSeq(s, 1, k) \in Seq(Tokens)
  <2>1. \A i \in 1 .. k : s[i] \in Tokens
    BY <1>1, <1>2
  <2>2. k \in Int /\ 1 \in Int
    BY <1>1
  <2> QED BY <2>1, <2>2, SubSeqProperties
<1>5. SubSeq(s, 1, k) \o SubSeq(s, k + 1, Len(s)) = SubSeq(s, 1, Len(s))
  <2>1. 1 \in 1 .. Len(s) + 1 /\ k \in 1 - 1 .. Len(s) /\ Len(s) \in k .. Len(s)
    BY <1>1
  <2> QED BY <2>1, ConcatAdjacentSubSeq
<1>6. SubSeq(s, 1, Len(s)) = s
  BY SubSeqFull
<1> QED BY <1>3, <1>4, <1>5, <1>6 DEF k, AfterLF

(* A read cuts the receive queue in two without changing it. *)
LEMMA TakeType ==
  ASSUME NEW S, NEW q \in Seq(S), NEW n \in Nat,
         NEW a, a = IF Len(q) <= n THEN q ELSE SubSeq(q, 1, n)
  PROVE  /\ a \in Seq(S)
         /\ SubSeq(q, Len(a) + 1, Len(q)) \in Seq(S)
         /\ a \o SubSeq(q, Len(a) + 1, Len(q)) = q
<1>1. Len(q) \in Nat /\ \A i \in 1 .. Len(q) : q[i] \in S
  BY LenProperties, ElementOfSeq
<1>2. SubSeq(q, 1, Len(q)) = q
  BY SubSeqFull
<1>3. PICK k \in 0 .. Len(q) : a = SubSeq(q, 1, k)
  BY <1>1, <1>2
<1>4. a \in Seq(S) /\ Len(a) = k
  <2>1. \A i \in 1 .. k : q[i] \in S
    BY <1>1, <1>3
  <2>2. k \in Int /\ 1 \in Int
    BY <1>1, <1>3
  <2> QED BY <2>1, <2>2, <1>3, SubSeqProperties
<1>5. SubSeq(q, k + 1, Len(q)) \in Seq(S)
  <2>1. \A i \in k + 1 .. Len(q) : q[i] \in S
    BY <1>1, <1>3
  <2>2. k + 1 \in Int /\ Len(q) \in Int
    BY <1>1, <1>3
  <2> QED BY <2>1, <2>2, SubSeqProperties
<1>6. SubSeq(q, 1, k) \o SubSeq(q, k + 1, Len(q)) = SubSeq(q, 1, Len(q))
  <2>1. 1 \in 1 .. Len(q) + 1 /\ k \in 1 - 1 .. Len(q) /\ Len(q) \in k .. Len(q)
    BY <1>1, <1>3
  <2> QED BY <2>1, ConcatAdjacentSubSeq
<1> QED BY <1>2, <1>3, <1>4, <1>5, <1>6

(* The same for the read on descriptor f, whose session has room left. *)
LEMMA ReadType ==
  ASSUME TypeOK, NEW f \in Fds, fdt[f] \in Clients, sess[f] # NoSession,
         Len(sess[f].buf) < InBufSize
  PROVE  /\ sess[f].buf \in Seq(Tokens) /\ sess[f].request \in Requests
         /\ Arrived(f) \in Seq(Tokens) /\ Unread(f) \in Seq(Tokens)
         /\ Arrived(f) \o Unread(f) = rcvq[fdt[f]]
         /\ Data(f) \in Seq(Tokens)
<1>1. sess[f].buf \in Seq(Tokens) /\ sess[f].request \in Requests
      /\ rcvq[fdt[f]] \in Seq(Tokens)
  BY DEF TypeOK
<1>2. Room(f) \in Nat
  BY <1>1, BufAssumption, LenProperties DEF Room
<1>3. /\ Arrived(f) \in Seq(Tokens) /\ Unread(f) \in Seq(Tokens)
      /\ Arrived(f) \o Unread(f) = rcvq[fdt[f]]
  BY <1>1, <1>2, TakeType DEF Arrived, Unread
<1>4. Data(f) \in Seq(Tokens)
  BY <1>1, <1>3, ConcatProperties DEF Data
<1> QED BY <1>1, <1>3, <1>4

(* What a read leaves in the buffer is at most INBUFSIZE long. *)
LEMMA DataFits ==
  ASSUME TypeOK, NEW f \in Fds, fdt[f] \in Clients, sess[f] # NoSession,
         Len(sess[f].buf) < InBufSize
  PROVE  Len(Data(f)) <= InBufSize
<1>1. sess[f].buf \in Seq(Tokens) /\ rcvq[fdt[f]] \in Seq(Tokens) /\ Arrived(f) \in Seq(Tokens)
  BY ReadType DEF TypeOK
<1>2. Len(sess[f].buf) \in Nat /\ Len(rcvq[fdt[f]]) \in Nat /\ Room(f) \in Nat
      /\ Len(sess[f].buf) + Room(f) = InBufSize
  BY <1>1, BufAssumption, LenProperties DEF Room
<1>3. Len(Arrived(f)) <= Room(f)
  <2>1. CASE Len(rcvq[fdt[f]]) <= Room(f)
    BY <2>1 DEF Arrived
  <2>2. CASE ~(Len(rcvq[fdt[f]]) <= Room(f))
    <3>1. \A i \in 1 .. Room(f) : rcvq[fdt[f]][i] \in Tokens
      BY <1>1, <1>2, <2>2, ElementOfSeq
    <3>2. Len(SubSeq(rcvq[fdt[f]], 1, Room(f))) = IF 1 <= Room(f) THEN Room(f) - 1 + 1 ELSE 0
      BY <3>1, <1>2, SubSeqProperties
    <3> QED BY <3>2, <1>2, <2>2 DEF Arrived
  <2> QED BY <2>1, <2>2
<1>4. Len(Data(f)) = Len(sess[f].buf) + Len(Arrived(f))
  BY <1>1, ConcatProperties DEF Data
<1>5. Len(Arrived(f)) \in Nat
  BY <1>1, LenProperties
<1> QED BY <1>2, <1>3, <1>4, <1>5, BufAssumption

-----------------------------------------------------------------------------
(* The inductive invariant *)

(* What the slot and buffer properties rest on: a due accept() has a        *)
(* connection to return, the loop only visits sessions of the table, and    *)
(* the connections in the kernel's hands are neither idle nor closed.  An   *)
(* answer is written to a session the loop has passed, and a line that is   *)
(* called too long fills the session's buffer and has no LF.                *)
LoopShape ==
  /\ acceptDue => backlog # <<>>
  /\ ready \subseteq Watched
  /\ \A f \in Fds : fdt[f] # NoClient => peer[fdt[f]] \in {"here", "gone", "reset"}
  /\ \A i \in DOMAIN backlog : peer[backlog[i]] \in {"here", "gone", "reset"}
  /\ writing # NoWrite => sess[writing.fd] # NoSession /\ writing.fd \notin ready
  /\ \A f \in Fds : Rejecting(f) => Len(sess[f].buf) = InBufSize /\ ~HasLF(sess[f].buf)

IInv == TypeOK /\ SlotsMatchDescriptors /\ ReadsMakeSense /\ LoopShape

LEMMA InitInv == Init => IInv
<1> SUFFICES ASSUME Init PROVE IInv
  OBVIOUS
<1> USE DEF Init
<1>1. TypeOK
  <2>1. <<>> \in Seq(Clients) /\ <<>> \in Seq(Tokens) /\ <<>> \in Seq(Replies \X Int)
    BY EmptySeq
  <2>2. replies \in [Clients -> Seq(Replies \X Int)]
    BY <2>1
  <2>3. sent \in [Clients -> Seq(Tokens)] /\ seen \in [Clients -> Seq(Tokens)]
        /\ rcvq \in [Clients -> Seq(Tokens)] /\ backlog \in Seq(Clients)
    BY <2>1
  <2>4. sess \in [Fds -> [buf : Seq(Tokens), request : Requests] \union {NoSession}]
    OBVIOUS
  <2>5. /\ verdict \in [Clients -> {"none", "hangup", "too long"}]
        /\ peer \in [Clients -> {"idle", "here", "gone", "reset", "closed"}]
        /\ fdt \in [Fds -> Clients \union {NoClient}]
    OBVIOUS
  <2>6. acceptDue \in BOOLEAN /\ alive \in BOOLEAN
    OBVIOUS
  <2>7. prog \in Programs /\ ready \in SUBSET Fds /\ counter \in Int
    OBVIOUS
  <2>8. unread \in [Clients -> Nat] /\ overtaken \in [Clients -> [Fds -> Nat]]
    OBVIOUS
  <2>9. writing \in [fd : Fds, msg : Replies \X Int] \union {NoWrite}
    OBVIOUS
  <2> HIDE DEF Init
  <2> QED BY <2>2, <2>3, <2>4, <2>5, <2>6, <2>7, <2>8, <2>9 DEF TypeOK
<1>2. SlotsMatchDescriptors
  BY DEF SlotsMatchDescriptors
<1>3. ReadsMakeSense
  BY DEF ReadsMakeSense
<1>4. LoopShape
  BY DEF LoopShape, Watched, Rejecting
<1> QED BY <1>1, <1>2, <1>3, <1>4 DEF IInv

LEMMA ConnectInv ==
  ASSUME IInv, NEW c \in Clients, Connect(c)
  PROVE  IInv'
<1> USE DEF IInv, Connect, net, loop, hist
<1>1. Append(backlog, c) \in Seq(Clients) /\ Append(backlog, c) # <<>>
      /\ Len(Append(backlog, c)) = Len(backlog) + 1 /\ Len(backlog) \in Nat
      /\ DOMAIN Append(backlog, c) = 1 .. Len(backlog) + 1
      /\ DOMAIN backlog = 1 .. Len(backlog)
      /\ \A i \in 1 .. Len(backlog) : Append(backlog, c)[i] = backlog[i]
      /\ Append(backlog, c)[Len(backlog) + 1] = c
  <2>1. backlog \in Seq(Clients)
    BY DEF TypeOK
  <2>2. /\ Append(backlog, c) \in Seq(Clients) /\ Append(backlog, c) # <<>>
        /\ Len(Append(backlog, c)) = Len(backlog) + 1
        /\ \A i \in 1 .. Len(backlog) : Append(backlog, c)[i] = backlog[i]
        /\ Append(backlog, c)[Len(backlog) + 1] = c
    BY <2>1, AppendProperties
  <2>3. Len(backlog) \in Nat /\ DOMAIN backlog = 1 .. Len(backlog)
    BY <2>1, LenProperties
  <2>4. DOMAIN Append(backlog, c) = 1 .. Len(Append(backlog, c))
    BY <2>2, LenProperties
  <2> QED BY <2>2, <2>3, <2>4
<1>2. TypeOK'
  BY <1>1 DEF TypeOK
<1>3. \A f \in Fds : fdt[f] # c
  BY NullAssumption DEF LoopShape, TypeOK
<1>4. \A i \in DOMAIN backlog : backlog[i] # c
  BY <1>1 DEF LoopShape, TypeOK
<1>5. SlotsMatchDescriptors'
  BY <1>1, <1>3, <1>4 DEF SlotsMatchDescriptors
<1>6. ReadsMakeSense'
  BY <1>3 DEF ReadsMakeSense, Readable, Rejecting, TypeOK
<1>7. LoopShape'
  <2>1. \A f \in Fds : fdt[f] # NoClient => peer'[fdt[f]] \in {"here", "gone", "reset"}
    BY <1>3 DEF LoopShape, TypeOK
  <2>2. \A i \in 1 .. Len(backlog) : backlog[i] \in Clients /\ peer'[backlog[i]] = peer[backlog[i]]
    BY <1>1, <1>4, ElementOfSeq DEF TypeOK
  <2>3. peer'[c] = "here"
    BY DEF TypeOK
  <2>4. ASSUME NEW i \in DOMAIN backlog' PROVE peer'[backlog'[i]] \in {"here", "gone", "reset"}
    <3>1. CASE i = Len(backlog) + 1
      BY <1>1, <2>3, <3>1
    <3>2. CASE i \in 1 .. Len(backlog)
      BY <1>1, <2>2, <3>2 DEF LoopShape
    <3> QED BY <1>1, <3>1, <3>2
  <2> QED BY <1>1, <2>1, <2>4 DEF LoopShape, Watched, Rejecting
<1> QED BY <1>2, <1>5, <1>6, <1>7

LEMMA SendInv ==
  ASSUME IInv, NEW c \in Clients, Send(c)
  PROVE  IInv'
<1> USE DEF IInv, net, loop, hist
<1>1. PICK chunk \in Chunks :
        /\ rcvq' = [rcvq EXCEPT ![c] = @ \o chunk]
        /\ sent' = [sent EXCEPT ![c] = @ \o chunk]
  BY DEF Send
<1>2. /\ rcvq[c] \o chunk \in Seq(Tokens) /\ sent[c] \o chunk \in Seq(Tokens)
      /\ rcvq[c] \o chunk # <<>>
  <2>1. chunk \in Seq(Tokens) /\ chunk # <<>>
    BY ChunksAssumption
  <2>2. rcvq[c] \in Seq(Tokens) /\ sent[c] \in Seq(Tokens)
    BY DEF TypeOK
  <2>3. rcvq[c] \o chunk \in Seq(Tokens) /\ sent[c] \o chunk \in Seq(Tokens)
    BY <2>1, <2>2, ConcatProperties
  <2>4. rcvq[c] \o chunk # <<>>
    BY <2>1, <2>2, ConcatEqualIffEmpty
  <2> QED BY <2>3, <2>4
<1>3. UNCHANGED <<prog, peer, backlog, fdt, unread, sess, loop, counter, writing, alive,
                 seen, replies, verdict, overtaken>>
  BY DEF Send
<1>4. TypeOK'
  BY <1>1, <1>2, <1>3 DEF TypeOK
<1>5. SlotsMatchDescriptors'
  BY <1>3 DEF SlotsMatchDescriptors
<1>6. ReadsMakeSense'
  BY <1>1, <1>2, <1>3 DEF ReadsMakeSense, Readable, Rejecting, TypeOK
<1>7. LoopShape'
  BY <1>3 DEF LoopShape, Watched, Rejecting
<1> QED BY <1>4, <1>5, <1>6, <1>7

LEMMA TakeInv ==
  ASSUME IInv, NEW c \in Clients, Take(c)
  PROVE  IInv'
<1> USE DEF IInv, Take, net, loop, hist
<1>1. unread[c] - 1 \in Nat
  <2>1. unread[c] \in Nat /\ unread[c] > 0
    BY DEF TypeOK
  <2> QED BY ONLY <2>1
<1>2. TypeOK'
  BY <1>1 DEF TypeOK
<1>3. SlotsMatchDescriptors'
  BY DEF SlotsMatchDescriptors
<1>4. ReadsMakeSense'
  BY DEF ReadsMakeSense, Readable, Rejecting
<1>5. LoopShape'
  BY DEF LoopShape, Watched, Rejecting
<1> QED BY <1>2, <1>3, <1>4, <1>5

LEMMA LeaveInv ==
  ASSUME IInv, NEW c \in Clients, Leave(c)
  PROVE  IInv'
<1> USE DEF IInv, Leave, net, loop, hist
<1>1. TypeOK'
  BY DEF TypeOK
<1>2. SlotsMatchDescriptors'
  BY DEF SlotsMatchDescriptors
<1>3. ReadsMakeSense'
  BY DEF ReadsMakeSense, Readable, Rejecting, TypeOK
<1>4. LoopShape'
  <2>1. \A d \in Clients : peer[d] \in {"here", "gone", "reset"}
          => peer'[d] \in {"here", "gone", "reset"}
    BY DEF TypeOK
  <2>2. \A i \in DOMAIN backlog : backlog[i] \in Clients
    <3>1. backlog \in Seq(Clients)
      BY DEF TypeOK
    <3> QED BY <3>1, LenProperties, ElementOfSeq
  <2> QED BY <2>1, <2>2 DEF LoopShape, Watched, Rejecting, TypeOK
<1> QED BY <1>1, <1>2, <1>3, <1>4

LEMMA SelectInv ==
  ASSUME IInv, Select
  PROVE  IInv'
<1> USE DEF IInv, Select, AtTop, net, loop, hist
<1>1. TypeOK'
  BY DEF TypeOK, ReadableFds, Watched
<1>2. SlotsMatchDescriptors'
  BY DEF SlotsMatchDescriptors
<1>3. ReadsMakeSense'
  <2>1. \A f \in ReadableFds : f \in Fds /\ fdt[f] \in Clients /\ Readable(fdt[f])
    BY DEF ReadableFds, Watched, SlotsMatchDescriptors, TypeOK
  <2> QED BY <2>1 DEF ReadsMakeSense, Readable, Rejecting
<1>4. LoopShape'
  BY DEF LoopShape, Watched, ReadableFds, Rejecting
<1> QED BY <1>1, <1>2, <1>3, <1>4

LEMMA AcceptInv ==
  ASSUME IInv, Accept
  PROVE  IInv'
<1> USE DEF IInv, net, loop, hist
<1>1. CASE UNCHANGED <<backlog, fdt, sess>>
  <2>1. TypeOK'
    BY <1>1 DEF TypeOK, Accept
  <2>2. SlotsMatchDescriptors'
    BY <1>1 DEF SlotsMatchDescriptors, Accept
  <2>3. ReadsMakeSense'
    BY <1>1 DEF ReadsMakeSense, Accept, Readable, Rejecting
  <2>4. LoopShape'
    BY <1>1 DEF LoopShape, Accept, Watched, Rejecting
  <2> QED BY <2>1, <2>2, <2>3, <2>4
<1>2. ASSUME NEW f \in Free,
             fdt' = [fdt EXCEPT ![f] = Head(backlog)],
             sess' = [sess EXCEPT ![f] = NewSession],
             backlog' = Tail(backlog)
      PROVE  IInv'
  <2>1. /\ UNCHANGED <<prog, peer, rcvq, unread, ready, counter, writing, alive, hist>>
        /\ acceptDue' = FALSE /\ writing = NoWrite
    BY DEF Accept
  <2>2. f \in Fds /\ fdt[f] = NoClient /\ sess[f] = NoSession
    BY DEF Free, SlotsMatchDescriptors
  <2>3. /\ backlog \in Seq(Clients) /\ backlog # <<>>
        /\ Len(backlog) \in Nat \ {0}
        /\ DOMAIN backlog = 1 .. Len(backlog)
    BY LenProperties, EmptySeq DEF Accept, LoopShape, TypeOK
  <2>4. /\ Head(backlog) = backlog[1] /\ backlog[1] \in Clients
        /\ Tail(backlog) \in Seq(Clients)
        /\ Len(Tail(backlog)) = Len(backlog) - 1
        /\ \A i \in 1 .. Len(backlog) - 1 : Tail(backlog)[i] = backlog[i + 1]
        /\ DOMAIN Tail(backlog) = 1 .. Len(backlog) - 1
    <3>1. Head(backlog) = backlog[1]
      BY <2>3
    <3>2. /\ Tail(backlog) \in Seq(Clients)
          /\ Len(Tail(backlog)) = Len(backlog) - 1
          /\ \A i \in 1 .. Len(Tail(backlog)) : Tail(backlog)[i] = backlog[i + 1]
      BY <2>3, HeadTailProperties
    <3>3. DOMAIN Tail(backlog) = 1 .. Len(Tail(backlog))
      BY <3>2, LenProperties
    <3>4. backlog[1] \in Clients
      BY <2>3, ElementOfSeq
    <3> QED BY <3>1, <3>2, <3>3, <3>4
  <2>5. NewSession \in [buf : Seq(Tokens), request : Requests] /\ NewSession # NoSession
        /\ Len(NewSession.buf) = 0
    <3>1. <<>> \in Seq(Tokens) /\ Len(<<>>) = 0
      BY EmptySeq
    <3>2. NewSession \in [buf : Seq(Tokens), request : Requests] /\ NewSession.buf = <<>>
      BY <3>1 DEF NewSession, Requests
    <3> QED BY <3>1, <3>2, NullAssumption
  <2>6. TypeOK'
    BY <1>2, <2>1, <2>2, <2>4, <2>5 DEF TypeOK
  <2>7. \A g \in Fds : fdt[g] # backlog[1]
    BY <2>3 DEF SlotsMatchDescriptors
  <2>8. \A i \in DOMAIN Tail(backlog) : Tail(backlog)[i] # backlog[1]
    BY <2>3, <2>4 DEF SlotsMatchDescriptors
  <2>9. SlotsMatchDescriptors'
    <3>1. \A g \in Fds : fdt'[g] = IF g = f THEN backlog[1] ELSE fdt[g]
      BY <1>2, <2>2, <2>4 DEF TypeOK
    <3>2. \A g \in Fds : sess'[g] = IF g = f THEN NewSession ELSE sess[g]
      BY <1>2, <2>2 DEF TypeOK
    <3>3. \A g \in Fds : (fdt[g] = NoClient <=> sess[g] = NoSession)'
      BY <3>1, <3>2, <2>4, <2>5, NullAssumption DEF SlotsMatchDescriptors
    <3>4. \A g, h \in Fds : (fdt[g] = fdt[h] /\ fdt[g] # NoClient => g = h)'
      BY <3>1, <2>7 DEF SlotsMatchDescriptors
    <3>5. \A i \in DOMAIN backlog' : i + 1 \in DOMAIN backlog /\ backlog'[i] = backlog[i + 1]
      BY <1>2, <2>3, <2>4
    <3>6. \A g \in Fds, i \in DOMAIN backlog' : fdt'[g] # backlog'[i]
      BY <3>1, <3>5, <1>2, <2>8 DEF SlotsMatchDescriptors
    <3>7. \A i, j \in DOMAIN backlog' : backlog'[i] = backlog'[j] => i = j
      BY <3>5, <2>3, <2>4, <1>2 DEF SlotsMatchDescriptors
    <3> QED BY <3>3, <3>4, <3>6, <3>7 DEF SlotsMatchDescriptors
  <2>10. ReadsMakeSense'
    <3>1. f \notin ready
      BY <2>2 DEF LoopShape, Watched
    <3>2. \A g \in Fds : g # f => fdt'[g] = fdt[g] /\ sess'[g] = sess[g]
      BY <1>2, <2>2 DEF TypeOK
    <3>3. sess'[f] = NewSession /\ 0 < InBufSize
      <4>1. 0 < InBufSize
        BY BufAssumption
      <4>2. sess'[f] = NewSession
        BY <1>2, <2>2 DEF TypeOK
      <4> QED BY <4>1, <4>2
    <3>4. \A g \in Fds : sess'[g] # NoSession => Len(sess'[g].buf) < InBufSize
      BY <2>1, <2>5, <3>2, <3>3 DEF ReadsMakeSense, Rejecting
    <3>5. \A g \in ready : g \in Fds /\ g # f
      BY <3>1 DEF TypeOK
    <3>6. \A c \in Clients : Readable(c)' = Readable(c)
      BY <2>1 DEF Readable
    <3>7. \A g \in ready' : fdt'[g] \in Clients /\ Readable(fdt[g])'
      BY <2>1, <3>2, <3>5, <3>6 DEF ReadsMakeSense, Readable
    <3> QED BY <3>4, <3>7 DEF ReadsMakeSense
  <2>11. LoopShape'
    <3>1. peer[backlog[1]] \in {"here", "gone", "reset"}
      BY <2>3 DEF LoopShape
    <3>2. Watched \subseteq Watched'
      BY <1>2, <2>2, <2>5 DEF Watched, TypeOK
    <3>3. \A g \in Fds : fdt'[g] # NoClient => peer'[fdt'[g]] \in {"here", "gone", "reset"}
      BY <1>2, <2>1, <2>2, <2>4, <3>1 DEF LoopShape, TypeOK
    <3>4. \A i \in DOMAIN backlog' : peer'[backlog'[i]] \in {"here", "gone", "reset"}
      BY <1>2, <2>1, <2>3, <2>4 DEF LoopShape
    <3> QED BY <2>1, <3>2, <3>3, <3>4 DEF LoopShape, Rejecting
  <2> QED BY <2>6, <2>9, <2>10, <2>11
<1> QED BY <1>1, <1>2 DEF Accept

(* The descriptor of a session is the one of a connection that has no other *)
(* and has left the backlog.                                                *)
LEMMA SessionOwner ==
  ASSUME IInv, NEW f \in Fds, sess[f] # NoSession
  PROVE  /\ fdt[f] \in Clients /\ peer[fdt[f]] \in {"here", "gone", "reset"}
         /\ \A g \in Fds : g # f => fdt[g] # fdt[f]
         /\ \A i \in DOMAIN backlog : backlog[i] # fdt[f]
<1> USE DEF IInv
<1>1. fdt[f] # NoClient /\ fdt[f] \in Clients
  BY DEF SlotsMatchDescriptors, TypeOK
<1>2. peer[fdt[f]] \in {"here", "gone", "reset"}
  BY <1>1 DEF LoopShape
<1>3. \A g \in Fds : g # f => fdt[g] # fdt[f]
  BY <1>1 DEF SlotsMatchDescriptors
<1>4. \A i \in DOMAIN backlog : backlog[i] # fdt[f]
  BY DEF SlotsMatchDescriptors
<1> QED BY <1>1, <1>2, <1>3, <1>4

(* The descriptor the loop has reached belongs to a session with room. *)
LEMMA ReachedType ==
  ASSUME IInv, NEW f \in Fds, NextDescriptor(f)
  PROVE  /\ f \in ready /\ ready' = ready \ {f} /\ acceptDue' = FALSE /\ alive = TRUE
         /\ writing = NoWrite
         /\ fdt[f] \in Clients /\ sess[f] # NoSession /\ Len(sess[f].buf) < InBufSize
         /\ peer[fdt[f]] \in {"here", "gone", "reset"}
         /\ \A g \in Fds : g # f => fdt[g] # fdt[f]
         /\ \A i \in DOMAIN backlog : backlog[i] # fdt[f]
<1> USE DEF IInv, NextDescriptor
<1>1. f \in ready /\ ready' = ready \ {f} /\ writing = NoWrite
  OBVIOUS
<1>2. acceptDue = FALSE /\ alive = TRUE
  BY DEF TypeOK
<1>3. sess[f] # NoSession
  BY DEF LoopShape, Watched
<1>4. Len(sess[f].buf) < InBufSize
  BY <1>1, <1>3 DEF ReadsMakeSense, Rejecting
<1> QED BY <1>1, <1>2, <1>3, <1>4, SessionOwner

(* What a turn of the loop leaves alone, whatever it reads. *)
LEMMA TurnType ==
  ASSUME IInv, NEW f \in Fds, Serve(f)
  PROVE  /\ NextDescriptor(f) /\ UNCHANGED <<prog, backlog, unread, alive, sent, replies>>
         /\ overtaken' \in [Clients -> [Fds -> Nat]]
<1>1. \A c \in Clients, g \in Fds : overtaken[c][g] \in Nat /\ overtaken[c][g] + 1 \in Nat
  <2>1. \A c \in Clients, g \in Fds : overtaken[c][g] \in Nat
    BY DEF IInv, TypeOK
  <2> QED BY ONLY <2>1
<1>2. NextDescriptor(f) /\ UNCHANGED <<prog, backlog, unread, alive, sent, replies>>
  BY DEF Serve
<1>3. overtaken' = [c \in Clients |-> [g \in Fds |->
                     IF c = fdt[f] THEN 0
                     ELSE IF g = f /\ Waiting(c) THEN overtaken[c][g] + 1
                     ELSE overtaken[c][g]]]
  BY DEF Serve
<1>4. overtaken' \in [Clients -> [Fds -> Nat]]
  BY <1>1, <1>3
<1> QED BY <1>2, <1>4

(* Closing the session of a descriptor that the loop has passed. *)
LEMMA CloseInv ==
  ASSUME IInv, NEW f \in Fds, sess[f] # NoSession,
         NEW why \in {"hangup", "too long"}, CloseSession(f, why),
         peer' = [peer EXCEPT ![fdt[f]] = "closed"],
         ready' \subseteq ready, f \notin ready', acceptDue' \in BOOLEAN, acceptDue' => acceptDue,
         \A g \in Fds : Rejecting(g) => g = f, writing' = NoWrite,
         UNCHANGED <<prog, backlog, counter, alive, sent, seen>>,
         unread' \in [Clients -> Nat], overtaken' \in [Clients -> [Fds -> Nat]],
         replies' \in [Clients -> Seq(Replies \X Int)]
  PROVE  IInv'
<1> USE DEF CloseSession
<1>1. /\ fdt[f] \in Clients
      /\ \A g \in Fds : g # f => fdt[g] # fdt[f]
      /\ \A i \in DOMAIN backlog : backlog[i] # fdt[f]
  BY SessionOwner
<1>2. TypeOK /\ SlotsMatchDescriptors /\ ReadsMakeSense /\ LoopShape
  BY DEF IInv
<1>3. /\ fdt'[f] = NoClient /\ sess'[f] = NoSession
      /\ \A g \in Fds : g # f => fdt'[g] = fdt[g] /\ sess'[g] = sess[g]
      /\ \A c \in Clients : c # fdt[f] => peer'[c] = peer[c] /\ rcvq'[c] = rcvq[c]
  BY <1>1, <1>2 DEF TypeOK
<1>4. TypeOK'
  <2>1. <<>> \in Seq(Tokens)
    BY EmptySeq
  <2>2. rcvq' \in [Clients -> Seq(Tokens)]
    BY <1>2, <2>1 DEF TypeOK
  <2>3. /\ fdt' \in [Fds -> Clients \union {NoClient}]
        /\ sess' \in [Fds -> [buf : Seq(Tokens), request : Requests] \union {NoSession}]
        /\ peer' \in [Clients -> {"idle", "here", "gone", "reset", "closed"}]
        /\ verdict' \in [Clients -> {"none", "hangup", "too long"}]
        /\ ready' \in SUBSET Fds
    BY <1>1, <1>2 DEF TypeOK
  <2> QED BY <1>2, <2>2, <2>3 DEF TypeOK
<1>5. SlotsMatchDescriptors'
  <2>1. \A g \in Fds : fdt'[g] = NoClient <=> sess'[g] = NoSession
    BY <1>2, <1>3 DEF SlotsMatchDescriptors
  <2>2. ASSUME NEW g \in Fds, NEW h \in Fds, fdt'[g] = fdt'[h], fdt'[g] # NoClient
        PROVE  g = h
    <3>1. g # f /\ h # f
      BY <1>3, <2>2
    <3>2. fdt[g] = fdt[h] /\ fdt[g] # NoClient
      BY <1>3, <2>2, <3>1
    <3> QED BY <1>2, <3>2 DEF SlotsMatchDescriptors
  <2>3. ASSUME NEW g \in Fds, NEW i \in DOMAIN backlog PROVE fdt'[g] # backlog[i]
    <3>1. backlog[i] \in Clients
      <4>1. backlog \in Seq(Clients)
        BY <1>2 DEF TypeOK
      <4> QED BY <4>1, LenProperties, ElementOfSeq
    <3>2. CASE g = f
      <4>1. fdt'[g] = NoClient /\ NoClient \notin Clients
        BY <1>3, <3>2, NullAssumption
      <4> QED BY ONLY <3>1, <4>1
    <3>3. CASE g # f
      <4>1. fdt[g] \notin {backlog[j] : j \in DOMAIN backlog}
        BY <1>2 DEF SlotsMatchDescriptors
      <4>2. fdt'[g] = fdt[g]
        BY <1>3, <3>3
      <4> QED BY <4>1, <4>2
    <3> QED BY <3>2, <3>3
  <2>4. \A i, j \in DOMAIN backlog : backlog[i] = backlog[j] => i = j
    BY <1>2 DEF SlotsMatchDescriptors
  <2>5. backlog' = backlog
    OBVIOUS
  <2>6. \A g, h \in Fds : fdt'[g] = fdt'[h] /\ fdt'[g] # NoClient => g = h
    BY ONLY <2>2
  <2>7. \A g \in Fds : fdt'[g] \notin {backlog'[i] : i \in DOMAIN backlog'}
    BY ONLY <2>3, <2>5
  <2>8. \A i, j \in DOMAIN backlog' : backlog'[i] = backlog'[j] => i = j
    BY ONLY <2>4, <2>5
  <2> QED BY ONLY <2>1, <2>6, <2>7, <2>8 DEF SlotsMatchDescriptors
<1>6. ReadsMakeSense'
  <2>1. \A g \in Fds : sess'[g] # NoSession => Len(sess'[g].buf) < InBufSize
    BY <1>2, <1>3 DEF ReadsMakeSense
  <2>2. ASSUME NEW g \in ready' PROVE fdt'[g] \in Clients /\ Readable(fdt[g])'
    <3>1. g \in Fds /\ g # f /\ g \in ready
      BY <1>2 DEF TypeOK
    <3>2. fdt[g] \in Clients /\ fdt[g] # fdt[f] /\ Readable(fdt[g])
      BY <1>1, <1>2, <3>1 DEF ReadsMakeSense
    <3> QED BY <1>3, <3>1, <3>2 DEF Readable
  <2> QED BY <1>3, <2>1, <2>2 DEF ReadsMakeSense, Readable
<1>7. LoopShape'
  <2>1. ready' \subseteq Watched'
    <3> SUFFICES ASSUME NEW g \in ready' PROVE g \in Fds /\ sess'[g] # NoSession
      BY DEF Watched
    <3>1. g \in Fds /\ sess[g] # NoSession /\ g # f
      BY <1>2 DEF LoopShape, Watched
    <3> QED BY <1>3, <3>1
  <2>2. \A g \in Fds : fdt'[g] # NoClient => peer'[fdt'[g]] \in {"here", "gone", "reset"}
    <3> SUFFICES ASSUME NEW g \in Fds, fdt'[g] # NoClient
                 PROVE  peer'[fdt'[g]] \in {"here", "gone", "reset"}
      OBVIOUS
    <3>1. g # f /\ fdt'[g] = fdt[g] /\ fdt[g] # NoClient
      BY <1>3
    <3>2. fdt[g] \in Clients /\ fdt[g] # fdt[f]
      BY <1>1, <1>2, <3>1 DEF TypeOK
    <3> QED BY <1>2, <1>3, <3>1, <3>2 DEF LoopShape
  <2>3. \A i \in DOMAIN backlog : backlog[i] \in Clients
    <3>1. backlog \in Seq(Clients)
      BY <1>2 DEF TypeOK
    <3> QED BY <3>1, LenProperties, ElementOfSeq
  <2>4. \A i \in DOMAIN backlog' : peer'[backlog'[i]] \in {"here", "gone", "reset"}
    <3>1. \A i \in DOMAIN backlog : peer[backlog[i]] \in {"here", "gone", "reset"}
      BY <1>2 DEF LoopShape
    <3>2. \A i \in DOMAIN backlog : peer'[backlog[i]] = peer[backlog[i]]
      BY ONLY <1>1, <1>3, <2>3
    <3>3. backlog' = backlog
      OBVIOUS
    <3> QED BY ONLY <3>1, <3>2, <3>3
  <2>5. acceptDue' => backlog' # <<>>
    BY <1>2 DEF LoopShape
  <2>6. writing' = NoWrite /\ \A g \in Fds : ~Rejecting(g)'
    BY DEF Rejecting
  <2> QED BY ONLY <2>1, <2>2, <2>4, <2>5, <2>6 DEF LoopShape
<1> QED BY <1>4, <1>5, <1>6, <1>7 DEF IInv

(* Storing what is left after a read in the session of that descriptor: it  *)
(* fills the buffer only if the session is going to be rejected.            *)
Stored(f, s) ==
  \/ writing' = NoWrite /\ Len(s.buf) < InBufSize
  \/ \E m \in Replies \X Int :
       /\ writing' = [fd |-> f, msg |-> m]
       /\ \/ m # TooLong /\ Len(s.buf) < InBufSize
          \/ m = TooLong /\ Len(s.buf) = InBufSize /\ ~HasLF(s.buf)

LEMMA StoreInv ==
  ASSUME IInv, NEW f \in Fds, Serve(f),
         NEW s \in [buf : Seq(Tokens), request : Requests], Stored(f, s),
         NEW q \in Seq(Tokens),
         sess' = [sess EXCEPT ![f] = s],
         rcvq' = [rcvq EXCEPT ![fdt[f]] = q],
         UNCHANGED <<peer, fdt, verdict>>,
         seen' \in [Clients -> Seq(Tokens)], counter' \in Int
  PROVE  IInv'
<1>1. /\ f \in ready /\ ready' = ready \ {f} /\ acceptDue' = FALSE
      /\ fdt[f] \in Clients /\ writing = NoWrite
      /\ \A g \in Fds : g # f => fdt[g] # fdt[f]
      /\ UNCHANGED <<prog, backlog, unread, alive, sent, replies>>
      /\ overtaken' \in [Clients -> [Fds -> Nat]]
  BY TurnType, ReachedType
<1>2. TypeOK /\ SlotsMatchDescriptors /\ ReadsMakeSense /\ LoopShape
  BY DEF IInv
<1>3. s # NoSession
  BY NullAssumption
<1>4. /\ sess'[f] = s
      /\ \A g \in Fds : g # f => sess'[g] = sess[g]
      /\ \A c \in Clients : c # fdt[f] => rcvq'[c] = rcvq[c]
  BY <1>1, <1>2 DEF TypeOK
<1>5. /\ writing' \in [fd : Fds, msg : Replies \X Int] \union {NoWrite}
      /\ writing' # NoWrite => writing'.fd = f
      /\ Rejecting(f)' => Len(s.buf) = InBufSize /\ ~HasLF(s.buf)
      /\ ~Rejecting(f)' => Len(s.buf) < InBufSize
  <2>1. CASE writing' = NoWrite /\ Len(s.buf) < InBufSize
    BY <2>1 DEF Rejecting
  <2>2. ASSUME NEW m \in Replies \X Int, writing' = [fd |-> f, msg |-> m],
               \/ m # TooLong /\ Len(s.buf) < InBufSize
               \/ m = TooLong /\ Len(s.buf) = InBufSize /\ ~HasLF(s.buf)
        PROVE  /\ writing' \in [fd : Fds, msg : Replies \X Int] /\ writing'.fd = f
               /\ Rejecting(f)' => Len(s.buf) = InBufSize /\ ~HasLF(s.buf)
               /\ ~Rejecting(f)' => Len(s.buf) < InBufSize
    <3>1. writing' \in [fd : Fds, msg : Replies \X Int] /\ writing'.fd = f /\ writing'.msg = m
      BY <2>2
    <3>2. Rejecting(f)' <=> m = TooLong
      BY <3>1, NullAssumption DEF Rejecting
    <3> QED BY <2>2, <3>1, <3>2
  <2> QED BY <2>1, <2>2 DEF Stored
<1>6. TypeOK'
  <2>1. /\ sess' \in [Fds -> [buf : Seq(Tokens), request : Requests] \union {NoSession}]
        /\ rcvq' \in [Clients -> Seq(Tokens)]
        /\ ready' \in SUBSET Fds
    BY <1>1, <1>2 DEF TypeOK
  <2>2. acceptDue' \in BOOLEAN
    BY <1>1
  <2> QED BY <1>1, <1>2, <1>5, <2>1, <2>2 DEF TypeOK
<1>7. SlotsMatchDescriptors'
  <2>1. fdt[f] # NoClient
    BY <1>1, NullAssumption
  <2> QED BY <1>1, <1>2, <1>3, <1>4, <2>1 DEF SlotsMatchDescriptors
<1>8. \A g \in Fds : g # f => ~Rejecting(g)'
  BY <1>5 DEF Rejecting
<1>9. ReadsMakeSense'
  <2>1. \A g \in Fds : sess'[g] # NoSession /\ ~Rejecting(g)' => Len(sess'[g].buf) < InBufSize
    BY <1>1, <1>2, <1>4, <1>5 DEF ReadsMakeSense, Rejecting
  <2>2. ASSUME NEW g \in ready' PROVE fdt'[g] \in Clients /\ Readable(fdt[g])'
    <3>1. g \in Fds /\ g # f /\ g \in ready
      BY <1>1, <1>2 DEF TypeOK
    <3>2. fdt[g] \in Clients /\ fdt[g] # fdt[f] /\ Readable(fdt[g])
      BY <1>1, <1>2, <3>1 DEF ReadsMakeSense
    <3> QED BY <1>4, <3>1, <3>2 DEF Readable
  <2> QED BY <2>1, <2>2 DEF ReadsMakeSense, Readable
<1>10. LoopShape'
  <2>1. ready' \subseteq Watched'
    BY <1>1, <1>2, <1>3, <1>4 DEF LoopShape, Watched
  <2>2. /\ \A g \in Fds : fdt'[g] # NoClient => peer'[fdt'[g]] \in {"here", "gone", "reset"}
        /\ \A i \in DOMAIN backlog' : peer'[backlog'[i]] \in {"here", "gone", "reset"}
    BY <1>1, <1>2 DEF LoopShape
  <2>3. writing' # NoWrite => sess'[writing'.fd] # NoSession /\ writing'.fd \notin ready'
    BY <1>1, <1>3, <1>4, <1>5
  <2>4. \A g \in Fds : Rejecting(g)' => Len(sess'[g].buf) = InBufSize /\ ~HasLF(sess'[g].buf)
    BY <1>4, <1>5, <1>8
  <2> QED BY <1>1, <2>1, <2>2, <2>3, <2>4 DEF LoopShape, Rejecting
<1> QED BY <1>6, <1>7, <1>9, <1>10 DEF IInv

(* The answers that are not the rejection. *)
LEMMA RespondType ==
  ASSUME TypeOK, writing = NoWrite, NEW f \in Fds, NEW r, Respond(f, r)
  PROVE  /\ counter' \in Int
         /\ \/ writing' = NoWrite
            \/ \E m \in Replies \X Int : m # TooLong /\ writing' = [fd |-> f, msg |-> m]
<1>1. counter \in Int /\ counter + 1 \in Int /\ counter - 1 \in Int
  <2>1. counter \in Int
    BY DEF TypeOK
  <2> QED BY ONLY <2>1
<1>2. /\ <<"count", counter>> \in Replies \X Int /\ <<"count", counter>> # TooLong
      /\ <<"unknown", 0>> \in Replies \X Int /\ <<"unknown", 0>> # TooLong
  <2>1. "count" \in Replies /\ "unknown" \in Replies /\ 0 \in Int
    BY DEF Replies
  <2> QED BY <1>1, <2>1 DEF TooLong
<1> QED BY <1>1, <1>2 DEF Respond, Silent, Answer

LEMMA HangUpInv ==
  ASSUME IInv, NEW f \in Fds, Serve(f), HangUp(f)
  PROVE  IInv'
<1>1. /\ f \in ready /\ ready' = ready \ {f} /\ acceptDue' = FALSE
      /\ sess[f] # NoSession /\ writing = NoWrite
      /\ UNCHANGED <<prog, backlog, unread, alive, sent, replies>>
      /\ overtaken' \in [Clients -> [Fds -> Nat]]
  BY TurnType, ReachedType
<1>2. /\ CloseSession(f, "hangup") /\ peer' = [peer EXCEPT ![fdt[f]] = "closed"]
      /\ UNCHANGED <<counter, writing, seen>>
  BY DEF HangUp
<1>3. /\ replies' \in [Clients -> Seq(Replies \X Int)] /\ unread' \in [Clients -> Nat]
      /\ acceptDue' \in BOOLEAN /\ ~acceptDue'
  BY <1>1 DEF IInv, TypeOK
<1>4. ready' \subseteq ready /\ f \notin ready' /\ \A g \in Fds : ~Rejecting(g)
  BY <1>1 DEF Rejecting
<1> QED BY <1>1, <1>2, <1>3, <1>4, CloseInv

LEMMA RejectInv ==
  ASSUME IInv, NEW f \in Fds, Serve(f), Reject(f)
  PROVE  IInv'
<1>1. /\ TypeOK /\ fdt[f] \in Clients /\ sess[f] # NoSession
      /\ Len(sess[f].buf) < InBufSize
  BY TurnType, ReachedType DEF IInv
<1>2. /\ sess[f].request \in Requests /\ Unread(f) \in Seq(Tokens) /\ Data(f) \in Seq(Tokens)
  BY <1>1, ReadType
<1>3. sess[f] \in [buf : Seq(Tokens), request : Requests]
  BY <1>1 DEF TypeOK
<1> DEFINE s == [sess[f] EXCEPT !.buf = Data(f)]
<1>4. /\ s \in [buf : Seq(Tokens), request : Requests]
      /\ s.buf = Data(f)
  BY <1>2, <1>3
<1>5. Len(s.buf) = InBufSize /\ ~HasLF(s.buf)
  <2>1. Len(Data(f)) \in Nat /\ Len(Data(f)) <= InBufSize
    BY <1>1, <1>2, LenProperties, DataFits
  <2>2. Len(Data(f)) >= InBufSize /\ ~HasLF(Data(f))
    BY DEF Reject, Full
  <2> QED BY <1>4, <2>1, <2>2, BufAssumption
<1>6. TooLong \in Replies \X Int
  <2>1. "too long" \in Replies /\ 0 \in Int
    BY DEF Replies
  <2> QED BY <2>1 DEF TooLong
<1>7. /\ sess' = [sess EXCEPT ![f] = s]
      /\ rcvq' = [rcvq EXCEPT ![fdt[f]] = Unread(f)]
      /\ UNCHANGED <<peer, fdt, counter, seen, verdict>>
      /\ writing' = [fd |-> f, msg |-> TooLong]
  BY DEF Reject, Answer
<1> HIDE DEF s
<1>8. Stored(f, s)
  BY <1>5, <1>6, <1>7 DEF Stored
<1>9. seen' \in [Clients -> Seq(Tokens)] /\ counter' \in Int
  BY <1>1, <1>7 DEF TypeOK
<1> QED BY <1>2, <1>4, <1>7, <1>8, <1>9, StoreInv

LEMMA KeepPartialInv ==
  ASSUME IInv, NEW f \in Fds, Serve(f), KeepPartial(f)
  PROVE  IInv'
<1>1. /\ TypeOK /\ fdt[f] \in Clients /\ sess[f] # NoSession
      /\ Len(sess[f].buf) < InBufSize /\ writing = NoWrite
  BY TurnType, ReachedType DEF IInv
<1>2. /\ sess[f].request \in Requests /\ Unread(f) \in Seq(Tokens) /\ Data(f) \in Seq(Tokens)
  BY <1>1, ReadType
<1>3. sess[f] \in [buf : Seq(Tokens), request : Requests]
  BY <1>1 DEF TypeOK
<1> DEFINE s == [sess[f] EXCEPT !.buf = Data(f)]
<1>4. /\ s \in [buf : Seq(Tokens), request : Requests]
      /\ s.buf = Data(f)
  BY <1>2, <1>3
<1>5. Len(s.buf) < InBufSize
  <2>1. Len(Data(f)) \in Nat
    BY <1>2, LenProperties
  <2>2. ~ (Len(Data(f)) >= InBufSize)
    BY DEF KeepPartial, Full
  <2> QED BY <1>4, <2>1, <2>2, BufAssumption
<1>6. /\ counter' \in Int
      /\ \/ writing' = NoWrite
         \/ \E m \in Replies \X Int : m # TooLong /\ writing' = [fd |-> f, msg |-> m]
  <2>1. CASE Silent /\ UNCHANGED counter
    BY <1>1, <2>1 DEF Silent, TypeOK
  <2>2. CASE Respond(f, sess[f].request)
    BY <1>1, <2>2, RespondType
  <2> QED BY <2>1, <2>2 DEF KeepPartial
<1>7. /\ sess' = [sess EXCEPT ![f] = s]
      /\ rcvq' = [rcvq EXCEPT ![fdt[f]] = Unread(f)]
      /\ UNCHANGED <<peer, fdt, seen, verdict>>
  BY DEF KeepPartial
<1> HIDE DEF s
<1>8. Stored(f, s)
  BY <1>5, <1>6 DEF Stored
<1>9. seen' \in [Clients -> Seq(Tokens)]
  BY <1>1, <1>7 DEF TypeOK
<1> QED BY <1>2, <1>4, <1>6, <1>7, <1>8, <1>9, StoreInv

LEMMA TakeLineInv ==
  ASSUME IInv, NEW f \in Fds, Serve(f), TakeLine(f)
  PROVE  IInv'
<1>1. /\ TypeOK /\ fdt[f] \in Clients /\ sess[f] # NoSession
      /\ Len(sess[f].buf) < InBufSize /\ writing = NoWrite
  BY TurnType, ReachedType DEF IInv
<1>2. Unread(f) \in Seq(Tokens) /\ Data(f) \in Seq(Tokens) /\ HasLF(Data(f))
  BY <1>1, ReadType DEF TakeLine
<1>3. /\ AfterLF(Data(f)) \in Seq(Tokens)
      /\ Len(AfterLF(Data(f))) < Len(Data(f))
      /\ SubSeq(Data(f), 1, FirstLF(Data(f))) \in Seq(Tokens)
  BY <1>2, AfterLFType
<1> DEFINE r == RequestOf(Data(f), sess[f].request)
           s == [buf |-> AfterLF(Data(f)),
                 request |-> IF prog = "counter" THEN r ELSE "unknown"]
<1>4. r \in Requests
  BY DEF RequestOf, Parse, Requests
<1> HIDE DEF r
<1>5. /\ s \in [buf : Seq(Tokens), request : Requests]
      /\ s.buf = AfterLF(Data(f))
  BY <1>3, <1>4 DEF Requests
<1>6. Len(s.buf) < InBufSize
  <2>1. Len(Data(f)) \in Nat /\ Len(AfterLF(Data(f))) \in Nat
    BY <1>2, <1>3, LenProperties
  <2>2. Len(Data(f)) <= InBufSize
    BY <1>1, DataFits
  <2> QED BY <1>3, <1>5, <2>1, <2>2, BufAssumption
<1>7. /\ sess' = [sess EXCEPT ![f] = s]
      /\ rcvq' = [rcvq EXCEPT ![fdt[f]] = Unread(f)]
      /\ seen' = [seen EXCEPT ![fdt[f]] = @ \o SubSeq(Data(f), 1, FirstLF(Data(f)))]
      /\ UNCHANGED <<peer, fdt, verdict>>
  BY DEF TakeLine, r
<1>8. /\ counter' \in Int
      /\ \/ writing' = NoWrite
         \/ \E m \in Replies \X Int : m # TooLong /\ writing' = [fd |-> f, msg |-> m]
  <2>1. CASE Answer(f, <<"ok", 0>>) /\ UNCHANGED counter
    <3>1. "ok" \in Replies /\ 0 \in Int
      BY DEF Replies
    <3>2. <<"ok", 0>> \in Replies \X Int /\ <<"ok", 0>> # TooLong
      BY <3>1 DEF TooLong
    <3>3. counter' \in Int
      BY <1>1, <2>1 DEF TypeOK
    <3> QED BY <2>1, <3>2, <3>3 DEF Answer
  <2>2. CASE Respond(f, r)
    BY <1>1, <2>2, RespondType
  <2> QED BY <2>1, <2>2 DEF TakeLine, r
<1>9. seen' \in [Clients -> Seq(Tokens)]
  <2>1. seen[fdt[f]] \in Seq(Tokens)
    BY <1>1 DEF TypeOK
  <2>2. seen[fdt[f]] \o SubSeq(Data(f), 1, FirstLF(Data(f))) \in Seq(Tokens)
    BY <1>3, <2>1, ConcatProperties
  <2> QED BY <1>1, <1>7, <2>2 DEF TypeOK
<1> HIDE DEF s
<1>10. Stored(f, s)
  BY <1>6, <1>8 DEF Stored
<1> QED BY <1>2, <1>5, <1>7, <1>8, <1>9, <1>10, StoreInv

(* The session that an answer is written to. *)
LEMMA WritingType ==
  ASSUME IInv, writing # NoWrite
  PROVE  /\ writing.fd \in Fds /\ writing.msg \in Replies \X Int
         /\ sess[writing.fd] # NoSession /\ writing.fd \notin ready
         /\ fdt[writing.fd] \in Clients
         /\ peer[fdt[writing.fd]] \in {"here", "gone", "reset"}
<1>1. writing.fd \in Fds /\ writing.msg \in Replies \X Int
  BY DEF IInv, TypeOK
<1>2. sess[writing.fd] # NoSession /\ writing.fd \notin ready
  BY DEF IInv, LoopShape
<1> QED BY <1>1, <1>2, SessionOwner

LEMMA WriteInv ==
  ASSUME IInv, Write
  PROVE  IInv'
<1> DEFINE f == writing.fd
           c == fdt[writing.fd]
<1>1. /\ f \in Fds /\ writing.msg \in Replies \X Int /\ sess[f] # NoSession /\ f \notin ready
      /\ c \in Clients /\ peer[c] \in {"here", "gone", "reset"}
  BY WritingType DEF Write
<1>2. /\ writing' = NoWrite
      /\ UNCHANGED <<prog, backlog, loop, counter, alive, sent, seen, overtaken>>
  BY DEF Write
<1>3. TypeOK /\ SlotsMatchDescriptors /\ ReadsMakeSense /\ LoopShape
  BY DEF IInv
<1>4. replies' \in [Clients -> Seq(Replies \X Int)] /\ unread' \in [Clients -> Nat]
  <2>1. CASE UNCHANGED <<replies, unread>>
    BY <1>3, <2>1 DEF TypeOK
  <2>2. CASE /\ replies' = [replies EXCEPT ![c] = Append(@, writing.msg)]
             /\ unread' = [unread EXCEPT ![c] = @ + 1]
    <3>1. replies[c] \in Seq(Replies \X Int) /\ unread[c] + 1 \in Nat
      <4>1. replies[c] \in Seq(Replies \X Int) /\ unread[c] \in Nat
        BY <1>1, <1>3 DEF TypeOK
      <4> QED BY ONLY <4>1
    <3>2. Append(replies[c], writing.msg) \in Seq(Replies \X Int)
      BY <1>1, <3>1, AppendProperties
    <3> QED BY <1>3, <2>2, <3>1, <3>2 DEF TypeOK
  <2> QED BY <2>1, <2>2 DEF Write
<1>5. CASE CloseSession(f, "too long") /\ peer' = [peer EXCEPT ![c] = "closed"]
  <2>1. \A g \in Fds : Rejecting(g) => g = f
    BY DEF Rejecting
  <2>2. /\ ready' \subseteq ready /\ f \notin ready' /\ acceptDue' \in BOOLEAN
        /\ acceptDue' => acceptDue
    BY <1>1, <1>2, <1>3 DEF TypeOK, loop
  <2>3. overtaken' \in [Clients -> [Fds -> Nat]]
    BY <1>2, <1>3 DEF TypeOK
  <2> HIDE DEF f
  <2> QED BY <1>1, <1>2, <1>4, <1>5, <2>1, <2>2, <2>3, CloseInv DEF f
<1>6. CASE /\ writing.msg # TooLong
           /\ peer' = [peer EXCEPT ![c] = IF @ = "gone" THEN "reset" ELSE @]
           /\ UNCHANGED <<rcvq, fdt, sess, verdict>>
  <2>1. \A d \in Clients :
          /\ peer'[d] = peer[d] \/ (d = c /\ peer'[d] = "reset" /\ peer[d] = "gone")
          /\ peer[d] \in {"here", "gone", "reset"} => peer'[d] \in {"here", "gone", "reset"}
    BY <1>1, <1>3, <1>6 DEF TypeOK
  <2>2. TypeOK'
    BY <1>1, <1>2, <1>3, <1>4, <1>6 DEF TypeOK, loop
  <2>3. SlotsMatchDescriptors'
    BY <1>2, <1>3, <1>6 DEF SlotsMatchDescriptors
  <2>4. ReadsMakeSense'
    <3>1. \A g \in Fds : ~Rejecting(g)
      BY <1>6 DEF Rejecting
    <3>2. \A g \in Fds : sess'[g] # NoSession => Len(sess'[g].buf) < InBufSize
      BY <1>3, <1>6, <3>1 DEF ReadsMakeSense
    <3>3. \A g \in ready' : fdt'[g] \in Clients /\ Readable(fdt[g])'
      BY <1>2, <1>3, <1>6, <2>1 DEF ReadsMakeSense, Readable, loop
    <3> QED BY <1>6, <3>2, <3>3 DEF ReadsMakeSense, Readable
  <2>5. LoopShape'
    <3>1. \A i \in DOMAIN backlog : backlog[i] \in Clients
      <4>1. backlog \in Seq(Clients)
        BY <1>3 DEF TypeOK
      <4> QED BY <4>1, LenProperties, ElementOfSeq
    <3>2. \A g \in Fds : fdt[g] # NoClient => fdt[g] \in Clients
      BY <1>3 DEF TypeOK
    <3> QED BY <1>2, <1>3, <1>6, <2>1, <3>1, <3>2 DEF LoopShape, Watched, Rejecting, loop
  <2> QED BY <2>2, <2>3, <2>4, <2>5 DEF IInv
<1> QED BY <1>5, <1>6 DEF Write

LEMMA SigpipeInv ==
  ASSUME IInv, Sigpipe
  PROVE  IInv'
<1> USE DEF IInv, Sigpipe, net, loop, hist
<1>1. TypeOK'
  BY DEF TypeOK
<1>2. SlotsMatchDescriptors'
  BY DEF SlotsMatchDescriptors
<1>3. ReadsMakeSense'
  BY DEF ReadsMakeSense, Readable, Rejecting
<1>4. LoopShape'
  BY DEF LoopShape, Watched, Rejecting
<1> QED BY <1>1, <1>2, <1>3, <1>4

-----------------------------------------------------------------------------
(* Every step keeps the inductive invariant, so it holds in every           *)
(* reachable state, whatever the clients do and however many there are.     *)
LEMMA StepInv == IInv /\ [Next]_vars => IInv'
<1> SUFFICES ASSUME IInv, [Next]_vars PROVE IInv'
  OBVIOUS
<1>1. CASE Select
  BY <1>1, SelectInv
<1>2. CASE Accept
  BY <1>2, AcceptInv
<1>3. ASSUME NEW f \in Fds, Serve(f) PROVE IInv'
  BY <1>3, HangUpInv, TakeLineInv, KeepPartialInv, RejectInv DEF Serve
<1>4. ASSUME NEW c \in Clients, Connect(c) \/ Send(c) \/ Take(c) \/ Leave(c) PROVE IInv'
  BY <1>4, ConnectInv, SendInv, TakeInv, LeaveInv
<1>5. CASE UNCHANGED vars
  <2> USE <1>5 DEF vars, net, loop, hist, IInv
  <2>1. TypeOK'
    BY DEF TypeOK
  <2>2. SlotsMatchDescriptors'
    BY DEF SlotsMatchDescriptors
  <2>3. ReadsMakeSense'
    BY DEF ReadsMakeSense, Readable, Rejecting
  <2>4. LoopShape'
    BY DEF LoopShape, Watched, Rejecting
  <2> QED BY <2>1, <2>2, <2>3, <2>4
<1>6. CASE Write
  BY <1>6, WriteInv
<1>7. CASE Sigpipe
  BY <1>7, SigpipeInv
<1> QED BY <1>1, <1>2, <1>3, <1>4, <1>5, <1>6, <1>7 DEF Next, Server

(* The variables keep their types. *)
THEOREM TypeCorrect == Spec => []TypeOK
<1>1. Spec => []IInv
  BY InitInv, StepInv, PTL DEF Spec
<1>2. IInv => TypeOK
  BY DEF IInv
<1> QED BY <1>1, <1>2, PTL

(* The session table and the kernel's descriptors never disagree. *)
THEOREM SlotsCorrect == Spec => []SlotsMatchDescriptors
<1>1. Spec => []IInv
  BY InitInv, StepInv, PTL DEF Spec
<1>2. IInv => SlotsMatchDescriptors
  BY DEF IInv
<1> QED BY <1>1, <1>2, PTL

(* read() is never asked for 0 bytes and never blocks the loop. *)
THEOREM ReadsCorrect == Spec => []ReadsMakeSense
<1>1. Spec => []IInv
  BY InitInv, StepInv, PTL DEF Spec
<1>2. IInv => ReadsMakeSense
  BY DEF IInv
<1> QED BY <1>1, <1>2, PTL

-----------------------------------------------------------------------------
(***************************************************************************)
(* Part 2.  What is kept of the clients' streams                           *)
(***************************************************************************)

(* Concatenation of streams is associative. *)
LEMMA Assoc ==
  \A s, t, u \in Seq(Tokens) : (s \o t) \o u = s \o (t \o u)
<1> TAKE s, t, u \in Seq(Tokens)
<1> DEFINE lhs == (s \o t) \o u
           rhs == s \o (t \o u)
<1>1. /\ s \o t \in Seq(Tokens) /\ t \o u \in Seq(Tokens)
      /\ Len(s \o t) = Len(s) + Len(t) /\ Len(t \o u) = Len(t) + Len(u)
      /\ Len(s) \in Nat /\ Len(t) \in Nat /\ Len(u) \in Nat
  BY ConcatProperties, LenProperties
<1>2. /\ lhs \in Seq(Tokens) /\ rhs \in Seq(Tokens)
      /\ Len(lhs) = Len(s) + Len(t) + Len(u) /\ Len(rhs) = Len(lhs)
  BY <1>1, ConcatProperties
<1>3. \A i \in 1 .. Len(lhs) : lhs[i] = rhs[i]
  BY <1>1, <1>2, ConcatProperties
<1> HIDE DEF lhs, rhs
<1>4. lhs = rhs
  BY <1>2, <1>3, SeqEqual
<1> QED BY <1>4 DEF lhs, rhs

(* A sequence is a prefix of any extension of it. *)
LEMMA PrefixOfConcat ==
  ASSUME NEW S, NEW s \in Seq(S), NEW t \in Seq(S)
  PROVE  s = SubSeq(s \o t, 1, Len(s))
<1>1. Len(s) \in Nat
  BY LenProperties
<1>2. CASE Len(s) = 0
  <2>1. s = <<>>
    BY <1>2, EmptySeq
  <2>2. SubSeq(s \o t, 1, 0) = <<>>
    BY SubSeqEmpty
  <2> QED BY <1>2, <2>1, <2>2
<1>3. CASE Len(s) # 0
  <2>1. 1 \in 1 .. Len(s) /\ Len(s) \in 1 .. Len(s)
    BY <1>1, <1>3
  <2>2. SubSeq(s \o t, 1, Len(s)) = SubSeq(s, 1, Len(s))
    BY <2>1, SubSeqOfConcat1
  <2> QED BY <2>2, SubSeqFull
<1> QED BY <1>2, <1>3

(* The buffer of a client that has a session, and of one that has none. *)
LEMMA BufferedIs ==
  ASSUME IInv, NEW c \in Clients
  PROVE  /\ \A f \in Fds : fdt[f] = c => Buffered(c) = sess[f].buf
         /\ (\A f \in Fds : fdt[f] # c) => Buffered(c) = <<>>
         /\ Buffered(c) \in Seq(Tokens)
<1>1. TypeOK /\ SlotsMatchDescriptors
  BY DEF IInv
<1>2. ASSUME NEW f \in Fds, fdt[f] = c
      PROVE  Buffered(c) = sess[f].buf /\ sess[f].buf \in Seq(Tokens)
  <2>1. \A g \in Fds : fdt[g] = c => g = f
    BY <1>1, <1>2, NullAssumption DEF SlotsMatchDescriptors
  <2>2. (CHOOSE g \in Fds : fdt[g] = c) = f
    BY <1>2, <2>1
  <2>3. sess[f] # NoSession
    BY <1>1, <1>2, NullAssumption DEF SlotsMatchDescriptors
  <2>4. sess[f].buf \in Seq(Tokens)
    BY <1>1, <2>3 DEF TypeOK
  <2> QED BY <1>2, <2>2, <2>4 DEF Buffered
<1>3. (\A f \in Fds : fdt[f] # c) => Buffered(c) = <<>>
  BY DEF Buffered
<1>4. <<>> \in Seq(Tokens)
  BY EmptySeq
<1> QED BY <1>2, <1>3, <1>4

(* A client whose session, queue and history a step leaves alone. *)
LEMMA UntouchedClient ==
  ASSUME IInv, IInv', NEW c \in Clients,
         \A f \in Fds : (fdt[f] = c \/ fdt'[f] = c) => fdt'[f] = fdt[f] /\ sess'[f] = sess[f],
         sent'[c] = sent[c], seen'[c] = seen[c], rcvq'[c] = rcvq[c]
  PROVE  (sent[c] = seen[c] \o Buffered(c) \o rcvq[c])
           => (sent[c] = seen[c] \o Buffered(c) \o rcvq[c])'
<1>1. Buffered(c)' = Buffered(c)
  <2>1. CASE \E f \in Fds : fdt[f] = c
    <3>1. PICK f \in Fds : fdt[f] = c
      BY <2>1
    <3>2. fdt'[f] = c /\ sess'[f] = sess[f]
      BY <3>1
    <3>3. Buffered(c) = sess[f].buf
      BY <3>1, BufferedIs
    <3>4. \A g \in Fds : fdt'[g] = c => g = f
      BY <3>2, NullAssumption DEF IInv, SlotsMatchDescriptors
    <3>5. (CHOOSE g \in Fds : fdt'[g] = c) = f
      BY <3>2, <3>4
    <3>6. Buffered(c)' = sess'[f].buf
      BY <3>2, <3>5 DEF Buffered
    <3> QED BY <3>2, <3>3, <3>6
  <2>2. CASE ~ \E f \in Fds : fdt[f] = c
    <3>1. \A f \in Fds : fdt'[f] # c
      BY <2>2
    <3> QED BY <2>2, <3>1 DEF Buffered
  <2> QED BY <2>1, <2>2
<1> QED BY <1>1

(* One client's part of NothingLost. *)
Conserved(c) ==
  IF peer[c] = "closed"
  THEN seen[c] = SubSeq(sent[c], 1, Len(seen[c]))
  ELSE sent[c] = seen[c] \o Buffered(c) \o rcvq[c]

(* A session is only closed with all its client sent accounted for. *)
LEMMA CloseConserves ==
  ASSUME IInv, IInv', NothingLost, NEW f \in Fds, sess[f] # NoSession,
         NEW why, CloseSession(f, why),
         peer' = [peer EXCEPT ![fdt[f]] = "closed"], UNCHANGED <<sent, seen>>
  PROVE  NothingLost'
<1>0. PICK c \in Clients : c = fdt[f]
  BY SessionOwner
<1>1. /\ TypeOK /\ c \in Clients /\ peer[c] # "closed"
      /\ \A g \in Fds : g # f => fdt[g] # c
  BY <1>0, SessionOwner DEF IInv
<1>2. /\ seen[c] \in Seq(Tokens) /\ rcvq[c] \in Seq(Tokens) /\ Buffered(c) \in Seq(Tokens)
      /\ sent[c] \in Seq(Tokens)
  BY <1>1, BufferedIs DEF TypeOK
<1>3. sent[c] = seen[c] \o (Buffered(c) \o rcvq[c])
  <2>1. sent[c] = (seen[c] \o Buffered(c)) \o rcvq[c]
    BY <1>1 DEF NothingLost
  <2>2. (seen[c] \o Buffered(c)) \o rcvq[c] = seen[c] \o (Buffered(c) \o rcvq[c])
    BY <1>2, Assoc
  <2> QED BY <2>1, <2>2
<1>4. seen[c] = SubSeq(sent[c], 1, Len(seen[c]))
  <2>1. Buffered(c) \o rcvq[c] \in Seq(Tokens)
    BY <1>2, ConcatProperties
  <2> QED BY <1>2, <1>3, <2>1, PrefixOfConcat
<1>5. /\ peer'[c] = "closed" /\ \A d \in Clients : d # c => peer'[d] = peer[d] /\ rcvq'[d] = rcvq[d]
      /\ fdt'[f] = NoClient /\ \A g \in Fds : g # f => fdt'[g] = fdt[g] /\ sess'[g] = sess[g]
  BY <1>0, <1>1 DEF CloseSession, TypeOK
<1>6. Conserved(c)'
  BY <1>4, <1>5 DEF Conserved
<1>7. ASSUME NEW d \in Clients, d # c PROVE Conserved(d)'
  <2>1. Conserved(d)
    BY DEF NothingLost, Conserved
  <2>2. \A g \in Fds : (fdt[g] = d \/ fdt'[g] = d) => fdt'[g] = fdt[g] /\ sess'[g] = sess[g]
    <3>1. TAKE g \in Fds
    <3>2. CASE g = f
      BY <1>0, <1>5, <1>7, <3>2, NullAssumption
    <3>3. CASE g # f
      BY <1>5, <3>3
    <3> QED BY <3>2, <3>3
  <2>3. sent'[d] = sent[d] /\ seen'[d] = seen[d] /\ rcvq'[d] = rcvq[d] /\ peer'[d] = peer[d]
    BY <1>5, <1>7
  <2> QED BY <2>1, <2>2, <2>3, UntouchedClient DEF Conserved
<1> QED BY <1>6, <1>7 DEF NothingLost, Conserved

(* Storing the rest of a read, with `line` consumed, moves tokens along.    *)
LEMMA StoreConserves ==
  ASSUME IInv, IInv', NothingLost, NEW f \in Fds, NextDescriptor(f),
         NEW s, sess' = [sess EXCEPT ![f] = s], s.buf \in Seq(Tokens),
         NEW line \in Seq(Tokens), line \o s.buf = Data(f),
         rcvq' = [rcvq EXCEPT ![fdt[f]] = Unread(f)],
         seen' = [seen EXCEPT ![fdt[f]] = @ \o line],
         UNCHANGED <<peer, fdt, sent>>
  PROVE  NothingLost'
<1>0. PICK c \in Clients : c = fdt[f]
  BY ReachedType
<1>1. /\ TypeOK /\ c \in Clients /\ peer[c] # "closed" /\ sess[f] # NoSession
      /\ Len(sess[f].buf) < InBufSize
      /\ \A g \in Fds : g # f => fdt[g] # c
  BY <1>0, ReachedType DEF IInv
<1>2. /\ sess[f].buf \in Seq(Tokens) /\ Arrived(f) \in Seq(Tokens) /\ Unread(f) \in Seq(Tokens)
      /\ Data(f) \in Seq(Tokens) /\ Arrived(f) \o Unread(f) = rcvq[c]
      /\ Data(f) = sess[f].buf \o Arrived(f)
  BY <1>0, <1>1, ReadType DEF Data
<1>3. seen[c] \in Seq(Tokens) /\ Buffered(c) = sess[f].buf
  BY <1>0, <1>1, BufferedIs DEF TypeOK
<1>4. /\ seen'[c] = seen[c] \o line /\ rcvq'[c] = Unread(f) /\ peer'[c] # "closed"
      /\ sess'[f] = s /\ sent'[c] = sent[c]
      /\ \A d \in Clients : d # c => peer'[d] = peer[d] /\ rcvq'[d] = rcvq[d] /\ seen'[d] = seen[d]
      /\ \A g \in Fds : g # f => sess'[g] = sess[g]
  BY <1>0, <1>1 DEF TypeOK
<1>5. Buffered(c)' = s.buf
  <2>1. (CHOOSE g \in Fds : fdt'[g] = c) = f
    BY <1>0, <1>1
  <2> QED BY <1>0, <1>4, <2>1 DEF Buffered
<1>6. (seen[c] \o line) \o s.buf \o Unread(f) = sent[c]
  <2>1. (seen[c] \o line) \o s.buf = seen[c] \o Data(f)
    <3>1. line \in Seq(Tokens) /\ s.buf \in Seq(Tokens) /\ seen[c] \in Seq(Tokens)
      BY <1>3
    <3>2. (seen[c] \o line) \o s.buf = seen[c] \o (line \o s.buf)
      BY <3>1, Assoc
    <3> QED BY <3>2
  <2>2. seen[c] \o Data(f) = (seen[c] \o sess[f].buf) \o Arrived(f)
    <3>1. seen[c] \in Seq(Tokens) /\ sess[f].buf \in Seq(Tokens) /\ Arrived(f) \in Seq(Tokens)
      BY <1>2, <1>3
    <3>2. (seen[c] \o sess[f].buf) \o Arrived(f) = seen[c] \o (sess[f].buf \o Arrived(f))
      BY <3>1, Assoc
    <3> QED BY <1>2, <3>2
  <2>3. seen[c] \o sess[f].buf \in Seq(Tokens)
    BY <1>2, <1>3, ConcatProperties
  <2>4. ((seen[c] \o sess[f].buf) \o Arrived(f)) \o Unread(f)
          = (seen[c] \o sess[f].buf) \o (Arrived(f) \o Unread(f))
    BY <1>2, <2>3, Assoc
  <2>5. sent[c] = seen[c] \o sess[f].buf \o rcvq[c]
    BY <1>1, <1>3 DEF NothingLost
  <2> QED BY <1>2, <2>1, <2>2, <2>4, <2>5
<1>7. Conserved(c)'
  BY <1>4, <1>5, <1>6 DEF Conserved
<1>8. ASSUME NEW d \in Clients, d # c PROVE Conserved(d)'
  <2>1. Conserved(d)
    BY DEF NothingLost, Conserved
  <2>2. \A g \in Fds : (fdt[g] = d \/ fdt'[g] = d) => fdt'[g] = fdt[g] /\ sess'[g] = sess[g]
    BY <1>0, <1>4, <1>8
  <2>3. sent'[d] = sent[d] /\ seen'[d] = seen[d] /\ rcvq'[d] = rcvq[d] /\ peer'[d] = peer[d]
    BY <1>4, <1>8
  <2> QED BY <2>1, <2>2, <2>3, UntouchedClient DEF Conserved
<1> QED BY <1>7, <1>8 DEF NothingLost, Conserved

(* Steps that touch no stream of any client and no session in use. *)
LEMMA QuietConserves ==
  ASSUME IInv, IInv', NothingLost, UNCHANGED <<rcvq, sent, seen>>,
         \A c \in Clients : peer'[c] = "closed" <=> peer[c] = "closed",
         \A c \in Clients, f \in Fds :
           (fdt[f] = c \/ fdt'[f] = c) => fdt'[f] = fdt[f] /\ sess'[f] = sess[f]
  PROVE  NothingLost'
<1> SUFFICES ASSUME NEW c \in Clients PROVE Conserved(c)'
  BY DEF NothingLost, Conserved
<1>1. Conserved(c)
  BY DEF NothingLost, Conserved
<1>2. sent'[c] = sent[c] /\ seen'[c] = seen[c] /\ rcvq'[c] = rcvq[c]
  OBVIOUS
<1> QED BY <1>1, <1>2, UntouchedClient DEF Conserved

(* A new session starts with an empty buffer. *)
LEMMA AcceptConserves ==
  ASSUME IInv, IInv', NothingLost, Accept
  PROVE  NothingLost'
<1>1. CASE UNCHANGED <<fdt, sess>>
  BY <1>1, QuietConserves DEF Accept, hist
<1>2. ASSUME NEW f \in Free, fdt' = [fdt EXCEPT ![f] = Head(backlog)],
             sess' = [sess EXCEPT ![f] = NewSession]
      PROVE  NothingLost'
  <2> SUFFICES ASSUME NEW c \in Clients PROVE Conserved(c)'
    BY DEF NothingLost, Conserved
  <2>1. Conserved(c)
    BY DEF NothingLost, Conserved
  <2>2. /\ f \in Fds /\ fdt[f] = NoClient /\ fdt'[f] = Head(backlog)
        /\ sess'[f] = NewSession
        /\ \A g \in Fds : g # f => fdt'[g] = fdt[g] /\ sess'[g] = sess[g]
        /\ sent'[c] = sent[c] /\ seen'[c] = seen[c] /\ rcvq'[c] = rcvq[c]
        /\ peer'[c] = peer[c]
    BY <1>2 DEF Free, IInv, TypeOK, Accept, hist
  <2>3. CASE c # Head(backlog)
    <3>1. \A g \in Fds : (fdt[g] = c \/ fdt'[g] = c) => fdt'[g] = fdt[g] /\ sess'[g] = sess[g]
      <4>1. TAKE g \in Fds
      <4>2. CASE g = f
        BY <2>2, <2>3, <4>2, NullAssumption
      <4>3. CASE g # f
        BY <2>2, <4>3
      <4> QED BY <4>2, <4>3
    <3> QED BY <2>1, <2>2, <3>1, UntouchedClient DEF Conserved
  <2>4. CASE c = Head(backlog)
    <3>1. \A g \in Fds : g # f => fdt[g] # c
      <4>1. \A g \in Fds : g # f => fdt'[g] # fdt'[f]
        BY <2>2, <2>4, NullAssumption DEF IInv, SlotsMatchDescriptors
      <4> QED BY <2>2, <2>4, <4>1
    <3>2. \A g \in Fds : fdt[g] # c
      BY <2>2, <3>1, NullAssumption
    <3>3. Buffered(c) = <<>>
      BY <3>2, BufferedIs
    <3>4. (CHOOSE g \in Fds : fdt'[g] = c) = f
      BY <2>2, <2>4, <3>1
    <3>5. Buffered(c)' = <<>>
      <4>1. Buffered(c)' = sess'[f].buf
        BY <2>2, <2>4, <3>4 DEF Buffered
      <4> QED BY <2>2, <4>1 DEF NewSession
    <3> QED BY <2>1, <2>2, <3>3, <3>5 DEF Conserved
  <2> QED BY <2>3, <2>4
<1> QED BY <1>1, <1>2 DEF Accept

(* A send lengthens the history and the queue alike. *)
LEMMA SendConserves ==
  ASSUME IInv, IInv', NothingLost, NEW c \in Clients, Send(c)
  PROVE  NothingLost'
<1>1. PICK chunk \in Chunks :
        /\ rcvq' = [rcvq EXCEPT ![c] = @ \o chunk]
        /\ sent' = [sent EXCEPT ![c] = @ \o chunk]
  BY DEF Send
<1>2. /\ chunk \in Seq(Tokens) /\ rcvq[c] \in Seq(Tokens) /\ seen[c] \in Seq(Tokens)
      /\ Buffered(c) \in Seq(Tokens)
  BY ChunksAssumption, BufferedIs DEF IInv, TypeOK
<1>3. /\ rcvq'[c] = rcvq[c] \o chunk /\ sent'[c] = sent[c] \o chunk
      /\ \A d \in Clients : d # c => rcvq'[d] = rcvq[d] /\ sent'[d] = sent[d]
  BY <1>1 DEF IInv, TypeOK
<1>4. /\ UNCHANGED <<fdt, sess, seen, peer>> /\ peer[c] = "here"
      /\ \A d \in Clients : Buffered(d)' = Buffered(d)
  BY DEF Send, Buffered
<1>5. Conserved(c)'
  <2>1. sent[c] = (seen[c] \o Buffered(c)) \o rcvq[c]
    BY <1>4 DEF NothingLost
  <2>2. seen[c] \o Buffered(c) \in Seq(Tokens)
    BY <1>2, ConcatProperties
  <2>3. ((seen[c] \o Buffered(c)) \o rcvq[c]) \o chunk = (seen[c] \o Buffered(c)) \o (rcvq[c] \o chunk)
    BY <1>2, <2>2, Assoc
  <2> QED BY <1>3, <1>4, <2>1, <2>3 DEF Conserved
<1>6. ASSUME NEW d \in Clients, d # c PROVE Conserved(d)'
  <2>1. Conserved(d)
    BY DEF NothingLost, Conserved
  <2> QED BY <1>3, <1>4, <1>6, <2>1 DEF Conserved
<1> QED BY <1>5, <1>6 DEF NothingLost, Conserved

(* A consumed line and what follows it are what was read. *)
LEMMA TakeLineConserves ==
  ASSUME IInv, IInv', NothingLost, NEW f \in Fds, Serve(f), TakeLine(f)
  PROVE  NothingLost'
<1>1. TypeOK /\ fdt[f] \in Clients /\ sess[f] # NoSession /\ Len(sess[f].buf) < InBufSize
  BY TurnType, ReachedType DEF IInv
<1>2. Data(f) \in Seq(Tokens) /\ HasLF(Data(f))
  BY <1>1, ReadType DEF TakeLine
<1> DEFINE line == SubSeq(Data(f), 1, FirstLF(Data(f)))
           r == RequestOf(Data(f), sess[f].request)
           s == [buf |-> AfterLF(Data(f)),
                 request |-> IF prog = "counter" THEN r ELSE "unknown"]
<1>3. AfterLF(Data(f)) \in Seq(Tokens) /\ line \in Seq(Tokens) /\ line \o AfterLF(Data(f)) = Data(f)
  BY <1>2, AfterLFType
<1>4. /\ sess' = [sess EXCEPT ![f] = s]
      /\ rcvq' = [rcvq EXCEPT ![fdt[f]] = Unread(f)]
      /\ seen' = [seen EXCEPT ![fdt[f]] = @ \o line]
      /\ UNCHANGED <<peer, fdt, sent>> /\ NextDescriptor(f)
  BY TurnType DEF TakeLine
<1>5. s.buf = AfterLF(Data(f))
  OBVIOUS
<1> HIDE DEF line, r, s
<1> QED BY <1>3, <1>4, <1>5, StoreConserves

(* A read without an LF only moves tokens from the queue to the buffer. *)
LEMMA PartConserves ==
  ASSUME IInv, IInv', NothingLost, NEW f \in Fds, Serve(f), KeepPartial(f) \/ Reject(f)
  PROVE  NothingLost'
<1>1. TypeOK /\ fdt[f] \in Clients /\ sess[f] # NoSession /\ Len(sess[f].buf) < InBufSize
  BY TurnType, ReachedType DEF IInv
<1>2. Data(f) \in Seq(Tokens) /\ sess[f] \in [buf : Seq(Tokens), request : Requests]
  BY <1>1, ReadType DEF TypeOK
<1> DEFINE s == [sess[f] EXCEPT !.buf = Data(f)]
<1>3. s.buf = Data(f)
  BY <1>2
<1>4. /\ sess' = [sess EXCEPT ![f] = s]
      /\ rcvq' = [rcvq EXCEPT ![fdt[f]] = Unread(f)]
      /\ UNCHANGED <<peer, fdt, sent, seen>> /\ NextDescriptor(f)
  BY TurnType DEF KeepPartial, Reject
<1> HIDE DEF s
<1>5. <<>> \in Seq(Tokens) /\ <<>> \o s.buf = Data(f)
  BY <1>2, <1>3, EmptySeq, ConcatEmptySeq
<1>6. seen' = [seen EXCEPT ![fdt[f]] = @ \o <<>>]
  <2>1. seen[fdt[f]] \in Seq(Tokens) /\ seen \in [Clients -> Seq(Tokens)]
    BY <1>1 DEF TypeOK
  <2>2. seen[fdt[f]] \o <<>> = seen[fdt[f]]
    BY <2>1, ConcatEmptySeq
  <2> QED BY <1>4, <2>1, <2>2
<1> QED BY <1>2, <1>3, <1>4, <1>5, <1>6, StoreConserves

(* Writing an answer touches no stream, except when the session is closed. *)
LEMMA WriteConserves ==
  ASSUME IInv, IInv', NothingLost, Write
  PROVE  NothingLost'
<1> DEFINE f == writing.fd
<1>1. f \in Fds /\ sess[f] # NoSession /\ fdt[f] \in Clients /\ UNCHANGED <<sent, seen>>
  BY WritingType DEF Write
<1>2. CASE CloseSession(f, "too long") /\ peer' = [peer EXCEPT ![fdt[f]] = "closed"]
  <2> HIDE DEF f
  <2> QED BY <1>1, <1>2, CloseConserves
<1>3. CASE /\ peer' = [peer EXCEPT ![fdt[f]] = IF @ = "gone" THEN "reset" ELSE @]
           /\ UNCHANGED <<rcvq, fdt, sess, verdict>>
  <2>1. \A d \in Clients : peer'[d] = "closed" <=> peer[d] = "closed"
    BY <1>1, <1>3 DEF IInv, TypeOK
  <2> QED BY <1>1, <1>3, <2>1, QuietConserves
<1> QED BY <1>2, <1>3 DEF Write

(* Every step conserves what the clients have sent. *)
LEMMA StepConserves == IInv /\ NothingLost /\ [Next]_vars => NothingLost'
<1> SUFFICES ASSUME IInv, NothingLost, [Next]_vars PROVE NothingLost'
  OBVIOUS
<1>0. IInv'
  BY StepInv
<1>1. CASE Select
  BY <1>0, <1>1, QuietConserves DEF Select, net, hist
<1>2. CASE Accept
  BY <1>0, <1>2, AcceptConserves
<1>3. ASSUME NEW f \in Fds, Serve(f) PROVE NothingLost'
  <2>1. sess[f] # NoSession /\ UNCHANGED sent
    BY <1>3, TurnType, ReachedType
  <2>2. CASE HangUp(f)
    BY <1>0, <2>1, <2>2, CloseConserves DEF HangUp
  <2> QED BY <1>0, <1>3, <2>2, TakeLineConserves, PartConserves DEF Serve
<1>4. ASSUME NEW c \in Clients, Connect(c) \/ Take(c) \/ Leave(c) PROVE NothingLost'
  <2>1. /\ UNCHANGED <<rcvq, sent, seen, fdt, sess>>
        /\ \A d \in Clients : peer'[d] = "closed" <=> peer[d] = "closed"
    BY <1>4 DEF Connect, Take, Leave, hist, IInv, TypeOK
  <2> QED BY <1>0, <2>1, QuietConserves
<1>5. ASSUME NEW c \in Clients, Send(c) PROVE NothingLost'
  BY <1>0, <1>5, SendConserves
<1>6. CASE UNCHANGED vars
  BY <1>0, <1>6, QuietConserves DEF vars, net, hist
<1>7. CASE Write
  BY <1>0, <1>7, WriteConserves
<1>8. CASE Sigpipe
  BY <1>0, <1>8, QuietConserves DEF Sigpipe, net, hist
<1> QED BY <1>1, <1>2, <1>3, <1>4, <1>5, <1>6, <1>7, <1>8 DEF Next, Server

(* No token a client sends is lost, repeated, reordered or given to another *)
(* session, however reads and lines cut the stream and descriptors are      *)
(* reused.                                                                  *)
THEOREM Conservation == Spec => []NothingLost
<1>1. Init => NothingLost
  <2> SUFFICES ASSUME Init, NEW c \in Clients PROVE sent[c] = seen[c] \o Buffered(c) \o rcvq[c]
    BY DEF NothingLost, Init
  <2>1. sent[c] = <<>> /\ seen[c] = <<>> /\ rcvq[c] = <<>> /\ \A f \in Fds : fdt[f] = NoClient
    BY DEF Init
  <2>2. Buffered(c) = <<>>
    BY <2>1, NullAssumption DEF Buffered
  <2> QED BY <2>1, <2>2
<1>2. Init /\ [][Next]_vars => [](IInv /\ NothingLost)
  <2>1. Init => IInv /\ NothingLost
    BY <1>1, InitInv
  <2>2. IInv /\ NothingLost /\ [Next]_vars => (IInv /\ NothingLost)'
    BY StepInv, StepConserves
  <2> QED BY <2>1, <2>2, PTL
<1> QED BY <1>2, PTL DEF Spec

-----------------------------------------------------------------------------
(* "Line too long!" *)

(* A client's stream `s` contains a stretch of INBUFSIZE tokens with no LF. *)
HasLongLine(s) ==
  \E i \in 0 .. Len(s) - InBufSize : \A j \in 1 .. InBufSize : s[i + j] # "LF"

(* More tokens do not take a long line away. *)
LEMMA LongLineStays ==
  ASSUME NEW s \in Seq(Tokens), NEW t \in Seq(Tokens), HasLongLine(s)
  PROVE  HasLongLine(s \o t)
<1>1. /\ Len(s) \in Nat /\ Len(t) \in Nat /\ Len(s \o t) = Len(s) + Len(t)
      /\ \A k \in 1 .. Len(s) : (s \o t)[k] = s[k]
  BY ConcatProperties, LenProperties
<1>2. PICK i \in 0 .. Len(s) - InBufSize : \A j \in 1 .. InBufSize : s[i + j] # "LF"
  BY DEF HasLongLine
<1>3. i \in 0 .. Len(s \o t) - InBufSize
  BY <1>1, <1>2, BufAssumption
<1>4. \A j \in 1 .. InBufSize : (s \o t)[i + j] # "LF"
  <2>1. \A j \in 1 .. InBufSize : i + j \in 1 .. Len(s)
    BY <1>1, <1>2, BufAssumption
  <2> QED BY <1>1, <1>2, <2>1
<1> QED BY <1>3, <1>4 DEF HasLongLine

(* A full buffer without LF, anywhere in the stream, is a long line. *)
LEMMA LongLineFound ==
  ASSUME NEW s \in Seq(Tokens), NEW d \in Seq(Tokens), NEW t \in Seq(Tokens),
         Len(d) = InBufSize, ~HasLF(d)
  PROVE  HasLongLine((s \o d) \o t)
<1>1. /\ s \o d \in Seq(Tokens) /\ Len(s \o d) = Len(s) + Len(d)
      /\ Len(s) \in Nat /\ Len(d) \in Nat
      /\ \A k \in 1 .. Len(s) + Len(d) : (s \o d)[k] = IF k <= Len(s) THEN s[k] ELSE d[k - Len(s)]
  BY ConcatProperties, LenProperties
<1>2. \A j \in 1 .. Len(d) : d[j] # "LF"
  <2>1. DOMAIN d = 1 .. Len(d)
    BY LenProperties
  <2> QED BY <2>1 DEF HasLF
<1>3. \A j \in 1 .. InBufSize : (s \o d)[Len(s) + j] # "LF"
  <2> TAKE j \in 1 .. InBufSize
  <2>1. /\ Len(s) + j \in 1 .. Len(s) + Len(d) /\ ~ (Len(s) + j <= Len(s))
        /\ (Len(s) + j) - Len(s) = j /\ j \in 1 .. Len(d)
    BY <1>1, BufAssumption
  <2>2. (s \o d)[Len(s) + j] = d[j]
    BY <1>1, <2>1
  <2> QED BY <1>2, <2>1, <2>2
<1>4. Len(s) \in 0 .. Len(s \o d) - InBufSize
  BY <1>1, BufAssumption
<1>5. HasLongLine(s \o d)
  BY <1>3, <1>4 DEF HasLongLine
<1> QED BY <1>1, <1>5, LongLineStays

(* A session is only rejected for a line its client really sent. *)
LEMMA RejectIsTrue ==
  ASSUME IInv, NothingLost, NEW f \in Fds, Rejecting(f)
  PROVE  HasLongLine(sent[fdt[f]])
<1>0. PICK c \in Clients : c = fdt[f]
  BY WritingType DEF Rejecting
<1>1. /\ TypeOK /\ peer[c] # "closed" /\ sess[f] # NoSession
      /\ Len(sess[f].buf) = InBufSize /\ ~HasLF(sess[f].buf)
  BY <1>0, WritingType DEF Rejecting, IInv, LoopShape
<1>2. /\ sess[f].buf \in Seq(Tokens) /\ seen[c] \in Seq(Tokens) /\ rcvq[c] \in Seq(Tokens)
  BY <1>1 DEF TypeOK
<1>3. sent[c] = (seen[c] \o sess[f].buf) \o rcvq[c]
  BY <1>0, <1>1, BufferedIs DEF NothingLost
<1> QED BY <1>0, <1>1, <1>2, <1>3, LongLineFound

(* Only a rejection gives that verdict, and a stream never gets shorter. *)
LEMMA StepTooLong == IInv /\ NothingLost /\ TooLongIsTrue /\ [Next]_vars => TooLongIsTrue'
<1> SUFFICES ASSUME IInv, NothingLost, TooLongIsTrue, [Next]_vars, NEW c \in Clients,
                    verdict'[c] = "too long"
             PROVE  HasLongLine(sent'[c])
  BY DEF TooLongIsTrue, HasLongLine
<1>0. verdict[c] = "too long" => HasLongLine(sent[c])
  BY DEF TooLongIsTrue, HasLongLine
<1>1. CASE UNCHANGED <<sent, verdict>>
  BY <1>0, <1>1
<1>2. ASSUME NEW f \in Fds, Serve(f) PROVE HasLongLine(sent'[c])
  <2>1. UNCHANGED sent
    BY <1>2 DEF Serve
  <2>2. CASE UNCHANGED verdict
    BY <1>0, <2>1, <2>2
  <2>3. CASE HangUp(f)
    <3>1. verdict'[c] = verdict[c]
      BY <2>3 DEF HangUp, CloseSession, IInv, TypeOK
    <3> QED BY <1>0, <2>1, <3>1
  <2> QED BY <1>2, <2>2, <2>3 DEF Serve, TakeLine, KeepPartial, Reject
<1>3. ASSUME NEW d \in Clients, Send(d) PROVE HasLongLine(sent'[c])
  <2>1. PICK chunk \in Chunks : sent' = [sent EXCEPT ![d] = @ \o chunk]
    BY <1>3 DEF Send
  <2>2. sent[c] \in Seq(Tokens) /\ chunk \in Seq(Tokens) /\ HasLongLine(sent[c])
    BY <1>0, <1>3, ChunksAssumption DEF Send, IInv, TypeOK
  <2>3. sent'[c] = sent[c] \o chunk \/ sent'[c] = sent[c]
    BY <2>1 DEF IInv, TypeOK
  <2> QED BY <2>2, <2>3, LongLineStays
<1>4. CASE Write
  <2> DEFINE f == writing.fd
  <2>1. f \in Fds /\ UNCHANGED sent
    BY <1>4, WritingType DEF Write
  <2>2. CASE UNCHANGED verdict
    BY <1>0, <2>1, <2>2
  <2>3. CASE writing.msg = TooLong /\ CloseSession(f, "too long")
    <3>1. CASE c = fdt[f]
      <4>1. Rejecting(f)
        BY <1>4, <2>3 DEF Rejecting, Write
      <4> HIDE DEF f
      <4> QED BY <2>1, <3>1, <4>1, RejectIsTrue
    <3>2. CASE c # fdt[f]
      <4>1. verdict'[c] = verdict[c]
        BY <2>3, <3>2 DEF CloseSession, IInv, TypeOK
      <4> QED BY <1>0, <2>1, <4>1
    <3> QED BY <3>1, <3>2
  <2> QED BY <1>4, <2>2, <2>3 DEF Write
<1> QED BY <1>1, <1>2, <1>3, <1>4
      DEF Next, Server, Select, Accept, Sigpipe, Connect, Take, Leave, vars, hist

(* The server says "Line too long!" only to a client that sent INBUFSIZE    *)
(* tokens without an LF.                                                    *)
THEOREM TooLongCorrect == Spec => []TooLongIsTrue
<1>1. Init => TooLongIsTrue
  BY DEF Init, TooLongIsTrue
<1>2. Spec => []IInv
  BY InitInv, StepInv, PTL DEF Spec
<1>3. Spec => []NothingLost
  BY Conservation
<1> QED BY <1>1, <1>2, <1>3, StepTooLong, PTL DEF Spec

-----------------------------------------------------------------------------
(* The requests a session remembers *)

(* The consumed lines of a client end in an LF, if there are any. *)
WholeLines(h) == h = <<>> \/ h[Len(h)] = "LF"

(* A line has one LF, its last token. *)
IsLine(t) == t # <<>> /\ t[Len(t)] = "LF" /\ \A j \in 1 .. Len(t) - 1 : t[j] # "LF"

(* A client that has no session yet has had no line consumed, and the       *)
(* request a session keeps is the one of its client's last line.            *)
RequestsRemembered ==
  /\ \A c \in Clients : WholeLines(seen[c])
  /\ \A c \in Clients : peer[c] = "idle" => seen[c] = <<>>
  /\ \A i \in DOMAIN backlog : seen[backlog[i]] = <<>>
  /\ prog = "counter" =>
       \A f \in Fds : sess[f] # NoSession => sess[f].request = LastRequest(seen[fdt[f]])

(* One line more makes its request the last one. *)
LEMMA LastOfLine ==
  ASSUME NEW h \in Seq(Tokens), WholeLines(h), NEW t \in Seq(Tokens), IsLine(t)
  PROVE  /\ LastRequest(h \o t) = Parse(SubSeq(t, 1, Len(t) - 1))
         /\ WholeLines(h \o t)
<1> DEFINE H == h \o t
           m == Len(h)
           n == Len(t)
           starts == {i \in 1 .. Len(H) : i = 1 \/ H[i - 1] = "LF"}
<1>1. m \in Nat /\ n \in Nat /\ n > 0
  BY LenProperties, EmptySeq DEF IsLine
<1>2. /\ H \in Seq(Tokens) /\ Len(H) = m + n
      /\ \A i \in 1 .. m + n : H[i] = IF i <= m THEN h[i] ELSE t[i - m]
  BY ONLY h \in Seq(Tokens), t \in Seq(Tokens), ConcatProperties
<1>3. /\ h = <<>> \/ (m > 0 /\ h[m] = "LF")
      /\ t[n] = "LF" /\ \A j \in 1 .. n - 1 : t[j] # "LF"
  BY <1>1, EmptySeq DEF WholeLines, IsLine
<1>4. h = <<>> => m = 0
  BY EmptySeq
<1> HIDE DEF H, m, n
<1>5. H # <<>> /\ H[Len(H)] = "LF"
  <2>1. m + n \in 1 .. m + n /\ ~ (m + n <= m) /\ (m + n) - m = n
    BY <1>1
  <2>2. H[m + n] = t[n]
    BY <1>2, <2>1
  <2>3. Len(H) # 0
    BY <1>1, <1>2
  <2> QED BY <1>2, <1>3, <2>2, <2>3, EmptySeq
<1>6. m + 1 \in starts
  <2>1. m + 1 \in 1 .. Len(H)
    BY <1>1, <1>2
  <2>2. CASE h = <<>>
    BY <1>4, <2>1, <2>2
  <2>3. CASE m > 0 /\ h[m] = "LF"
    <3>1. m \in 1 .. m + n /\ m <= m /\ (m + 1) - 1 = m
      BY <1>1, <2>3
    <3>2. H[(m + 1) - 1] = "LF"
      BY <1>2, <2>3, <3>1
    <3> QED BY <2>1, <3>2
  <2> QED BY <1>3, <2>2, <2>3
<1>7. \A j \in starts : j <= m + 1
  <2> SUFFICES ASSUME NEW j \in starts, ~ (j <= m + 1) PROVE FALSE
    OBVIOUS
  <2>1. j \in 1 .. m + n /\ (j = 1 \/ H[j - 1] = "LF")
    BY <1>2
  <2>2. /\ j - 1 \in 1 .. m + n /\ ~ (j - 1 <= m) /\ (j - 1) - m \in 1 .. n - 1 /\ j # 1
    BY <1>1, <2>1
  <2>3. H[j - 1] = t[(j - 1) - m]
    BY <1>2, <2>2
  <2> QED BY <1>3, <2>1, <2>2, <2>3
<1>8. starts \subseteq Nat
  BY <1>1, <1>2
<1>9. (CHOOSE i \in starts : \A j \in starts : j <= i) = m + 1
  <2>1. ASSUME NEW i \in starts, \A j \in starts : j <= i PROVE i = m + 1
    <3>1. i <= m + 1 /\ m + 1 <= i /\ i \in Nat
      BY <1>6, <1>7, <1>8, <2>1
    <3> QED BY <1>1, <3>1
  <2> HIDE DEF starts
  <2> QED BY <1>6, <1>7, <2>1
<1>10. SubSeq(H, m + 1, Len(H) - 1) = SubSeq(t, 1, n - 1)
  <2>1. CASE n = 1
    <3>1. SubSeq(H, m + 1, Len(H) - 1) = <<>>
      <4>1. m + 1 \in Int /\ Len(H) - 1 \in Int /\ Len(H) - 1 < m + 1
        BY <1>1, <1>2, <2>1
      <4> QED BY <4>1, SubSeqEmpty
    <3>2. SubSeq(t, 1, n - 1) = <<>>
      <4>1. 1 \in Int /\ n - 1 \in Int /\ n - 1 < 1
        BY <2>1
      <4> QED BY <4>1, SubSeqEmpty
    <3> QED BY <3>1, <3>2
  <2>2. CASE n # 1
    <3>1. /\ m + 1 \in m + 1 .. m + n /\ (m + n) - 1 \in m + 1 .. m + n
          /\ (m + 1) - m = 1 /\ ((m + n) - 1) - m = n - 1
      BY <1>1, <2>2
    <3>2. SubSeq(H, m + 1, (m + n) - 1) = SubSeq(t, (m + 1) - m, ((m + n) - 1) - m)
      BY <3>1, SubSeqOfConcat2 DEF H, m, n
    <3> QED BY <1>2, <3>1, <3>2
  <2> QED BY <2>1, <2>2
<1>11. LastRequest(H) = Parse(SubSeq(H, m + 1, Len(H) - 1))
  BY <1>5, <1>9 DEF LastRequest
<1> QED BY <1>5, <1>10, <1>11 DEF H, n, WholeLines

(* What TakeLine consumes is a line, and its request is the one executed. *)
LEMMA FirstLine ==
  ASSUME NEW s \in Seq(Tokens), HasLF(s), NEW old
  PROVE  LET t == SubSeq(s, 1, FirstLF(s))
         IN  /\ t \in Seq(Tokens) /\ IsLine(t)
             /\ RequestOf(s, old) = Parse(SubSeq(t, 1, Len(t) - 1))
<1> DEFINE k == FirstLF(s)
           t == SubSeq(s, 1, k)
<1>1. k \in 1 .. Len(s) /\ s[k] = "LF" /\ Len(s) \in Nat
  BY FirstLFType, LenProperties
<1>2. \A j \in 1 .. k - 1 : s[j] # "LF"
  <2> DEFINE T == {i \in DOMAIN s : s[i] = "LF"}
  <2>1. DOMAIN s = 1 .. Len(s)
    BY LenProperties
  <2>2. T \in SUBSET Nat /\ T # {}
    BY <1>1, <2>1
  <2>3. PICK x \in T : \A y \in T : x <= y
    BY <2>2, LeastNat
  <2>4. x \in DOMAIN s /\ s[x] = "LF" /\ \A j \in 1 .. x - 1 : s[j] # "LF"
    BY <1>1, <2>1, <2>3
  <2> QED BY <2>4 DEF FirstLF
<1>3. /\ t \in Seq(Tokens) /\ Len(t) = k /\ \A i \in 1 .. k : t[i] = s[i]
  <2>1. k \in Int /\ 1 \in Int /\ 1 <= k
    BY <1>1
  <2>2. \A i \in 1 .. k : s[i] \in Tokens
    BY <1>1, ElementOfSeq
  <2>3. /\ t \in Seq(Tokens) /\ Len(t) = (IF 1 <= k THEN k - 1 + 1 ELSE 0)
        /\ \A i \in 1 .. k - 1 + 1 : t[i] = s[1 + i - 1]
    BY <2>1, <2>2, SubSeqProperties
  <2> HIDE DEF t, k
  <2>4. k - 1 + 1 = k /\ \A i \in 1 .. k : 1 + i - 1 = i
    BY <2>1
  <2> QED BY <2>1, <2>3, <2>4
<1>4. SubSeq(t, 1, k - 1) = SubSeq(s, 1, k - 1)
  <2>1. CASE k = 1
    <3>1. k - 1 \in Int /\ 1 \in Int /\ k - 1 < 1
      BY <2>1
    <3> QED BY <3>1, SubSeqEmpty
  <2>2. CASE k # 1
    <3>1. /\ 1 \in 1 .. Len(s) /\ k \in 1 .. Len(s)
          /\ 1 \in 1 .. k - 1 + 1 /\ k - 1 \in 1 .. k - 1 + 1
          /\ 1 + 1 - 1 = 1 /\ 1 + (k - 1) - 1 = k - 1
      BY <1>1, <2>2
    <3>2. SubSeq(SubSeq(s, 1, k), 1, k - 1) = SubSeq(s, 1 + 1 - 1, 1 + (k - 1) - 1)
      BY <3>1, SubSeqOfSubSeq
    <3> QED BY <3>1, <3>2
  <2> QED BY <2>1, <2>2
<1> HIDE DEF k, t
<1>5. IsLine(t)
  <2>1. k \in 1 .. k /\ k # 0 /\ \A j \in 1 .. k - 1 : j \in 1 .. k
    BY <1>1
  <2>2. t # <<>>
    BY <1>3, <2>1, EmptySeq
  <2> QED BY <1>1, <1>2, <1>3, <2>1, <2>2 DEF IsLine
<1> QED BY <1>3, <1>4, <1>5 DEF RequestOf, k, t

(* Steps that consume nothing, store nothing and keep the program. *)
LEMMA QuietRemembers ==
  ASSUME IInv, RequestsRemembered, UNCHANGED <<prog, seen>>,
         \A c \in Clients : peer'[c] = "idle" => peer[c] = "idle",
         \A i \in DOMAIN backlog' : seen[backlog'[i]] = <<>>,
         \A g \in Fds : sess'[g] # NoSession =>
            /\ fdt'[g] = fdt[g] /\ sess[g] # NoSession
            /\ sess'[g].request = sess[g].request
  PROVE  RequestsRemembered'
<1>1. \A c \in Clients : WholeLines(seen'[c])
  BY DEF RequestsRemembered
<1>2. \A c \in Clients : peer'[c] = "idle" => seen'[c] = <<>>
  BY DEF RequestsRemembered
<1>3. \A i \in DOMAIN backlog' : seen'[backlog'[i]] = <<>>
  OBVIOUS
<1>4. prog' = "counter" =>
        \A g \in Fds : sess'[g] # NoSession => sess'[g].request = LastRequest(seen'[fdt'[g]])
  BY DEF RequestsRemembered
<1> QED BY <1>1, <1>2, <1>3, <1>4 DEF RequestsRemembered

(* A connection waiting in the backlog is removed from it by accept(), and  *)
(* its session starts with the request "unknown".                           *)
LEMMA AcceptRemembers ==
  ASSUME IInv, RequestsRemembered, Accept
  PROVE  RequestsRemembered'
<1>1. UNCHANGED <<prog, seen, peer>>
  BY DEF Accept, hist
<1>2. CASE UNCHANGED <<backlog, fdt, sess>>
  BY <1>1, <1>2, QuietRemembers DEF RequestsRemembered
<1>3. ASSUME NEW f \in Free, fdt' = [fdt EXCEPT ![f] = Head(backlog)],
             sess' = [sess EXCEPT ![f] = NewSession], backlog' = Tail(backlog)
      PROVE  RequestsRemembered'
  <2>1. backlog \in Seq(Clients) /\ backlog # <<>>
    BY DEF IInv, TypeOK, LoopShape, Accept
  <2>2. /\ Len(backlog) \in Nat /\ DOMAIN backlog = 1 .. Len(backlog) /\ Len(backlog) # 0
        /\ Tail(backlog) \in Seq(Clients) /\ Len(Tail(backlog)) = Len(backlog) - 1
        /\ \A i \in 1 .. Len(Tail(backlog)) : Tail(backlog)[i] = backlog[i + 1]
        /\ DOMAIN Tail(backlog) = 1 .. Len(Tail(backlog))
    <3>1. Tail(backlog) \in Seq(Clients)
      BY <2>1, HeadTailProperties
    <3> QED BY <2>1, <3>1, HeadTailProperties, LenProperties, EmptySeq
  <2>3. \A i \in DOMAIN backlog' : seen'[backlog'[i]] = <<>>
    <3> SUFFICES ASSUME NEW i \in DOMAIN backlog' PROVE seen'[backlog'[i]] = <<>>
      OBVIOUS
    <3>1. i + 1 \in DOMAIN backlog /\ backlog'[i] = backlog[i + 1]
      BY <1>3, <2>2
    <3> QED BY <1>1, <3>1 DEF RequestsRemembered
  <2>4. seen[Head(backlog)] = <<>>
    <3>1. 1 \in DOMAIN backlog
      BY <2>2
    <3>2. seen[backlog[1]] = <<>>
      BY <3>1 DEF RequestsRemembered
    <3> QED BY <3>2
  <2>5. ASSUME prog' = "counter", NEW g \in Fds, sess'[g] # NoSession
        PROVE  sess'[g].request = LastRequest(seen'[fdt'[g]])
    <3>1. CASE g = f
      <4>1. sess'[g] = NewSession /\ fdt'[g] = Head(backlog)
        BY <1>3, <3>1 DEF IInv, TypeOK
      <4>2. LastRequest(<<>>) = "unknown"
        BY DEF LastRequest
      <4>3. NewSession.request = "unknown"
        BY DEF NewSession
      <4> QED BY <1>1, <2>4, <4>1, <4>2, <4>3
    <3>2. CASE g # f
      <4>1. sess'[g] = sess[g] /\ fdt'[g] = fdt[g]
        BY <1>3, <3>2 DEF IInv, TypeOK
      <4> QED BY <1>1, <2>5, <4>1 DEF RequestsRemembered
    <3> QED BY <3>1, <3>2
  <2> QED BY <1>1, <2>3, <2>5 DEF RequestsRemembered
<1> QED BY <1>2, <1>3 DEF Accept

(* A connection just made waits in the backlog with no line consumed. *)
LEMMA ConnectRemembers ==
  ASSUME IInv, RequestsRemembered, NEW c \in Clients, Connect(c)
  PROVE  RequestsRemembered'
<1>1. /\ peer[c] = "idle" /\ peer' = [peer EXCEPT ![c] = "here"]
      /\ backlog' = Append(backlog, c) /\ UNCHANGED <<prog, seen, fdt, sess>>
  BY DEF Connect, hist
<1>2. seen[c] = <<>>
  BY <1>1 DEF RequestsRemembered
<1>3. \A i \in DOMAIN backlog' : seen[backlog'[i]] = <<>>
  <2>1. backlog \in Seq(Clients)
    BY DEF IInv, TypeOK
  <2>2. /\ backlog' \in Seq(Clients) /\ Len(backlog') = Len(backlog) + 1
        /\ \A i \in 1 .. Len(backlog) : backlog'[i] = backlog[i]
        /\ backlog'[Len(backlog) + 1] = c
    BY <1>1, <2>1, AppendProperties
  <2>3. DOMAIN backlog' = 1 .. Len(backlog) + 1 /\ DOMAIN backlog = 1 .. Len(backlog)
        /\ Len(backlog) \in Nat
    BY <2>1, <2>2, LenProperties
  <2> SUFFICES ASSUME NEW i \in DOMAIN backlog' PROVE seen[backlog'[i]] = <<>>
    OBVIOUS
  <2>4. CASE i = Len(backlog) + 1
    BY <1>2, <2>2, <2>4
  <2>5. CASE i # Len(backlog) + 1
    <3>1. i \in DOMAIN backlog /\ backlog'[i] = backlog[i]
      BY <2>2, <2>3, <2>5
    <3> QED BY <3>1 DEF RequestsRemembered
  <2> QED BY <2>4, <2>5
<1>4. \A d \in Clients : peer'[d] = "idle" => peer[d] = "idle"
  BY <1>1 DEF IInv, TypeOK
<1> QED BY <1>1, <1>3, <1>4, QuietRemembers

(* The line TakeLine consumes becomes the last one of its client. *)
LEMMA TakeLineRemembers ==
  ASSUME IInv, RequestsRemembered, NEW f \in Fds, Serve(f), TakeLine(f)
  PROVE  /\ RequestsRemembered'
         /\ LastRequest(seen'[fdt[f]]) = RequestOf(Data(f), sess[f].request)
<1>0. PICK c \in Clients : c = fdt[f]
  BY TurnType, ReachedType
<1>1. /\ TypeOK /\ peer[c] \in {"here", "gone", "reset"} /\ sess[f] # NoSession
      /\ Len(sess[f].buf) < InBufSize
      /\ \A g \in Fds : g # f => fdt[g] # c
      /\ \A i \in DOMAIN backlog : backlog[i] # c
  BY <1>0, TurnType, ReachedType DEF IInv
<1>2. Data(f) \in Seq(Tokens) /\ HasLF(Data(f))
  BY <1>0, <1>1, ReadType DEF TakeLine
<1> DEFINE t == SubSeq(Data(f), 1, FirstLF(Data(f)))
           r == RequestOf(Data(f), sess[f].request)
           b == AfterLF(Data(f))
<1>3. t \in Seq(Tokens) /\ IsLine(t) /\ r = Parse(SubSeq(t, 1, Len(t) - 1))
  BY <1>2, FirstLine
<1>4. /\ sess' = [sess EXCEPT ![f] = [buf |-> b,
                                      request |-> IF prog = "counter" THEN r ELSE "unknown"]]
      /\ seen' = [seen EXCEPT ![c] = @ \o t]
      /\ UNCHANGED <<prog, backlog, fdt, peer>>
  BY <1>0, TurnType DEF TakeLine
<1> HIDE DEF t, r, b
<1>6. /\ LastRequest(seen[c] \o t) = r /\ WholeLines(seen[c] \o t)
  <2>1. seen[c] \in Seq(Tokens) /\ WholeLines(seen[c])
    BY <1>1 DEF TypeOK, RequestsRemembered
  <2> QED BY <1>3, <2>1, LastOfLine
<1>7. /\ seen'[c] = seen[c] \o t
      /\ \A d \in Clients : d # c => seen'[d] = seen[d]
  BY <1>1, <1>4 DEF TypeOK
<1>8. /\ sess'[f].request = (IF prog = "counter" THEN r ELSE "unknown")
      /\ \A g \in Fds : g # f => sess'[g] = sess[g]
  BY <1>1, <1>4 DEF TypeOK
<1>9. \A d \in Clients : WholeLines(seen'[d])
  BY <1>6, <1>7 DEF RequestsRemembered
<1>10. \A d \in Clients : peer'[d] = "idle" => seen'[d] = <<>>
  <2> SUFFICES ASSUME NEW d \in Clients, peer'[d] = "idle" PROVE seen'[d] = <<>>
    OBVIOUS
  <2>1. d # c /\ peer[d] = "idle"
    BY <1>1, <1>4 DEF TypeOK
  <2> QED BY <1>7, <2>1 DEF RequestsRemembered
<1>11. \A i \in DOMAIN backlog' : seen'[backlog'[i]] = <<>>
  <2> SUFFICES ASSUME NEW i \in DOMAIN backlog PROVE seen'[backlog[i]] = <<>>
    BY <1>4
  <2>1. backlog[i] \in Clients
    <3>1. backlog \in Seq(Clients)
      BY <1>1 DEF TypeOK
    <3> QED BY <3>1, LenProperties, ElementOfSeq
  <2> QED BY <1>1, <1>7, <2>1 DEF RequestsRemembered
<1>12. ASSUME prog' = "counter", NEW g \in Fds, sess'[g] # NoSession
       PROVE  sess'[g].request = LastRequest(seen'[fdt'[g]])
  <2>1. CASE g = f
    BY <1>0, <1>4, <1>6, <1>7, <1>8, <1>12, <2>1
  <2>2. CASE g # f
    <3>1. sess[g] # NoSession /\ sess'[g] = sess[g] /\ fdt'[g] = fdt[g] /\ prog = "counter"
      BY <1>4, <1>8, <1>12, <2>2
    <3>2. fdt[g] \in Clients /\ fdt[g] # c
      BY <1>1, <2>2, <3>1, NullAssumption DEF IInv, TypeOK, SlotsMatchDescriptors
    <3>3. sess[g].request = LastRequest(seen[fdt[g]])
      BY <3>1 DEF RequestsRemembered
    <3> QED BY <1>7, <3>1, <3>2, <3>3
  <2> QED BY <2>1, <2>2
<1>13. RequestsRemembered'
  BY <1>9, <1>10, <1>11, <1>12 DEF RequestsRemembered
<1> QED BY <1>0, <1>6, <1>7, <1>13 DEF r

(* A session that is closed leaves the others with their requests. *)
LEMMA CloseRemembers ==
  ASSUME IInv, RequestsRemembered, NEW f \in Fds, NEW why, CloseSession(f, why),
         peer' = [peer EXCEPT ![fdt[f]] = "closed"], UNCHANGED <<prog, backlog, seen>>
  PROVE  RequestsRemembered'
<1>1. \A d \in Clients : peer'[d] = "idle" => peer[d] = "idle"
  BY DEF IInv, TypeOK
<1>2. \A g \in Fds : sess'[g] # NoSession =>
        fdt'[g] = fdt[g] /\ sess[g] # NoSession /\ sess'[g].request = sess[g].request
  BY DEF CloseSession, IInv, TypeOK
<1>3. \A i \in DOMAIN backlog' : seen[backlog'[i]] = <<>>
  BY DEF RequestsRemembered
<1> QED BY <1>1, <1>2, <1>3, QuietRemembers

(* Every step leaves each session with the request of its last line. *)
LEMMA StepRemembers == IInv /\ RequestsRemembered /\ [Next]_vars => RequestsRemembered'
<1> SUFFICES ASSUME IInv, RequestsRemembered, [Next]_vars PROVE RequestsRemembered'
  OBVIOUS
<1>0. \A i \in DOMAIN backlog : seen[backlog[i]] = <<>>
  BY DEF RequestsRemembered
<1>1. CASE UNCHANGED <<prog, seen, peer, backlog, fdt, sess>>
  BY <1>0, <1>1, QuietRemembers
<1>2. CASE Accept
  BY <1>2, AcceptRemembers
<1>3. ASSUME NEW f \in Fds, Serve(f) PROVE RequestsRemembered'
  <2>1. /\ UNCHANGED <<prog, backlog>> /\ sess[f] # NoSession
    BY <1>3, TurnType, ReachedType
  <2>2. CASE HangUp(f)
    <3>1. /\ UNCHANGED seen /\ CloseSession(f, "hangup")
          /\ peer' = [peer EXCEPT ![fdt[f]] = "closed"]
      BY <2>2 DEF HangUp
    <3> QED BY <2>1, <3>1, CloseRemembers
  <2>3. CASE KeepPartial(f) \/ Reject(f)
    <3>1. sess' = [sess EXCEPT ![f].buf = Data(f)] /\ UNCHANGED <<peer, seen, fdt>>
      BY <2>3 DEF KeepPartial, Reject
    <3>2. sess[f] \in [buf : Seq(Tokens), request : Requests]
      BY <2>1 DEF IInv, TypeOK
    <3>3. \A g \in Fds : sess'[g] # NoSession =>
            fdt'[g] = fdt[g] /\ sess[g] # NoSession /\ sess'[g].request = sess[g].request
      <4> SUFFICES ASSUME NEW g \in Fds, sess'[g] # NoSession
                   PROVE  sess[g] # NoSession /\ sess'[g].request = sess[g].request
        BY <3>1
      <4>1. sess'[g] = IF g = f THEN [sess[f] EXCEPT !.buf = Data(f)] ELSE sess[g]
        BY <3>1 DEF IInv, TypeOK
      <4>2. [sess[f] EXCEPT !.buf = Data(f)].request = sess[f].request
        BY <3>2
      <4> QED BY <2>1, <4>1, <4>2
    <3> QED BY <1>0, <2>1, <3>1, <3>3, QuietRemembers
  <2> QED BY <1>3, <2>2, <2>3, TakeLineRemembers DEF Serve
<1>4. ASSUME NEW c \in Clients, Connect(c) PROVE RequestsRemembered'
  BY <1>4, ConnectRemembers
<1>5. ASSUME NEW c \in Clients, Leave(c) PROVE RequestsRemembered'
  <2>1. /\ UNCHANGED <<prog, seen, backlog, fdt, sess>>
        /\ \A d \in Clients : peer'[d] = "idle" => peer[d] = "idle"
    BY <1>5 DEF Leave, hist, IInv, TypeOK
  <2> QED BY <1>0, <2>1, QuietRemembers
<1>6. CASE Write
  <2> DEFINE f == writing.fd
  <2>1. f \in Fds /\ sess[f] # NoSession /\ fdt[f] \in Clients /\ UNCHANGED <<prog, backlog, seen>>
    BY <1>6, WritingType DEF Write
  <2>2. CASE CloseSession(f, "too long") /\ peer' = [peer EXCEPT ![fdt[f]] = "closed"]
    <3> HIDE DEF f
    <3> QED BY <2>1, <2>2, CloseRemembers
  <2>3. CASE /\ peer' = [peer EXCEPT ![fdt[f]] = IF @ = "gone" THEN "reset" ELSE @]
             /\ UNCHANGED <<rcvq, fdt, sess, verdict>>
    <3>1. \A d \in Clients : peer'[d] = "idle" => peer[d] = "idle"
      BY <2>1, <2>3 DEF IInv, TypeOK
    <3> QED BY <1>0, <2>1, <2>3, <3>1, QuietRemembers
  <2> QED BY <1>6, <2>2, <2>3 DEF Write
<1> QED BY <1>1, <1>2, <1>3, <1>4, <1>5, <1>6
      DEF Next, Server, Select, Sigpipe, Send, Take, vars, net, hist

(* A read takes something out of the queue of its client. *)
LEMMA ReadShortens ==
  ASSUME IInv, NEW f \in Fds, NextDescriptor(f), ~Ended(f),
         rcvq' = [rcvq EXCEPT ![fdt[f]] = Unread(f)]
  PROVE  rcvq'[fdt[f]] # rcvq[fdt[f]]
<1>0. PICK c \in Clients : c = fdt[f]
  BY ReachedType
<1>1. /\ TypeOK /\ sess[f] # NoSession /\ Len(sess[f].buf) < InBufSize
  BY <1>0, ReachedType DEF IInv
<1>2. /\ Arrived(f) \in Seq(Tokens) /\ Unread(f) \in Seq(Tokens)
      /\ Arrived(f) \o Unread(f) = rcvq[c] /\ Arrived(f) # <<>>
  BY <1>0, <1>1, ReadType DEF Ended
<1>3. Len(rcvq[c]) = Len(Arrived(f)) + Len(Unread(f))
  BY <1>2, ConcatProperties
<1>4. Len(Arrived(f)) \in Nat /\ Len(Unread(f)) \in Nat /\ Len(Arrived(f)) # 0
  BY <1>2, LenProperties, EmptySeq
<1>5. rcvq'[c] = Unread(f)
  BY <1>0, <1>1 DEF TypeOK
<1>6. Len(rcvq[c]) # Len(Unread(f))
  BY <1>3, <1>4
<1> QED BY <1>0, <1>5, <1>6

(* A response moves the counter by what the request asks for. *)
LEMMA RespondEffect ==
  ASSUME TypeOK, NEW f, NEW r, Respond(f, r)
  PROVE  counter' = counter + Effect(r)
<1>1. counter \in Int
  BY DEF TypeOK
<1> QED BY <1>1 DEF Respond, Effect

(* A line has its effect in the step that consumes it. *)
LEMMA LineAsked ==
  ASSUME IInv, RequestsRemembered, NEW f \in Fds, Serve(f), TakeLine(f)
  PROVE  /\ seen'[fdt[f]] # seen[fdt[f]]
         /\ \A d \in Clients : d # fdt[f] => seen'[d] = seen[d]
         /\ prog = "counter" => counter' = counter + Effect(LastRequest(seen'[fdt[f]]))
         /\ fdt[f] \in Clients
<1>1. /\ TypeOK /\ fdt[f] \in Clients /\ sess[f] # NoSession /\ Len(sess[f].buf) < InBufSize
  BY TurnType, ReachedType DEF IInv
<1>2. Data(f) \in Seq(Tokens) /\ HasLF(Data(f))
  BY <1>1, ReadType DEF TakeLine
<1> DEFINE t == SubSeq(Data(f), 1, FirstLF(Data(f)))
           h == seen[fdt[f]]
<1>3. t \in Seq(Tokens) /\ t # <<>>
  BY <1>2, FirstLine DEF IsLine
<1>4. seen' = [seen EXCEPT ![fdt[f]] = @ \o t]
  BY DEF TakeLine
<1> HIDE DEF t
<1>5. h \in Seq(Tokens) /\ seen'[fdt[f]] = h \o t
  BY <1>1, <1>4 DEF TypeOK
<1>6. h \o t # h
  <2>1. Len(h \o t) = Len(h) + Len(t) /\ Len(h) \in Nat /\ Len(t) \in Nat /\ Len(t) # 0
    BY <1>3, <1>5, ConcatProperties, LenProperties, EmptySeq
  <2>2. Len(h \o t) # Len(h)
    BY ONLY <2>1
  <2> QED BY <2>2
<1>7. \A d \in Clients : d # fdt[f] => seen'[d] = seen[d]
  BY <1>1, <1>4 DEF TypeOK
<1>8. prog = "counter" => Respond(f, LastRequest(seen'[fdt[f]]))
  BY TakeLineRemembers DEF TakeLine
<1> QED BY <1>1, <1>5, <1>6, <1>7, <1>8, RespondEffect

(* A read that brings a part of a line repeats the last one's request. *)
LEMMA PartAsked ==
  ASSUME IInv, RequestsRemembered, NEW f \in Fds, Serve(f), KeepPartial(f), counter' # counter
  PROVE  /\ fdt[f] \in Clients /\ BringsPart(fdt[f])
         /\ counter' = counter + Effect(LastRequest(seen[fdt[f]]))
<1>0. PICK c \in Clients : c = fdt[f]
  BY TurnType, ReachedType
<1>1. /\ TypeOK /\ sess[f] # NoSession /\ Len(sess[f].buf) < InBufSize /\ NextDescriptor(f)
      /\ \A g \in Fds : g # f => fdt[g] # c
  BY <1>0, TurnType, ReachedType DEF IInv
<1>2. /\ sess[f].buf \in Seq(Tokens) /\ Arrived(f) \in Seq(Tokens) /\ Arrived(f) # <<>>
      /\ Data(f) = sess[f].buf \o Arrived(f) /\ ~HasLF(Data(f))
  BY <1>0, <1>1, ReadType DEF Data, KeepPartial, Ended
<1>3. Data(f) # <<>>
  <2>1. Len(Data(f)) = Len(sess[f].buf) + Len(Arrived(f)) /\ Len(sess[f].buf) \in Nat
        /\ Len(Arrived(f)) \in Nat /\ Len(Arrived(f)) # 0
    BY <1>2, ConcatProperties, LenProperties, EmptySeq
  <2>2. Len(Data(f)) # 0
    BY ONLY <2>1
  <2>3. Len(<<>>) = 0
    OBVIOUS
  <2> QED BY <2>2, <2>3
<1>4. /\ sess' = [sess EXCEPT ![f].buf = Data(f)] /\ fdt' = fdt
      /\ rcvq' = [rcvq EXCEPT ![fdt[f]] = Unread(f)] /\ ~Ended(f)
  BY DEF KeepPartial
<1>5. rcvq'[c] # rcvq[c]
  BY <1>0, <1>1, <1>4, ReadShortens
<1>6. Buffered(c)' = Data(f)
  <2>1. (CHOOSE g \in Fds : fdt'[g] = c) = f
    BY <1>0, <1>1, <1>4
  <2>2. Buffered(c)' = sess'[f].buf
    BY <1>0, <1>4, <2>1 DEF Buffered
  <2>3. sess[f] \in [buf : Seq(Tokens), request : Requests]
    BY <1>1 DEF TypeOK
  <2>4. sess'[f].buf = Data(f)
    BY <1>1, <1>4, <2>3 DEF TypeOK
  <2> QED BY <2>2, <2>4
<1>7. BringsPart(c)
  BY <1>2, <1>3, <1>5, <1>6 DEF BringsPart
<1>8. prog = "counter" /\ Respond(f, sess[f].request)
  BY DEF KeepPartial
<1>9. sess[f].request = LastRequest(seen[c])
  BY <1>0, <1>1, <1>8 DEF RequestsRemembered
<1>10. counter' = counter + Effect(LastRequest(seen[c]))
  BY <1>1, <1>8, <1>9, RespondEffect
<1> QED BY <1>0, <1>7, <1>10

(* What moves the counter in one step. *)
Asked ==
  /\ \A c \in Clients : prog = "counter" /\ seen'[c] # seen[c] =>
       counter' = counter + Effect(LastRequest(seen'[c]))
  /\ counter' # counter => \E c \in Clients :
       \/ seen'[c] # seen[c]
       \/ BringsPart(c) /\ counter' = counter + Effect(LastRequest(seen[c]))

LEMMA StepAsked == IInv /\ RequestsRemembered /\ [Next]_vars => Asked
<1> SUFFICES ASSUME IInv, RequestsRemembered, [Next]_vars PROVE Asked
  OBVIOUS
<1>1. CASE UNCHANGED <<counter, seen>>
  BY <1>1 DEF Asked
<1>2. ASSUME NEW f \in Fds, Serve(f) PROVE Asked
  <2>1. CASE HangUp(f) \/ Reject(f)
    BY <1>1, <2>1 DEF HangUp, Reject
  <2>2. CASE TakeLine(f)
    BY <1>2, <2>2, LineAsked DEF Asked
  <2>3. CASE KeepPartial(f)
    <3>1. seen' = seen
      BY <2>3 DEF KeepPartial
    <3> QED BY <1>2, <2>3, <3>1, PartAsked DEF Asked
  <2> QED BY <1>2, <2>1, <2>2, <2>3 DEF Serve
<1> QED BY <1>1, <1>2
      DEF Next, Server, Select, Accept, Write, Sigpipe, Connect, Send, Take, Leave, vars, hist

(* A complete line moves the counter by what it asks for, in the step that  *)
(* consumes it; the counter moves in no other step except that a part of a  *)
(* line repeats the last request of its own client (6_13.c runs             *)
(* server_response after every read).                                       *)
THEOREM CounterCorrect == Spec => CounterStepsAreAsked
<1>1. Init => IInv /\ RequestsRemembered
  <2>1. ASSUME Init PROVE RequestsRemembered
    <3>1. /\ \A c \in Clients : seen[c] = <<>>
          /\ backlog = <<>> /\ \A f \in Fds : sess[f] = NoSession
      BY <2>1 DEF Init
    <3>2. DOMAIN backlog = {}
      BY <3>1
    <3> QED BY <3>1, <3>2 DEF RequestsRemembered, WholeLines
  <2> QED BY <2>1, InitInv
<1>2. IInv /\ RequestsRemembered /\ [Next]_vars => (IInv /\ RequestsRemembered)'
  BY StepInv, StepRemembers
<1>3. IInv /\ RequestsRemembered /\ [Next]_vars => [Asked]_vars
  BY StepAsked
<1>4. Spec => [][Asked]_vars
  BY <1>1, <1>2, <1>3, PTL DEF Spec
<1> QED BY <1>4 DEF CounterStepsAreAsked, Asked

-----------------------------------------------------------------------------
(* Who is read how often *)

(* How often descriptor g may still be read before f's turn comes: once in  *)
(* this pass of the loop if g is still ahead, and once in the next one.     *)
Overtaking ==
  \A c \in Clients, g \in Fds :
    /\ ~Waiting(c) => overtaken[c][g] = 0
    /\ Answering(c) => overtaken[c][g] = 0
    /\ \A f \in Fds : fdt[f] = c =>
         IF f \in ready
         THEN overtaken[c][g] <= IF g \in ready /\ g < f THEN 1 ELSE 2
         ELSE overtaken[c][g] <= IF g \in ready THEN 0 ELSE 1

(* Steps that read nothing, and neither end nor begin a wait. *)
LEMMA QuietOvertakes ==
  ASSUME IInv, IInv', Overtaking, UNCHANGED <<overtaken, fdt, ready>>,
         \A c \in Clients : Waiting(c) => Waiting(c)',
         \A c \in Clients : Answering(c)' => Answering(c)
  PROVE  Overtaking'
BY DEF Overtaking

(* select() begins a pass in which everyone who waits has its turn. *)
LEMMA SelectOvertakes ==
  ASSUME IInv, Overtaking, Select
  PROVE  Overtaking'
<1>1. /\ ready = {} /\ ready' = ReadableFds /\ UNCHANGED <<rcvq, peer, fdt, overtaken, writing>>
      /\ writing = NoWrite
  BY DEF Select, AtTop, net, hist
<1>2. \A c \in Clients : (Waiting(c)' <=> Waiting(c)) /\ ~Answering(c)'
  BY <1>1 DEF Waiting, Readable, Answering
<1> SUFFICES ASSUME NEW c \in Clients, NEW g \in Fds, NEW f \in Fds, fdt[f] = c
             PROVE  IF f \in ready'
                    THEN overtaken[c][g] <= IF g \in ready' /\ g < f THEN 1 ELSE 2
                    ELSE overtaken[c][g] <= IF g \in ready' THEN 0 ELSE 1
  BY <1>1, <1>2 DEF Overtaking
<1>3. overtaken[c][g] \in Nat /\ overtaken[c][g] <= 1
  BY <1>1 DEF Overtaking, IInv, TypeOK
<1>4. f \notin ready' => overtaken[c][g] = 0
  <2>1. sess[f] # NoSession
    BY NullAssumption DEF IInv, SlotsMatchDescriptors
  <2>2. f \notin ready' => ~Waiting(c)
    BY <1>1, <2>1 DEF ReadableFds, Watched, Waiting
  <2> QED BY <2>2 DEF Overtaking
<1> QED BY ONLY <1>3, <1>4

(* A client that is accepted has not waited yet. *)
LEMMA AcceptOvertakes ==
  ASSUME IInv, IInv', Overtaking, Accept
  PROVE  Overtaking'
<1>1. /\ UNCHANGED <<rcvq, peer, ready, overtaken, writing>> /\ writing = NoWrite
  BY DEF Accept, hist
<1>2. \A c \in Clients : ~Answering(c)'
  BY <1>1 DEF Answering
<1>3. CASE UNCHANGED fdt
  <2>1. \A c \in Clients : Waiting(c)' <=> Waiting(c)
    BY <1>1, <1>3 DEF Waiting, Readable
  <2> QED BY <1>1, <1>2, <1>3, <2>1 DEF Overtaking
<1>4. ASSUME NEW f0 \in Free, fdt' = [fdt EXCEPT ![f0] = Head(backlog)]
      PROVE  Overtaking'
  <2>1. /\ f0 \in Fds /\ fdt[f0] = NoClient /\ fdt'[f0] = Head(backlog)
        /\ \A g \in Fds : g # f0 => fdt'[g] = fdt[g]
    BY <1>4 DEF Free, IInv, TypeOK
  <2>2. f0 \notin ready
    <3>1. sess[f0] = NoSession
      BY <2>1 DEF IInv, SlotsMatchDescriptors
    <3> QED BY <3>1 DEF IInv, LoopShape, Watched
  <2>3. ASSUME NEW c \in Clients, c # Head(backlog) PROVE Waiting(c)' <=> Waiting(c)
    BY <1>1, <2>1, <2>3, NullAssumption DEF Waiting, Readable
  <2>4. ASSUME NEW c \in Clients, c = Head(backlog), NEW g \in Fds PROVE overtaken[c][g] = 0
    <3>1. \A h \in Fds : h # f0 => fdt'[h] # fdt'[f0]
      BY <2>1, <2>4, NullAssumption DEF IInv, SlotsMatchDescriptors
    <3>2. \A h \in Fds : fdt[h] # c
      BY <2>1, <2>4, <3>1, NullAssumption
    <3> QED BY <3>2 DEF Overtaking, Waiting
  <2> SUFFICES ASSUME NEW c \in Clients, NEW g \in Fds
               PROVE  /\ ~Waiting(c)' => overtaken[c][g] = 0
                      /\ \A f \in Fds : fdt'[f] = c =>
                           IF f \in ready
                           THEN overtaken[c][g] <= IF g \in ready /\ g < f THEN 1 ELSE 2
                           ELSE overtaken[c][g] <= IF g \in ready THEN 0 ELSE 1
    BY <1>1, <1>2 DEF Overtaking
  <2>5. CASE c = Head(backlog)
    <3>1. overtaken[c][g] = 0
      BY <2>4, <2>5
    <3> QED BY <3>1
  <2>6. CASE c # Head(backlog)
    <3>1. \A f \in Fds : fdt'[f] = c => fdt[f] = c
      BY <2>1, <2>6
    <3> QED BY <2>3, <2>6, <3>1 DEF Overtaking
  <2> QED BY <2>5, <2>6
<1> QED BY <1>3, <1>4 DEF Accept

(* The client that is read waits no more; the others have been overtaken    *)
(* once more by its descriptor, whose turn of this pass is over.            *)
LEMMA ServeOvertakes ==
  ASSUME IInv, Overtaking, NEW f0 \in Fds, Serve(f0)
  PROVE  Overtaking'
<1>1. PICK c0 \in Clients : c0 = fdt[f0]
  BY TurnType, ReachedType
<1>2. /\ TypeOK /\ f0 \in ready /\ ready' = ready \ {f0} /\ writing = NoWrite
      /\ \A g \in Fds : g # f0 => fdt[g] # c0
      /\ \A g \in ready : f0 <= g
  BY <1>1, TurnType, ReachedType DEF IInv, NextDescriptor
<1>3. overtaken' = [c \in Clients |-> [g \in Fds |->
                     IF c = c0 THEN 0
                     ELSE IF g = f0 /\ Waiting(c) THEN overtaken[c][g] + 1
                     ELSE overtaken[c][g]]]
  BY <1>1 DEF Serve
<1>4. /\ \A c \in Clients : c # c0 => rcvq'[c] = rcvq[c] /\ peer'[c] = peer[c]
      /\ \A f \in Fds : fdt'[f] = fdt[f] \/ (f = f0 /\ fdt'[f] = NoClient)
      /\ writing' = NoWrite \/ \E m : writing' = [fd |-> f0, msg |-> m]
  <2>1. CASE HangUp(f0)
    BY <1>1, <1>2, <2>1 DEF HangUp, CloseSession, TypeOK
  <2>2. CASE TakeLine(f0) \/ KeepPartial(f0) \/ Reject(f0)
    <3>1. rcvq' = [rcvq EXCEPT ![c0] = Unread(f0)] /\ UNCHANGED <<peer, fdt>>
      BY <1>1, <2>2 DEF TakeLine, KeepPartial, Reject
    <3>2. writing' = NoWrite \/ \E m : writing' = [fd |-> f0, msg |-> m]
      BY <1>2, <2>2 DEF TakeLine, KeepPartial, Reject, Respond, Answer, Silent
    <3> QED BY <1>2, <3>1, <3>2 DEF TypeOK
  <2> QED BY <2>1, <2>2 DEF Serve
<1>5. \A c \in Clients : c # c0 => ~Answering(c)'
  <2> SUFFICES ASSUME NEW c \in Clients, c # c0, writing' # NoWrite PROVE fdt'[writing'.fd] # c
    BY DEF Answering
  <2>1. writing'.fd = f0
    BY <1>4
  <2> QED BY <1>1, <1>4, <2>1, NullAssumption
<1>6. ASSUME NEW c \in Clients, c # c0
      PROVE  /\ Waiting(c)' <=> Waiting(c)
             /\ \A f \in Fds : fdt'[f] = c <=> fdt[f] = c
  <2>1. \A f \in Fds : fdt'[f] = c <=> fdt[f] = c
    BY <1>1, <1>4, <1>6, NullAssumption
  <2> QED BY <1>4, <1>6, <2>1 DEF Waiting, Readable
<1> SUFFICES ASSUME NEW c \in Clients, NEW g \in Fds
             PROVE  /\ ~Waiting(c)' => overtaken'[c][g] = 0
                    /\ Answering(c)' => overtaken'[c][g] = 0
                    /\ \A f \in Fds : fdt'[f] = c =>
                         IF f \in ready'
                         THEN overtaken'[c][g] <= IF g \in ready' /\ g < f THEN 1 ELSE 2
                         ELSE overtaken'[c][g] <= IF g \in ready' THEN 0 ELSE 1
  BY DEF Overtaking
<1>7. CASE c = c0
  <2>1. overtaken'[c][g] = 0
    BY <1>3, <1>7
  <2> QED BY <2>1
<1>8. CASE c # c0
  <2>1. overtaken'[c][g] = IF g = f0 /\ Waiting(c) THEN overtaken[c][g] + 1 ELSE overtaken[c][g]
    BY <1>3, <1>8
  <2>2. overtaken[c][g] \in Nat
    BY <1>2 DEF TypeOK
  <2>3. /\ ~Waiting(c)' => overtaken'[c][g] = 0
        /\ Answering(c)' => overtaken'[c][g] = 0
    BY <1>5, <1>6, <1>8, <2>1 DEF Overtaking
  <2>4. ASSUME NEW f \in Fds, fdt'[f] = c
        PROVE  IF f \in ready'
               THEN overtaken'[c][g] <= IF g \in ready' /\ g < f THEN 1 ELSE 2
               ELSE overtaken'[c][g] <= IF g \in ready' THEN 0 ELSE 1
    <3>1. fdt[f] = c /\ f # f0
      BY <1>1, <1>6, <1>8, <2>4
    <3>2. IF f \in ready
          THEN overtaken[c][g] <= IF g \in ready /\ g < f THEN 1 ELSE 2
          ELSE overtaken[c][g] <= IF g \in ready THEN 0 ELSE 1
      BY <3>1 DEF Overtaking
    <3>3. f \in ready' <=> f \in ready
      BY <1>2, <3>1
    <3>4. CASE g # f0
      <4>1. (g \in ready' <=> g \in ready) /\ overtaken'[c][g] = overtaken[c][g]
        BY <1>2, <2>1, <3>4
      <4> QED BY <3>2, <3>3, <4>1
    <3>5. CASE g = f0
      <4>1. g \in ready /\ g \notin ready' /\ overtaken'[c][g] <= overtaken[c][g] + 1
        BY <1>2, <2>1, <2>2, <3>5
      <4>2. f \in ready => g < f
        <5>1. f \in ready => g <= f /\ g # f
          BY <1>2, <3>1, <3>5
        <5>2. f \in Nat /\ g \in Nat
          BY FdsAssumption
        <5> QED BY ONLY <5>1, <5>2
      <4>3. overtaken'[c][g] \in Nat
        BY <2>1, <2>2
      <4>4. overtaken[c][g] <= IF f \in ready THEN 1 ELSE 0
        BY <3>2, <4>1, <4>2
      <4> QED BY ONLY <2>2, <3>3, <4>1, <4>3, <4>4
    <3> QED BY <3>4, <3>5
  <2> QED BY <2>3, <2>4
<1> QED BY <1>7, <1>8

(* An answer is written to a client that has just been read. *)
LEMMA WriteOvertakes ==
  ASSUME IInv, Overtaking, Write
  PROVE  Overtaking'
<1> DEFINE f0 == writing.fd
           c0 == fdt[writing.fd]
<1>1. /\ f0 \in Fds /\ c0 \in Clients /\ sess[f0] # NoSession
      /\ writing' = NoWrite /\ UNCHANGED <<ready, overtaken>> /\ TypeOK
  BY WritingType DEF Write, loop, IInv
<1>2. \A g \in Fds : overtaken[c0][g] = 0
  BY <1>1 DEF Write, Answering, Overtaking
<1>3. /\ \A f \in Fds : fdt'[f] = fdt[f] \/ (f = f0 /\ fdt'[f] = NoClient)
      /\ \A c \in Clients : c # c0 => peer'[c] = peer[c] /\ rcvq'[c] = rcvq[c]
  <2>1. CASE CloseSession(f0, "too long") /\ peer' = [peer EXCEPT ![c0] = "closed"]
    BY <1>1, <2>1 DEF CloseSession, TypeOK
  <2>2. CASE /\ peer' = [peer EXCEPT ![c0] = IF @ = "gone" THEN "reset" ELSE @]
             /\ UNCHANGED <<rcvq, fdt, sess, verdict>>
    BY <1>1, <2>2 DEF TypeOK
  <2> QED BY <2>1, <2>2 DEF Write
<1>4. \A c \in Clients : ~Answering(c)'
  BY <1>1 DEF Answering
<1>5. ASSUME NEW c \in Clients, c # c0 PROVE Waiting(c)' <=> Waiting(c)
  <2>1. \A f \in Fds : fdt'[f] = c <=> fdt[f] = c
    BY <1>1, <1>3, <1>5, NullAssumption
  <2> QED BY <1>3, <1>5, <2>1 DEF Waiting, Readable
<1> HIDE DEF f0, c0
<1> SUFFICES ASSUME NEW c \in Clients, NEW g \in Fds
             PROVE  /\ ~Waiting(c)' => overtaken[c][g] = 0
                    /\ \A f \in Fds : fdt'[f] = c =>
                         IF f \in ready
                         THEN overtaken[c][g] <= IF g \in ready /\ g < f THEN 1 ELSE 2
                         ELSE overtaken[c][g] <= IF g \in ready THEN 0 ELSE 1
  BY <1>1, <1>4 DEF Overtaking
<1>6. CASE c = c0
  <2>1. overtaken[c][g] = 0
    BY <1>2, <1>6
  <2> QED BY <2>1
<1>7. CASE c # c0
  <2>1. \A f \in Fds : fdt'[f] = c => fdt[f] = c
    BY <1>3, NullAssumption
  <2> QED BY <1>5, <1>7, <2>1 DEF Overtaking
<1> QED BY <1>6, <1>7

LEMMA StepOvertakes == IInv /\ Overtaking /\ [Next]_vars => Overtaking'
<1> SUFFICES ASSUME IInv, Overtaking, [Next]_vars PROVE Overtaking'
  OBVIOUS
<1>0. IInv'
  BY StepInv
<1>1. CASE UNCHANGED <<overtaken, fdt, ready, rcvq, peer, writing>>
  <2>1. \A c \in Clients : (Waiting(c)' <=> Waiting(c)) /\ (Answering(c)' <=> Answering(c))
    BY <1>1 DEF Waiting, Readable, Answering
  <2> QED BY <1>0, <1>1, <2>1, QuietOvertakes
<1>2. ASSUME NEW c \in Clients, Connect(c) \/ Send(c) \/ Leave(c) PROVE Overtaking'
  <2>1. UNCHANGED <<overtaken, fdt, ready, writing>>
    BY <1>2 DEF Connect, Send, Leave, loop, hist
  <2>2. \A d \in Clients : Readable(d) => Readable(d)'
    <3>1. CASE Connect(c) \/ Leave(c)
      BY <3>1 DEF Connect, Leave, Readable, IInv, TypeOK
    <3>2. CASE Send(c)
      <4>1. PICK chunk \in Chunks : rcvq' = [rcvq EXCEPT ![c] = @ \o chunk]
        BY <3>2 DEF Send
      <4>2. chunk \in Seq(Tokens) /\ chunk # <<>> /\ rcvq[c] \in Seq(Tokens)
        BY ChunksAssumption DEF IInv, TypeOK
      <4>3. rcvq[c] \o chunk # <<>>
        BY <4>2, ConcatEqualIffEmpty
      <4> QED BY <3>2, <4>1, <4>3 DEF Send, Readable, IInv, TypeOK
    <3> QED BY <1>2, <3>1, <3>2
  <2>3. \A d \in Clients : (Waiting(d) => Waiting(d)') /\ (Answering(d)' => Answering(d))
    BY <2>1, <2>2 DEF Waiting, Answering
  <2> QED BY <1>0, <2>1, <2>3, QuietOvertakes
<1>3. ASSUME NEW c \in Clients, Take(c) PROVE Overtaking'
  BY <1>1, <1>3 DEF Take, loop, hist
<1> QED BY <1>0, <1>1, <1>2, <1>3, SelectOvertakes, AcceptOvertakes, ServeOvertakes, WriteOvertakes
      DEF Next, Server, Sigpipe, vars, net, loop, hist

(* While a client has something to be read, each other descriptor is read   *)
(* at most twice before it, whatever the others send and however long an    *)
(* answer keeps the process: server_go serves all that select() reported    *)
(* before it asks again.                                                    *)
THEOREM NobodyStarved == Spec => NobodyStarves
<1> DEFINE AtMostTwice == \A c \in Clients, g \in Fds : overtaken[c][g] <= 2
<1>1. Init => IInv /\ Overtaking
  <2> SUFFICES ASSUME Init PROVE Overtaking
    BY InitInv
  <2>1. \A c \in Clients, g \in Fds : overtaken[c][g] = 0
    BY DEF Init
  <2>2. \A f \in Fds : \A c \in Clients : fdt[f] # c
    BY NullAssumption DEF Init
  <2> QED BY <2>1, <2>2 DEF Overtaking
<1>2. IInv /\ Overtaking /\ [Next]_vars => (IInv /\ Overtaking)'
  BY StepInv, StepOvertakes
<1>3. IInv /\ Overtaking => AtMostTwice
  <2> SUFFICES ASSUME IInv, Overtaking, NEW c \in Clients, NEW g \in Fds
               PROVE  overtaken[c][g] <= 2
    OBVIOUS
  <2>1. overtaken[c][g] \in Nat
    BY DEF IInv, TypeOK
  <2>2. CASE \E f \in Fds : fdt[f] = c
    BY <2>1, <2>2 DEF Overtaking
  <2>3. CASE ~ \E f \in Fds : fdt[f] = c
    <3>1. overtaken[c][g] = 0
      BY <2>3 DEF Overtaking, Waiting
    <3> QED BY <3>1
  <2> QED BY <2>2, <2>3
<1>4. AtMostTwice' => \A c \in Clients, g \in Fds : overtaken'[c][g] <= 2
  OBVIOUS
<1> HIDE DEF AtMostTwice
<1>5. Spec => []AtMostTwice
  BY <1>1, <1>2, <1>3, PTL DEF Spec
<1> QED BY <1>4, <1>5, PTL DEF NobodyStarves

-----------------------------------------------------------------------------
(***************************************************************************)
(* Part 3.  Clients that wait for their answers                            *)
(***************************************************************************)

(* Nothing is left to be read of a client that has gone away. *)
LeaversDrained == \A c \in Clients : peer[c] \in {"gone", "reset"} => Drained(c)
PoliteInv == alive = TRUE /\ LeaversDrained

(* A read of a client that has left returns 0, so what is not hung up is    *)
(* written to a client that is still here.                                  *)
LEMMA WritesToTheLiving ==
  ASSUME IInv, LeaversDrained, NEW f \in Fds, NextDescriptor(f), ~Ended(f)
  PROVE  peer[fdt[f]] = "here"
<1>0. PICK c \in Clients : c = fdt[f]
  BY ReachedType
<1>1. TypeOK /\ peer[c] \in {"here", "gone", "reset"} /\ sess[f] # NoSession
      /\ Len(sess[f].buf) < InBufSize
  BY <1>0, ReachedType DEF IInv
<1>2. SUFFICES ASSUME Drained(c) PROVE FALSE
  BY <1>0, <1>1 DEF LeaversDrained
<1>3. rcvq[c] = <<>>
  BY <1>2 DEF Drained
<1>4. Room(f) \in Nat
  <2>1. sess[f].buf \in Seq(Tokens)
    BY <1>0, <1>1, ReadType
  <2>2. Len(sess[f].buf) \in Nat
    BY <2>1, LenProperties
  <2> QED BY <1>1, <2>2, BufAssumption DEF Room
<1>5. Len(<<>>) = 0
  BY EmptySeq
<1>6. Arrived(f) = <<>>
  BY <1>0, <1>3, <1>4, <1>5 DEF Arrived
<1> QED BY <1>6 DEF Ended

(* A client's leavings stay drained while nobody but it is served. *)
LEMMA OthersDrained ==
  ASSUME LeaversDrained, NEW c \in Clients,
         \A d \in Clients : d # c =>
           /\ peer'[d] = peer[d] /\ rcvq'[d] = rcvq[d] /\ unread'[d] = unread[d]
           /\ Answering(d)' => Answering(d)
           /\ \A f \in Fds : fdt'[f] = d => fdt[f] = d /\ sess'[f] = sess[f],
         peer'[c] \in {"gone", "reset"} => Drained(c)'
  PROVE  LeaversDrained'
<1> SUFFICES ASSUME NEW d \in Clients, peer'[d] \in {"gone", "reset"} PROVE Drained(d)'
  BY DEF LeaversDrained
<1>1. CASE d = c
  BY <1>1
<1>2. CASE d # c
  <2>1. peer[d] \in {"gone", "reset"} /\ rcvq'[d] = rcvq[d] /\ unread'[d] = unread[d]
    BY <1>2
  <2>2. /\ rcvq[d] = <<>> /\ unread[d] = 0 /\ ~Answering(d)
        /\ \A f \in Fds : fdt[f] = d => sess[f].buf = <<>>
    BY <2>1 DEF LeaversDrained, Drained
  <2>3. ~Answering(d)'
    BY <1>2, <2>2
  <2>4. \A f \in Fds : fdt'[f] = d => fdt[f] = d /\ sess'[f] = sess[f]
    BY <1>2
  <2> QED BY <2>1, <2>2, <2>3, <2>4 DEF Drained
<1> QED BY <1>1, <1>2

(* A turn of the loop ends with no write(), or with one to whom it served. *)
LEMMA ServeWrites ==
  ASSUME IInv, NEW f \in Fds, Serve(f)
  PROVE  /\ writing = NoWrite
         /\ writing' = NoWrite \/ \E m \in Replies \X Int : writing' = [fd |-> f, msg |-> m]
<1>1. NextDescriptor(f)
  BY DEF Serve
<1>2. writing = NoWrite /\ TypeOK
  BY <1>1, ReachedType DEF IInv
<1>3. CASE HangUp(f)
  BY <1>2, <1>3 DEF HangUp
<1>0. <<"ok", 0>> \in Replies \X Int /\ TooLong \in Replies \X Int
  <2>1. "ok" \in Replies /\ "too long" \in Replies /\ 0 \in Int
    BY DEF Replies
  <2> QED BY <2>1 DEF TooLong
<1>4. CASE Reject(f)
  BY <1>0, <1>2, <1>4 DEF Reject, Answer
<1>5. CASE TakeLine(f) \/ KeepPartial(f)
  <2>1. CASE \E r : Respond(f, r)
    BY <1>2, <2>1, RespondType
  <2>2. CASE Silent
    BY <1>2, <2>2 DEF Silent
  <2>3. CASE Answer(f, <<"ok", 0>>)
    BY <1>0, <1>2, <2>3 DEF Answer
  <2> QED BY <1>5, <2>1, <2>2, <2>3 DEF TakeLine, KeepPartial
<1> QED BY <1>2, <1>3, <1>4, <1>5 DEF Serve

LEMMA ServePolite ==
  ASSUME IInv, PoliteInv, NEW f \in Fds, Serve(f)
  PROVE  PoliteInv'
<1>1. /\ NextDescriptor(f) /\ LeaversDrained /\ alive' = TRUE /\ unread' = unread
  BY TurnType DEF PoliteInv
<1>2. PICK c \in Clients : c = fdt[f]
  BY <1>1, ReachedType
<1>3. TypeOK /\ \A g \in Fds : g # f => fdt[g] # c
  BY <1>1, <1>2, ReachedType DEF IInv
<1>4. ASSUME NEW d \in Clients, d # c, \A g \in Fds : fdt'[g] = d => fdt[g] = d
      PROVE  ~Answering(d)'
  <2>1. writing' # NoWrite => writing'.fd = f
    BY ServeWrites
  <2> QED BY <1>2, <1>4, <2>1 DEF Answering
<1>5. CASE HangUp(f)
  <2>1. /\ fdt' = [fdt EXCEPT ![f] = NoClient] /\ sess' = [sess EXCEPT ![f] = NoSession]
        /\ rcvq' = [rcvq EXCEPT ![c] = <<>>] /\ peer' = [peer EXCEPT ![c] = "closed"]
    BY <1>2, <1>5 DEF HangUp, CloseSession
  <2>2. \A d \in Clients : d # c => peer'[d] = peer[d] /\ rcvq'[d] = rcvq[d]
    BY <1>3, <2>1 DEF TypeOK
  <2>3. \A d \in Clients, g \in Fds : fdt'[g] = d => fdt[g] = d /\ sess'[g] = sess[g]
    BY <1>3, <2>1, NullAssumption DEF TypeOK
  <2>4. peer'[c] = "closed"
    BY <1>3, <2>1 DEF TypeOK
  <2>5. LeaversDrained'
    BY <1>1, <1>4, <2>2, <2>3, <2>4, OthersDrained
  <2> QED BY <1>1, <2>5 DEF PoliteInv
<1>6. CASE TakeLine(f) \/ KeepPartial(f) \/ Reject(f)
  <2>1. peer[c] = "here"
    BY <1>1, <1>2, <1>6, WritesToTheLiving DEF TakeLine, KeepPartial, Reject
  <2>2. /\ fdt' = fdt /\ peer' = peer /\ rcvq' = [rcvq EXCEPT ![c] = Unread(f)]
        /\ \A g \in Fds : g # f => sess'[g] = sess[g]
    BY <1>2, <1>3, <1>6 DEF TakeLine, KeepPartial, Reject, TypeOK
  <2>3. \A d \in Clients : d # c => rcvq'[d] = rcvq[d]
    BY <1>3, <2>2 DEF TypeOK
  <2>4. \A d \in Clients, g \in Fds : d # c /\ fdt'[g] = d => fdt[g] = d /\ sess'[g] = sess[g]
    BY <1>2, <2>2
  <2>5. LeaversDrained'
    BY <1>1, <1>4, <2>1, <2>2, <2>3, <2>4, OthersDrained
  <2> QED BY <1>1, <2>5 DEF PoliteInv
<1> QED BY <1>5, <1>6 DEF Serve

(* An answer is written to a client that is here, so nothing is lost of it. *)
LEMMA AnswersTheLiving ==
  ASSUME IInv, LeaversDrained, writing # NoWrite
  PROVE  fdt[writing.fd] \in Clients /\ peer[fdt[writing.fd]] = "here"
<1>1. fdt[writing.fd] \in Clients /\ peer[fdt[writing.fd]] \in {"here", "gone", "reset"}
  BY WritingType
<1>2. Answering(fdt[writing.fd])
  BY DEF Answering
<1> QED BY <1>1, <1>2 DEF LeaversDrained, Drained

LEMMA WritePolite ==
  ASSUME IInv, PoliteInv, Write
  PROVE  PoliteInv'
<1> DEFINE f == writing.fd
           c == fdt[writing.fd]
<1>1. /\ f \in Fds /\ c \in Clients /\ peer[c] = "here" /\ writing' = NoWrite
      /\ LeaversDrained /\ alive' = TRUE /\ TypeOK
  BY WritingType, AnswersTheLiving DEF Write, PoliteInv, IInv
<1>2. \A d \in Clients : ~Answering(d)'
  BY <1>1 DEF Answering
<1>3. \A d \in Clients : d # c => unread'[d] = unread[d]
  <2>1. unread' = [unread EXCEPT ![c] = @ + 1]
    BY <1>1 DEF Write
  <2> QED BY <1>1, <2>1 DEF TypeOK
<1>4. CASE CloseSession(f, "too long") /\ peer' = [peer EXCEPT ![c] = "closed"]
  <2>1. \A d \in Clients : d # c => peer'[d] = peer[d] /\ rcvq'[d] = rcvq[d]
    BY <1>1, <1>4 DEF CloseSession, TypeOK
  <2>2. \A d \in Clients, g \in Fds : fdt'[g] = d => fdt[g] = d /\ sess'[g] = sess[g]
    BY <1>1, <1>4, NullAssumption DEF CloseSession, TypeOK
  <2>3. peer'[c] = "closed"
    BY <1>1, <1>4 DEF TypeOK
  <2> HIDE DEF f, c
  <2>4. LeaversDrained'
    BY <1>1, <1>2, <1>3, <2>1, <2>2, <2>3, OthersDrained
  <2> QED BY <1>1, <2>4 DEF PoliteInv
<1>5. CASE /\ peer' = [peer EXCEPT ![c] = IF @ = "gone" THEN "reset" ELSE @]
           /\ UNCHANGED <<rcvq, fdt, sess, verdict>>
  <2>1. peer' = peer
    BY <1>1, <1>5 DEF TypeOK
  <2> HIDE DEF f, c
  <2>2. LeaversDrained'
    BY <1>1, <1>2, <1>3, <1>5, <2>1, OthersDrained
  <2> QED BY <1>1, <2>2 DEF PoliteInv
<1> QED BY <1>4, <1>5 DEF Write

LEMMA StepPolite ==
  ASSUME Paced = TRUE, IInv, PoliteInv, [Next]_vars
  PROVE  PoliteInv'
<1>1. TypeOK /\ SlotsMatchDescriptors /\ LeaversDrained /\ alive = TRUE
  BY DEF IInv, PoliteInv
<1>2. ASSUME UNCHANGED <<peer, rcvq, fdt, unread, sess, writing, alive>> PROVE PoliteInv'
  BY <1>2 DEF PoliteInv, LeaversDrained, Drained, Answering
<1>3. CASE Accept
  <2>1. UNCHANGED <<peer, rcvq, unread, alive, writing>> /\ writing = NoWrite
    BY <1>3 DEF Accept
  <2>2. CASE UNCHANGED <<fdt, sess>>
    BY <1>2, <2>1, <2>2
  <2>3. ASSUME NEW f \in Free, fdt' = [fdt EXCEPT ![f] = Head(backlog)],
               sess' = [sess EXCEPT ![f] = NewSession]
        PROVE  PoliteInv'
    <3>1. f \in Fds /\ sess'[f].buf = <<>>
          /\ \A g \in Fds : g # f => fdt'[g] = fdt[g] /\ sess'[g] = sess[g]
      BY <1>1, <2>3 DEF Free, NewSession, TypeOK
    <3>2. ASSUME NEW c \in Clients, Drained(c) PROVE Drained(c)'
      <4>1. rcvq'[c] = <<>> /\ unread'[c] = 0 /\ ~Answering(c)'
        BY <2>1, <3>2 DEF Drained, Answering
      <4>2. ASSUME NEW g \in Fds, fdt'[g] = c PROVE sess'[g].buf = <<>>
        <5>1. CASE g = f
          BY <3>1, <5>1
        <5>2. CASE g # f
          BY <3>1, <3>2, <4>2, <5>2 DEF Drained
        <5> QED BY <5>1, <5>2
      <4> QED BY <4>1, <4>2 DEF Drained
    <3> QED BY <1>1, <2>1, <3>2 DEF PoliteInv, LeaversDrained
  <2> QED BY <1>3, <2>2, <2>3 DEF Accept
<1>4. ASSUME NEW f \in Fds, Serve(f) PROVE PoliteInv'
  BY <1>4, ServePolite
<1>5. ASSUME NEW c \in Clients, Connect(c) \/ Send(c) \/ Take(c) \/ Leave(c) PROVE PoliteInv'
  <2>1. UNCHANGED <<fdt, sess, writing, alive>>
    BY <1>5 DEF Connect, Send, Take, Leave
  <2>2. \A d \in Clients : d # c =>
          peer'[d] = peer[d] /\ rcvq'[d] = rcvq[d] /\ unread'[d] = unread[d]
    BY <1>1, <1>5 DEF Connect, Send, Take, Leave, TypeOK
  <2>3. peer'[c] \in {"gone", "reset"} => Drained(c)'
    <3>1. CASE Connect(c) \/ Send(c) \/ Take(c)
      BY <1>1, <3>1 DEF Connect, Send, Take, TypeOK
    <3>2. CASE Leave(c)
      BY <3>2 DEF Leave, Drained, Answering
    <3> QED BY <1>5, <3>1, <3>2
  <2>4. \A d \in Clients : Answering(d)' => Answering(d)
    BY <2>1 DEF Answering
  <2>5. LeaversDrained'
    BY <1>1, <2>1, <2>2, <2>3, <2>4, OthersDrained
  <2> QED BY <1>1, <2>1, <2>5 DEF PoliteInv
<1>6. CASE Write
  BY <1>6, WritePolite
<1>7. CASE Sigpipe
  BY <1>1, <1>7, AnswersTheLiving DEF Sigpipe
<1> QED BY <1>2, <1>3, <1>4, <1>5, <1>6, <1>7 DEF Next, Server, Select, vars, net

(* No client that leaves only between its requests can kill the server with *)
(* a reply it does not wait for, whatever it sends and however it leaves.   *)
THEOREM PoliteClientsOutlived ==
  ASSUME Paced = TRUE
  PROVE  Spec => []OutlivesPoliteClients
<1>1. Init => IInv /\ PoliteInv
  <2>1. Init => alive = TRUE /\ \A c \in Clients : peer[c] = "idle"
    BY DEF Init
  <2> QED BY <2>1, InitInv DEF PoliteInv, LeaversDrained
<1>2. IInv /\ PoliteInv /\ [Next]_vars => (IInv /\ PoliteInv)'
  BY StepInv, StepPolite
<1>3. PoliteInv => OutlivesPoliteClients
  BY DEF PoliteInv, OutlivesPoliteClients
<1> QED BY <1>1, <1>2, <1>3, PTL DEF Spec

-----------------------------------------------------------------------------
(* Clients that send one whole line at a time, each short enough for the    *)
(* session's buffer: the step simulation of AtomicCounter.                  *)
LineAtATime ==
  /\ Paced = TRUE
  /\ Programs = {"counter"}
  /\ \A chunk \in Chunks : IsLine(chunk) /\ Len(chunk) <= InBufSize

(* A queue holds one whole line or nothing, and between two reads nothing   *)
(* is left in a buffer: every line is read, executed and forgotten at once, *)
(* and none is too long.                                                    *)
WholeInv ==
  /\ prog = "counter"
  /\ \A c \in Clients : rcvq[c] = <<>> \/ rcvq[c] \in Chunks
  /\ \A f \in Fds : sess[f] # NoSession => sess[f].buf = <<>>
  /\ writing # NoWrite => writing.msg # TooLong

(* The parts of AtomicCounter that concern one client. *)
LEMMA PendingType ==
  ASSUME NEW c \in Clients
  PROVE  /\ PendingRequest(c) \in Requests \union {"none"}
         /\ PendingRequest(c) = "none" <=> rcvq[c] = <<>>
<1>1. \A line : Parse(line) \in Requests
  BY DEF Parse, Requests
<1>2. "none" \notin Requests
  BY DEF Requests
<1> QED BY <1>1, <1>2 DEF PendingRequest

(* What a read of a line-at-a-time client returns: all of it, and the line  *)
(* that TakeLine makes of it is the one the client sent.                    *)
LEMMA ReadsWholeLine ==
  ASSUME LineAtATime, IInv, WholeInv, NEW f \in Fds, NextDescriptor(f)
  PROVE  /\ Data(f) = rcvq[fdt[f]] /\ Arrived(f) = rcvq[fdt[f]] /\ Unread(f) = <<>>
         /\ rcvq[fdt[f]] # <<>> =>
              /\ ~Ended(f) /\ HasLF(Data(f)) /\ AfterLF(Data(f)) = <<>>
              /\ RequestOf(Data(f), sess[f].request) = PendingRequest(fdt[f])
<1>0. PICK c \in Clients : c = fdt[f]
  BY ReachedType
<1>1. TypeOK /\ sess[f] # NoSession /\ sess[f].buf = <<>>
  BY <1>0, ReachedType DEF IInv, WholeInv
<1>2. rcvq[c] \in Seq(Tokens) /\ Len(rcvq[c]) \in Nat
  BY <1>1, LenProperties DEF TypeOK
<1>3. Len(<<>>) = 0 /\ <<>> \in Seq(Tokens)
  BY EmptySeq
<1>4. Len(rcvq[c]) <= InBufSize
  BY <1>2, <1>3, BufAssumption DEF WholeInv, LineAtATime
<1>5. Room(f) = InBufSize
  BY <1>1, <1>3, BufAssumption DEF Room
<1>6. Arrived(f) = rcvq[c]
  BY <1>0, <1>4, <1>5 DEF Arrived
<1>7. Data(f) = rcvq[c]
  BY <1>1, <1>2, <1>6, ConcatEmptySeq DEF Data
<1>8. Unread(f) = <<>>
  BY <1>0, <1>2, <1>6, SubSeqEmpty DEF Unread
<1>9. ASSUME rcvq[c] # <<>>
      PROVE  /\ ~Ended(f) /\ HasLF(rcvq[c]) /\ AfterLF(rcvq[c]) = <<>>
             /\ RequestOf(rcvq[c], sess[f].request) = PendingRequest(c)
  <2> DEFINE q == rcvq[c]
  <2>1. IsLine(q)
    BY <1>9 DEF WholeInv, LineAtATime
  <2>2. DOMAIN q = 1 .. Len(q) /\ Len(q) \in Nat /\ Len(q) # 0
    BY <1>2, <1>9, LenProperties, EmptySeq
  <2>3. Len(q) \in DOMAIN q /\ q[Len(q)] = "LF"
    BY <2>1, <2>2 DEF IsLine
  <2>4. HasLF(q)
    BY <2>3 DEF HasLF
  <2>5. FirstLF(q) = Len(q)
    <3>1. FirstLF(q) \in 1 .. Len(q) /\ q[FirstLF(q)] = "LF"
      BY <1>2, <2>4, FirstLFType
    <3>2. \A j \in 1 .. Len(q) - 1 : q[j] # "LF"
      BY <2>1 DEF IsLine
    <3> QED BY <2>2, <3>1, <3>2
  <2>6. AfterLF(q) = <<>>
    BY <2>2, <2>5, <1>2, SubSeqEmpty DEF AfterLF
  <2>7. RequestOf(q, sess[f].request) = PendingRequest(c)
    BY <1>9, <2>5 DEF RequestOf, PendingRequest
  <2>8. q # <<"EOT">>
    BY <2>2, <2>3
  <2> QED BY <1>0, <1>6, <1>9, <2>4, <2>6, <2>7, <2>8 DEF Ended
<1> QED BY <1>0, <1>6, <1>7, <1>8, <1>9

(* A step that changes no queue, answer or count is a stutter above. *)
LEMMA AbstractStutter ==
  ASSUME UNCHANGED <<counter, rcvq>>, \A c \in Clients : Answered(c)' = Answered(c)
  PROVE  UNCHANGED Abstract!vars
<1>1. [c \in Clients |-> PendingRequest(c)]' = [c \in Clients |-> PendingRequest(c)]
  BY DEF PendingRequest
<1>2. [c \in Clients |-> Answered(c)]' = [c \in Clients |-> Answered(c)]
  OBVIOUS
<1> QED BY <1>1, <1>2 DEF Abstract!vars

(* Nothing that leaves the writes alone changes what has been answered: the *)
(* client of a write() keeps its descriptor meanwhile.                      *)
LEMMA QuietAnswers ==
  ASSUME UNCHANGED <<writing, replies>>, writing = NoWrite \/ UNCHANGED fdt, NEW c \in Clients
  PROVE  Answered(c)' = Answered(c)
<1>1. Answering(c)' <=> Answering(c)
  BY DEF Answering
<1> QED BY <1>1 DEF Answered

(* A client submits by sending a line. *)
LEMMA SendSubmits ==
  ASSUME LineAtATime, IInv, WholeInv, NEW c \in Clients, Send(c)
  PROVE  WholeInv' /\ Abstract!Submit(c)
<1>1. PICK chunk \in Chunks : rcvq' = [rcvq EXCEPT ![c] = @ \o chunk]
  BY DEF Send
<1>2. chunk \in Seq(Tokens) /\ chunk # <<>>
  BY ChunksAssumption
<1>3. rcvq[c] = <<>> /\ rcvq \in [Clients -> Seq(Tokens)]
  BY DEF LineAtATime, Send, Drained, IInv, TypeOK
<1>4. rcvq' = [rcvq EXCEPT ![c] = chunk]
  BY <1>1, <1>2, <1>3, ConcatEmptySeq
<1>5. UNCHANGED <<prog, fdt, sess, counter, writing, replies>>
  BY DEF Send
<1>6. WholeInv'
  BY <1>3, <1>4, <1>5 DEF WholeInv
<1>7. PendingRequest(c) = "none" /\ PendingRequest(c)' \in Requests
  <2>1. rcvq'[c] # <<>>
    BY <1>2, <1>3, <1>4
  <2>2. \A line : Parse(line) \in Requests
    BY DEF Parse, Requests
  <2> QED BY <1>3, <2>1, <2>2 DEF PendingRequest
<1>8. [d \in Clients |-> PendingRequest(d)]'
        = [[d \in Clients |-> PendingRequest(d)] EXCEPT ![c] = PendingRequest(c)']
  BY <1>3, <1>4 DEF PendingRequest
<1>9. \A d \in Clients : Answered(d)' = Answered(d)
  BY <1>5, QuietAnswers
<1>10. [d \in Clients |-> Answered(d)]' = [d \in Clients |-> Answered(d)]
  BY <1>9
<1> QED BY <1>5, <1>6, <1>7, <1>8, <1>10 DEF Abstract!Submit, Requests, Abstract!Requests

(* The server executes a request by taking its line, and does nothing else. *)
LEMMA ServeExecutes ==
  ASSUME LineAtATime, IInv, PoliteInv, WholeInv, NEW f \in Fds, Serve(f)
  PROVE  /\ WholeInv'
         /\ Abstract!Execute(fdt[f]) \/ UNCHANGED Abstract!vars
<1>0. NextDescriptor(f) /\ LeaversDrained
  BY DEF Serve, PoliteInv
<1>1. PICK c \in Clients : c = fdt[f]
  BY <1>0, ReachedType
<1>2. /\ TypeOK /\ sess[f] # NoSession /\ prog = "counter" /\ writing = NoWrite
      /\ UNCHANGED <<prog, replies>> /\ \A g \in Fds : g # f => fdt[g] # c
  BY <1>0, <1>1, ReachedType, TurnType DEF IInv, WholeInv
<1>3. /\ Data(f) = rcvq[c] /\ Arrived(f) = rcvq[c] /\ Unread(f) = <<>>
      /\ rcvq[c] # <<>> =>
              /\ ~Ended(f) /\ HasLF(Data(f)) /\ AfterLF(Data(f)) = <<>>
              /\ RequestOf(Data(f), sess[f].request) = PendingRequest(c)
  BY <1>0, <1>1, ReadsWholeLine
<1>4. CASE rcvq[c] = <<>>
  <2>1. Ended(f)
    BY <1>3, <1>4 DEF Ended
  <2>2. HangUp(f)
    BY <2>1 DEF Serve, TakeLine, KeepPartial, Reject
  <2>3. /\ rcvq' = [rcvq EXCEPT ![c] = <<>>] /\ sess' = [sess EXCEPT ![f] = NoSession]
        /\ UNCHANGED <<counter, writing>>
    BY <1>1, <2>2 DEF HangUp, CloseSession
  <2>4. rcvq' = rcvq
    BY <1>2, <1>4, <2>3 DEF TypeOK
  <2>5. WholeInv'
    BY <1>2, <2>3, <2>4 DEF WholeInv, TypeOK
  <2>6. \A d \in Clients : Answered(d)' = Answered(d)
    BY <1>2, <2>3, QuietAnswers
  <2> QED BY <2>3, <2>4, <2>5, <2>6, AbstractStutter
<1>5. CASE rcvq[c] # <<>>
  <2> DEFINE r == RequestOf(Data(f), sess[f].request)
  <2>1. TakeLine(f)
    BY <1>3, <1>5 DEF Serve, HangUp, KeepPartial, Reject
  <2>2. r = PendingRequest(c) /\ peer[c] = "here"
    BY <1>0, <1>1, <1>3, <1>5, WritesToTheLiving
  <2>3. /\ sess' = [sess EXCEPT ![f] = [buf |-> <<>>, request |-> r]]
        /\ rcvq' = [rcvq EXCEPT ![c] = <<>>]
        /\ Respond(f, r) /\ fdt' = fdt
    BY <1>1, <1>2, <1>3, <1>5, <2>1 DEF TakeLine
  <2> HIDE DEF r
  <2>4. sess'[f].buf = <<>> /\ \A g \in Fds : g # f => sess'[g] = sess[g]
    BY <1>2, <2>3 DEF TypeOK
  <2>5. \A d \in Clients : rcvq'[d] = IF d = c THEN <<>> ELSE rcvq[d]
    BY <1>2, <2>3 DEF TypeOK
  <2>6. WholeInv'
    <3>1. writing' # NoWrite => writing'.msg # TooLong
      BY <1>2, <2>3, RespondType
    <3> QED BY <1>2, <2>3, <2>4, <2>5, <3>1 DEF WholeInv
  <2>7. PendingRequest(c) # "none" /\ PendingRequest(c)' = "none"
    <3>1. rcvq'[c] = <<>>
      BY <2>5
    <3> QED BY <1>5, <3>1, PendingType DEF PendingRequest
  <2>8. [d \in Clients |-> PendingRequest(d)]'
          = [[d \in Clients |-> PendingRequest(d)] EXCEPT ![c] = "none"]
    BY <2>5, <2>7 DEF PendingRequest
  <2>9. \A d \in Clients : Answered(d) = replies[d]
    BY <1>2 DEF Answered, Answering
  <2>10. ASSUME Silent PROVE \A d \in Clients : Answered(d)' = replies[d]
    BY <1>2, <2>10 DEF Silent, Answered, Answering
  <2>11. ASSUME NEW m \in Replies \X Int, Answer(f, m)
         PROVE  \A d \in Clients : Answered(d)' = IF d = c THEN Append(replies[d], m) ELSE replies[d]
    <3>1. writing' # NoWrite /\ writing'.fd = f /\ writing'.msg = m
      BY <2>11, NullAssumption DEF Answer
    <3>2. \A d \in Clients : Answering(d)' <=> d = c
      BY <1>1, <2>3, <3>1 DEF Answering
    <3> QED BY <1>2, <3>1, <3>2 DEF Answered
  <2>12. counter \in Int /\ <<"count", counter>> \in Replies \X Int
         /\ <<"unknown", 0>> \in Replies \X Int
    <3>1. "count" \in Replies /\ "unknown" \in Replies /\ 0 \in Int
      BY DEF Replies
    <3>2. counter \in Int
      BY <1>2 DEF TypeOK
    <3> QED BY <3>1, <3>2
  <2>13. PendingRequest(c) \in Requests
    BY <2>7, PendingType
  <2> DEFINE old == [d \in Clients |-> Answered(d)]
             new == [d \in Clients |-> Answered(d)']
  <2>14. CASE PendingRequest(c) \in {"up", "down"}
    <3>1. Silent /\ counter' = IF PendingRequest(c) = "up" THEN counter + 1 ELSE counter - 1
      BY <2>2, <2>3, <2>14 DEF Respond
    <3>2. new = old
      BY <2>9, <2>10, <3>1
    <3> QED BY <1>1, <2>6, <2>7, <2>8, <2>14, <3>1, <3>2 DEF Abstract!Execute
  <2>15. CASE PendingRequest(c) = "show"
    <3>1. Answer(f, <<"count", counter>>) /\ counter' = counter
      BY <2>2, <2>3, <2>15 DEF Respond
    <3>2. new = [old EXCEPT ![c] = Append(@, <<"count", counter>>)]
      BY <2>9, <2>11, <2>12, <3>1
    <3> QED BY <1>1, <2>6, <2>7, <2>8, <2>15, <3>1, <3>2 DEF Abstract!Execute
  <2>16. CASE PendingRequest(c) = "unknown"
    <3>1. Answer(f, <<"unknown", 0>>) /\ counter' = counter
      BY <2>2, <2>3, <2>16 DEF Respond
    <3>2. new = [old EXCEPT ![c] = Append(@, <<"unknown", 0>>)]
      BY <2>9, <2>11, <2>12, <3>1
    <3> QED BY <1>1, <2>6, <2>7, <2>8, <2>16, <3>1, <3>2 DEF Abstract!Execute
  <2> QED BY <2>13, <2>14, <2>15, <2>16 DEF Requests
<1> QED BY <1>4, <1>5

(* Every step of the server and its clients is one of AtomicCounter's, or   *)
(* changes nothing that AtomicCounter shows.                                *)
LEMMA StepSimulates ==
  ASSUME LineAtATime, IInv, PoliteInv, WholeInv, [Next]_vars
  PROVE  WholeInv' /\ [Abstract!Next]_(Abstract!vars)
<1>1. ASSUME UNCHANGED <<prog, rcvq, counter>>, writing' = NoWrite \/ UNCHANGED writing,
             \A c \in Clients : Answered(c)' = Answered(c),
             \A f \in Fds : sess'[f] # NoSession => sess'[f].buf = <<>>
      PROVE  WholeInv' /\ [Abstract!Next]_(Abstract!vars)
  BY <1>1, AbstractStutter DEF WholeInv
<1>2. CASE Accept
  <2>1. UNCHANGED <<prog, rcvq, counter, writing, replies>> /\ writing = NoWrite
    BY <1>2 DEF Accept, hist
  <2>2. \A f \in Fds : sess'[f] = sess[f] \/ sess'[f] = NewSession
    BY <1>2 DEF Accept, Free, IInv, TypeOK
  <2>3. NewSession.buf = <<>>
    BY DEF NewSession
  <2>4. \A c \in Clients : Answered(c)' = Answered(c)
    BY <2>1, QuietAnswers
  <2> QED BY <1>1, <2>1, <2>2, <2>3, <2>4 DEF WholeInv
<1>3. ASSUME NEW f \in Fds, Serve(f) PROVE WholeInv' /\ [Abstract!Next]_(Abstract!vars)
  <2>1. fdt[f] \in Clients
    BY <1>3, ReachedType DEF Serve
  <2> QED BY <1>3, <2>1, ServeExecutes DEF Abstract!Next
<1>4. ASSUME NEW c \in Clients, Send(c) PROVE WholeInv' /\ [Abstract!Next]_(Abstract!vars)
  BY <1>4, SendSubmits DEF Abstract!Next
<1>5. CASE UNCHANGED <<prog, rcvq, fdt, sess, counter, writing, replies>>
  <2>1. \A c \in Clients : Answered(c)' = Answered(c)
    BY <1>5, QuietAnswers
  <2> QED BY <1>1, <1>5, <2>1 DEF WholeInv
<1>6. CASE Write
  <2> DEFINE c == fdt[writing.fd]
  <2>1. /\ c \in Clients /\ peer[c] = "here" /\ writing # NoWrite /\ writing.msg # TooLong
        /\ writing' = NoWrite /\ TypeOK
    BY <1>6, AnswersTheLiving DEF Write, PoliteInv, WholeInv, IInv
  <2>2. /\ UNCHANGED <<prog, rcvq, sess, counter>>
        /\ replies' = [replies EXCEPT ![c] = Append(@, writing.msg)]
    BY <1>6, <2>1 DEF Write
  <2>3. ASSUME NEW d \in Clients PROVE Answered(d)' = Answered(d)
    <3>1. (Answering(d) <=> d = c) /\ ~Answering(d)'
      BY <2>1 DEF Answering
    <3>2. replies'[d] = IF d = c THEN Append(replies[d], writing.msg) ELSE replies[d]
      BY <2>1, <2>2 DEF TypeOK
    <3> QED BY <3>1, <3>2 DEF Answered
  <2>4. \A f \in Fds : sess'[f] # NoSession => sess'[f].buf = <<>>
    BY <2>2 DEF WholeInv
  <2> HIDE DEF c
  <2> QED BY <1>1, <2>1, <2>2, <2>3, <2>4
<1> QED BY <1>2, <1>3, <1>4, <1>5, <1>6
      DEF Next, Server, Select, Sigpipe, Connect, Take, Leave, vars, net, hist

(* The counter server implements the atomic counter (the step simulation of *)
(* ImplementsAtomicCounter): whatever the order in which select() reports   *)
(* the sessions and the descriptors are reused, each line is executed once, *)
(* in one step, on one counter, and answered to its sender.                 *)
THEOREM CounterIsAtomic ==
  ASSUME LineAtATime
  PROVE  Spec => Abstract!Init /\ [][Abstract!Next]_(Abstract!vars)
<1>1. Init => IInv /\ PoliteInv /\ WholeInv /\ Abstract!Init
  <2> SUFFICES ASSUME Init PROVE PoliteInv /\ WholeInv /\ Abstract!Init
    BY InitInv
  <2>1. alive = TRUE /\ \A c \in Clients : peer[c] = "idle"
    BY DEF Init
  <2>2. PoliteInv
    BY <2>1 DEF PoliteInv, LeaversDrained
  <2>3. /\ prog = "counter" /\ writing = NoWrite
        /\ \A c \in Clients : rcvq[c] = <<>> /\ replies[c] = <<>>
        /\ \A f \in Fds : sess[f] = NoSession
    BY DEF Init, LineAtATime
  <2>4. WholeInv
    BY <2>3 DEF WholeInv
  <2>5. \A c \in Clients : PendingRequest(c) = "none"
    BY <2>3 DEF PendingRequest
  <2>6. \A c \in Clients : Answered(c) = <<>>
    BY <2>3 DEF Answered, Answering
  <2>7. Abstract!Init
    BY <2>5, <2>6 DEF Abstract!Init, Init
  <2> QED BY <2>2, <2>4, <2>7
<1>2. IInv /\ PoliteInv /\ WholeInv /\ [Next]_vars
        => (IInv /\ PoliteInv /\ WholeInv)' /\ [Abstract!Next]_(Abstract!vars)
  BY StepInv, StepPolite, StepSimulates DEF LineAtATime
<1> QED BY <1>1, <1>2, PTL DEF Spec
=============================================================================
