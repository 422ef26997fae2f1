--------------------------- MODULE FifoChatProofs ---------------------------
(***************************************************************************)
(* Proofs about FifoChat, for every size of the buffer and of the FIFOs    *)
(* and any number of runs and of typed lines.                              *)
(***************************************************************************)
EXTENDS FifoChat, SequenceTheorems, TLAPS

(* The invariant: a side that runs has been started, and one that stopped   *)
(* had a reason; a partner that has been met is there, or has left; what    *)
(* was written to the present run of a side is printed or in its FIFO.      *)
Started == \A p \in Sides : pc[p] # "off" => run[p] > 0
Stopped == \A p \in Sides : pc[p] = "off" => (run[p] = 0 \/ why[p] # "none")
MetIsTrue ==
  \A p \in Sides : met[p] =>
    /\ run[Other(p)] > 0
    /\ IsReader(Other(p)) \/ pc[Other(p)] = "off" \/ run[Other(p)] > 1
MetFirst == \A p \in Sides : pc[p] \in {"select", "serve", "write"} => met[p]

Kept(l, p) ==
  /\ l.to <= run[p]
  /\ pc[p] = "start" => l.to < run[p]
  /\ IsReader(p) /\ l.to = run[p] => Held(l, printed[p]) \/ Held(l, fifo[p])
NothingDropped ==
  \A p \in Sides : \A i \in DOMAIN wrote[Other(p)] : Kept(wrote[Other(p)][i], p)

CInv == TypeOK /\ Started /\ Stopped /\ MetIsTrue /\ MetFirst /\ NothingDropped

-----------------------------------------------------------------------------
(* There are two sides. *)
LEMMA TwoSides ==
  ASSUME NEW p \in Sides
  PROVE  /\ Other(p) \in Sides /\ Other(p) # p /\ Other(Other(p)) = p
         /\ \A s \in Sides : s = p \/ s = Other(p)
BY DEF Sides, Other

(* A line is in a sequence that begins or ends with one it is in. *)
LEMMA HeldInConcat ==
  ASSUME NEW s \in Seq(Lines), NEW t \in Seq(Lines), NEW l, Held(l, s) \/ Held(l, t)
  PROVE  Held(l, s \o t)
<1>1. /\ Len(s) \in Nat /\ Len(t) \in Nat /\ DOMAIN s = 1 .. Len(s) /\ DOMAIN t = 1 .. Len(t)
      /\ s \o t \in Seq(Lines) /\ Len(s \o t) = Len(s) + Len(t)
      /\ \A i \in 1 .. Len(s) + Len(t) : (s \o t)[i] = IF i <= Len(s) THEN s[i] ELSE t[i - Len(s)]
  BY LenProperties, ConcatProperties
<1>2. DOMAIN (s \o t) = 1 .. Len(s) + Len(t)
  BY <1>1, LenProperties
<1>3. CASE Held(l, s)
  <2>1. PICK k \in DOMAIN s : s[k] = l
    BY <1>3 DEF Held
  <2>2. k \in 1 .. Len(s) + Len(t) /\ (s \o t)[k] = l
    BY <1>1, <2>1
  <2> QED BY <1>2, <2>2 DEF Held
<1>4. CASE Held(l, t)
  <2>1. PICK k \in DOMAIN t : t[k] = l
    BY <1>4 DEF Held
  <2>2. Len(s) + k \in 1 .. Len(s) + Len(t) /\ (s \o t)[Len(s) + k] = l
    BY <1>1, <2>1
  <2> QED BY <1>2, <2>2 DEF Held
<1> QED BY <1>3, <1>4

(* The parts of a sequence that is cut in two. *)
LEMMA Cut ==
  ASSUME NEW S, NEW s \in Seq(S), NEW n \in Nat, n <= Len(s)
  PROVE  /\ SubSeq(s, 1, n) \in Seq(S) /\ Len(SubSeq(s, 1, n)) = n
         /\ \A i \in 1 .. n : SubSeq(s, 1, n)[i] = s[i]
         /\ SubSeq(s, n + 1, Len(s)) \in Seq(S)
         /\ Len(SubSeq(s, n + 1, Len(s))) = Len(s) - n
         /\ \A i \in 1 .. Len(s) - n : SubSeq(s, n + 1, Len(s))[i] = s[n + i]
<1>1. Len(s) \in Nat /\ \A i \in 1 .. Len(s) : s[i] \in S
  BY LenProperties, ElementOfSeq
<1>2. 1 \in Int /\ n \in Int /\ n + 1 \in Int /\ Len(s) \in Int
  BY <1>1
<1>3. \A i \in 1 .. n : s[i] \in S
  BY <1>1
<1>4. \A i \in n + 1 .. Len(s) : s[i] \in S
  BY <1>1
<1>5. /\ SubSeq(s, 1, n) \in Seq(S)
      /\ Len(SubSeq(s, 1, n)) = IF 1 <= n THEN n - 1 + 1 ELSE 0
      /\ \A i \in 1 .. n - 1 + 1 : SubSeq(s, 1, n)[i] = s[1 + i - 1]
  BY <1>2, <1>3, SubSeqProperties
<1>6. /\ SubSeq(s, n + 1, Len(s)) \in Seq(S)
      /\ Len(SubSeq(s, n + 1, Len(s))) = IF n + 1 <= Len(s) THEN Len(s) - (n + 1) + 1 ELSE 0
      /\ \A i \in 1 .. Len(s) - (n + 1) + 1 : SubSeq(s, n + 1, Len(s))[i] = s[n + 1 + i - 1]
  BY <1>2, <1>4, SubSeqProperties
<1>7. Len(SubSeq(s, 1, n)) = n /\ \A i \in 1 .. n : SubSeq(s, 1, n)[i] = s[i]
  BY <1>1, <1>5
<1>8. /\ Len(SubSeq(s, n + 1, Len(s))) = Len(s) - n
      /\ \A i \in 1 .. Len(s) - n : SubSeq(s, n + 1, Len(s))[i] = s[n + i]
  BY <1>1, <1>6
<1> QED BY <1>5, <1>6, <1>7, <1>8

(* A line of a sequence is in one of the parts. *)
LEMMA HeldInPart ==
  ASSUME NEW s \in Seq(Lines), NEW n \in Nat, n <= Len(s), NEW l, Held(l, s)
  PROVE  Held(l, SubSeq(s, 1, n)) \/ Held(l, SubSeq(s, n + 1, Len(s)))
<1>1. PICK k \in DOMAIN s : s[k] = l
  BY DEF Held
<1>2. Len(s) \in Nat /\ k \in 1 .. Len(s)
  BY LenProperties, <1>1
<1> DEFINE a == SubSeq(s, 1, n)
           b == SubSeq(s, n + 1, Len(s))
<1>3. /\ a \in Seq(Lines) /\ Len(a) = n /\ \A i \in 1 .. n : a[i] = s[i]
      /\ b \in Seq(Lines) /\ Len(b) = Len(s) - n
      /\ \A i \in 1 .. Len(s) - n : b[i] = s[n + i]
  BY Cut
<1>4. DOMAIN a = 1 .. n /\ DOMAIN b = 1 .. Len(s) - n
  BY <1>3, LenProperties
<1> HIDE DEF a, b
<1>5. CASE k <= n
  <2>1. k \in 1 .. n
    BY <1>2, <1>5
  <2> QED BY <1>1, <1>3, <1>4, <2>1 DEF Held, a
<1>6. CASE ~(k <= n)
  <2>1. k - n \in 1 .. Len(s) - n /\ n + (k - n) = k
    BY <1>2, <1>6
  <2>2. b[k - n] = l
    BY <1>1, <1>3, <2>1
  <2> QED BY <1>4, <2>1, <2>2 DEF Held, b
<1> QED BY <1>5, <1>6

-----------------------------------------------------------------------------
LEMMA CInit == Init => CInv
<1> SUFFICES ASSUME Init PROVE CInv
  OBVIOUS
<1>1. TypeOK
  BY BufAssumption, BoundsAssumption DEF Init, TypeOK, Ends, FifoFd
<1>2. Started /\ Stopped /\ MetIsTrue /\ MetFirst
  BY DEF Init, Started, Stopped, MetIsTrue, MetFirst
<1>3. NothingDropped
  BY TwoSides DEF Init, NothingDropped
<1> QED BY <1>1, <1>2, <1>3 DEF CInv

(* A user's typing changes nothing the invariant speaks of but its type.    *)
LEMMA TypingInv ==
  ASSUME CInv, NEW p \in Sides, Type(p)
  PROVE  CInv'
<1>1. typed[p] + 1 \in 0 .. MaxTyped /\ typed[p] + 1 \in 1 .. MaxTyped
  BY BoundsAssumption DEF CInv, TypeOK, Type
<1>2. typed' \in [Sides -> 0 .. MaxTyped] /\ typed'[p] \in 1 .. MaxTyped
  BY <1>1 DEF CInv, TypeOK, Type
<1>3. stdin' \in [Sides -> Seq(1 .. MaxTyped)]
  BY <1>2 DEF CInv, TypeOK, Type
<1>4. UNCHANGED <<pc, run, maxfd, bits, buffer, eof, fifo, came, met, why, wrote, printed>>
  BY DEF Type, kernel, hist
<1>5. TypeOK'
  BY <1>2, <1>3, <1>4 DEF CInv, TypeOK
<1> QED BY <1>4, <1>5
  DEF CInv, Started, Stopped, MetIsTrue, MetFirst, NothingDropped, Kept, Held, IsReader

LEMMA CloseInputInv ==
  ASSUME CInv, NEW p \in Sides, CloseInput(p)
  PROVE  CInv'
<1>1. UNCHANGED <<pc, run, maxfd, bits, buffer, typed, stdin, fifo, came, met, why, wrote, printed>>
      /\ eof' = [eof EXCEPT ![p] = TRUE]
  BY DEF CloseInput, kernel, hist
<1>2. TypeOK'
  BY <1>1 DEF CInv, TypeOK
<1> QED BY <1>1, <1>2
  DEF CInv, Started, Stopped, MetIsTrue, MetFirst, NothingDropped, Kept, Held, IsReader

(* A new run has a number no line was written to.                           *)
LEMMA StartInv ==
  ASSUME CInv, NEW p \in Sides, Start(p)
  PROVE  CInv'
<1> DEFINE q == Other(p)
<1>1. q \in Sides /\ q # p /\ Other(q) = p /\ \A s \in Sides : s = p \/ s = q
  BY TwoSides
<1>2. /\ pc[p] = "off" /\ pc' = [pc EXCEPT ![p] = "start"]
      /\ run' = [run EXCEPT ![p] = @ + 1]
      /\ eof' = [eof EXCEPT ![p] = FALSE] /\ why' = [why EXCEPT ![p] = "none"]
      /\ maxfd' = [maxfd EXCEPT ![p] = 0]
      /\ UNCHANGED <<bits, buffer, typed, stdin, fifo, came, met, wrote, printed>>
  BY DEF Start, kernel
<1>3. TypeOK
  BY DEF CInv
<1>4. TypeOK'
  BY <1>2, <1>3 DEF TypeOK
<1>5. /\ pc'[p] = "start" /\ pc'[q] = pc[q] /\ run[p] \in Nat /\ run[q] \in Nat
      /\ run'[p] = run[p] + 1 /\ run'[q] = run[q] /\ why'[q] = why[q]
  BY <1>1, <1>2, <1>3 DEF TypeOK
<1> HIDE DEF q
<1>6. Started' /\ Stopped' /\ MetFirst'
  BY <1>1, <1>2, <1>5 DEF CInv, Started, Stopped, MetFirst
<1>7. MetIsTrue'
  <2>1. met[q] => run'[p] > 0 /\ run'[p] > 1
    BY <1>1, <1>5 DEF CInv, MetIsTrue
  <2>2. met[p] => run'[q] > 0 /\ (IsReader(q)' \/ pc'[q] = "off" \/ run'[q] > 1)
    BY <1>1, <1>5 DEF CInv, MetIsTrue, IsReader, q
  <2> QED BY <1>1, <1>2, <2>1, <2>2 DEF MetIsTrue, q
<1>8. NothingDropped'
  <2>1. \A i \in DOMAIN wrote[q] : wrote[q][i].to <= run[p] /\ wrote[q][i].to \in Nat
    <3>1. \A i \in DOMAIN wrote[q] : Kept(wrote[q][i], p)
      BY <1>1 DEF CInv, NothingDropped, q
    <3>2. \A i \in DOMAIN wrote[q] : wrote[q][i] \in Lines
      BY <1>1, <1>3, LenProperties, ElementOfSeq DEF TypeOK
    <3> QED BY <3>1, <3>2 DEF Kept, Lines
  <2>2. \A i \in DOMAIN wrote[q] : Kept(wrote[q][i], p)'
    BY <1>2, <1>5, <2>1 DEF Kept, IsReader
  <2>3. \A i \in DOMAIN wrote[p] : Kept(wrote[p][i], q)
    BY <1>1 DEF CInv, NothingDropped
  <2>4. \A i \in DOMAIN wrote[p] : Kept(wrote[p][i], q)'
    BY <1>2, <1>5, <2>3 DEF Kept, IsReader, Held
  <2> QED BY <1>1, <1>2, <2>2, <2>4 DEF NothingDropped, q
<1> QED BY <1>4, <1>6, <1>7, <1>8 DEF CInv

-----------------------------------------------------------------------------
(* Opening the FIFO to read makes p a reader no line was written to yet.    *)
LEMMA OpenReadInv ==
  ASSUME CInv, NEW p \in Sides, OpenRead(p)
  PROVE  CInv'
<1> DEFINE q == Other(p)
<1>1. q \in Sides /\ q # p /\ Other(q) = p /\ \A s \in Sides : s = p \/ s = q
  BY TwoSides
<1>2. /\ pc[p] = "start" /\ pc' = [pc EXCEPT ![p] = "reading"]
      /\ came' = [came EXCEPT ![p] = IsWriter(q)] /\ met' = [met EXCEPT ![q] = TRUE]
      /\ maxfd' = [maxfd EXCEPT ![p] = FifoFd]
      /\ UNCHANGED <<run, bits, buffer, typed, stdin, eof, fifo, why, wrote, printed>>
  BY DEF OpenRead, user, hist
<1>3. TypeOK
  BY DEF CInv
<1>4. IsWriter(q) \in BOOLEAN
  BY DEF IsWriter
<1> HIDE DEF q
<1>5. pc' \in [Sides -> {"off", "start", "reading", "joining", "select", "serve", "write"}]
  BY <1>2, <1>3 DEF TypeOK
<1>6. came' \in [Sides -> BOOLEAN] /\ met' \in [Sides -> BOOLEAN]
  BY <1>2, <1>3, <1>4, Zenon DEF TypeOK
<1>7. maxfd' \in [Sides -> {0, FifoFd}]
  BY <1>2, <1>3 DEF TypeOK
<1>8. TypeOK'
  BY <1>2, <1>3, <1>5, <1>6, <1>7 DEF TypeOK
<1>9. pc'[p] = "reading" /\ pc'[q] = pc[q] /\ met'[p] = met[p] /\ run[p] > 0
  BY <1>1, <1>2, <1>3 DEF TypeOK, CInv, Started
<1>10. Started' /\ Stopped'
  BY <1>1, <1>2, <1>9 DEF CInv, Started, Stopped
<1>11. MetFirst'
  <2>1. pc[q] \in {"select", "serve", "write"} => met'[q]
    BY <1>1, <1>2, <1>3 DEF TypeOK
  <2> QED BY <1>1, <1>9, <2>1 DEF MetFirst
<1>12. MetIsTrue'
  <2>1. IsReader(p)'
    BY <1>9 DEF IsReader
  <2>2. met[p] => run[q] > 0 /\ (IsReader(q)' \/ pc'[q] = "off" \/ run[q] > 1)
    BY <1>1, <1>9 DEF CInv, MetIsTrue, IsReader, q
  <2> QED BY <1>1, <1>2, <1>9, <2>1, <2>2 DEF MetIsTrue, q
<1>13. NothingDropped'
  <2>1. \A i \in DOMAIN wrote[q] : wrote[q][i] \in Lines /\ Kept(wrote[q][i], p)
    BY <1>1, <1>3, LenProperties, ElementOfSeq DEF TypeOK, CInv, NothingDropped, q
  <2>2. \A i \in DOMAIN wrote[q] : wrote[q][i].to < run[p]
    BY <1>2, <2>1 DEF Kept
  <2>3. \A i \in DOMAIN wrote[q] : wrote[q][i].to \in Nat /\ run[p] \in Nat
    BY <1>1, <1>3, <2>1 DEF Lines, TypeOK
  <2>4. \A i \in DOMAIN wrote[q] : Kept(wrote[q][i], p)'
    BY <1>2, <1>9, <2>2, <2>3 DEF Kept
  <2>5. \A i \in DOMAIN wrote[p] : Kept(wrote[p][i], q)'
    BY <1>1, <1>2, <1>9 DEF CInv, NothingDropped, Kept, IsReader, Held
  <2> QED BY <1>1, <1>2, <2>4, <2>5 DEF NothingDropped, q
<1> QED BY <1>8, <1>10, <1>11, <1>12, <1>13 DEF CInv

LEMMA OpenWriteInv ==
  ASSUME CInv, NEW p \in Sides, OpenWrite(p)
  PROVE  CInv'
<1> DEFINE q == Other(p)
<1>1. q \in Sides /\ q # p /\ Other(q) = p /\ \A s \in Sides : s = p \/ s = q
  BY TwoSides
<1>2. /\ pc[p] = "reading" /\ pc' = [pc EXCEPT ![p] = "joining"]
      /\ met' = [met EXCEPT ![p] = IsReader(q)] /\ came' = [came EXCEPT ![q] = TRUE]
      /\ UNCHANGED <<run, maxfd, bits, buffer, typed, stdin, eof, fifo, why, wrote, printed>>
  BY DEF OpenWrite, user, hist
<1>3. TypeOK
  BY DEF CInv
<1>4. IsReader(q) \in BOOLEAN
  BY DEF IsReader
<1> HIDE DEF q
<1>5. pc' \in [Sides -> {"off", "start", "reading", "joining", "select", "serve", "write"}]
  BY <1>2, <1>3 DEF TypeOK
<1>6. came' \in [Sides -> BOOLEAN] /\ met' \in [Sides -> BOOLEAN]
  BY <1>2, <1>3, <1>4, Zenon DEF TypeOK
<1>7. TypeOK'
  BY <1>2, <1>3, <1>5, <1>6 DEF TypeOK
<1>8. pc'[p] = "joining" /\ pc'[q] = pc[q] /\ met'[q] = met[q] /\ run[p] > 0
  BY <1>1, <1>2, <1>3 DEF TypeOK, CInv, Started
<1>9. met'[p] = IsReader(q)
  BY <1>2, <1>3, Zenon DEF TypeOK
<1>10. Started' /\ Stopped' /\ MetFirst'
  BY <1>1, <1>2, <1>8 DEF CInv, Started, Stopped, MetFirst
<1>11. MetIsTrue'
  <2>1. IsReader(q) => run[q] > 0 /\ IsReader(q)'
    BY <1>1, <1>8 DEF CInv, Started, IsReader
  <2>2. IsReader(p)'
    BY <1>8 DEF IsReader
  <2> QED BY <1>1, <1>2, <1>8, <1>9, <2>1, <2>2 DEF MetIsTrue, q
<1>12. NothingDropped'
  <2>1. \A s \in Sides : (pc'[s] = "start" => pc[s] = "start") /\ (IsReader(s)' => IsReader(s))
    BY <1>1, <1>2, <1>8 DEF IsReader
  <2> QED BY <1>2, <2>1 DEF CInv, NothingDropped, Kept, Held
<1> QED BY <1>7, <1>10, <1>11, <1>12 DEF CInv

LEMMA JoinedInv ==
  ASSUME CInv, NEW p \in Sides, Joined(p)
  PROVE  CInv'
<1>1. /\ pc[p] = "joining" /\ met[p] /\ pc' = [pc EXCEPT ![p] = "select"]
      /\ UNCHANGED <<run, maxfd, bits, buffer, typed, stdin, eof, fifo, came, met, why, wrote, printed>>
  BY DEF Joined, user, kernel, hist
<1>2. TypeOK
  BY DEF CInv
<1>3. TypeOK'
  BY <1>1, <1>2 DEF TypeOK
<1>4. \A s \in Sides : pc'[s] = IF s = p THEN "select" ELSE pc[s]
  BY <1>1, <1>2 DEF TypeOK
<1>5. \A s \in Sides : IsReader(s)' = IsReader(s)
  BY <1>1, <1>4 DEF IsReader
<1>6. Started' /\ Stopped' /\ MetFirst'
  BY <1>1, <1>4 DEF CInv, Started, Stopped, MetFirst
<1>7. MetIsTrue'
  BY <1>1, <1>4, <1>5, TwoSides DEF CInv, MetIsTrue
<1>8. NothingDropped'
  BY <1>1, <1>4, <1>5 DEF CInv, NothingDropped, Kept, Held
<1> QED BY <1>3, <1>6, <1>7, <1>8 DEF CInv

LEMMA SelectInv ==
  ASSUME CInv, NEW p \in Sides, Select(p)
  PROVE  CInv'
<1>1. /\ pc[p] = "select" /\ pc' = [pc EXCEPT ![p] = "serve"]
      /\ bits' \in [Sides -> SUBSET {"stdin", "fifo"}]
      /\ UNCHANGED <<run, maxfd, buffer, typed, stdin, eof, fifo, came, met, why, wrote, printed>>
  BY DEF Select, user, kernel, hist, CInv, TypeOK
<1>2. TypeOK
  BY DEF CInv
<1>3. TypeOK'
  BY <1>1, <1>2 DEF TypeOK
<1>4. \A s \in Sides : pc'[s] = IF s = p THEN "serve" ELSE pc[s]
  BY <1>1, <1>2 DEF TypeOK
<1>5. \A s \in Sides : IsReader(s)' = IsReader(s)
  BY <1>1, <1>4 DEF IsReader
<1>6. Started' /\ Stopped' /\ MetFirst'
  BY <1>1, <1>4 DEF CInv, Started, Stopped, MetFirst
<1>7. MetIsTrue'
  BY <1>1, <1>4, <1>5, TwoSides DEF CInv, MetIsTrue
<1>8. NothingDropped'
  BY <1>1, <1>4, <1>5 DEF CInv, NothingDropped, Kept, Held
<1> QED BY <1>3, <1>6, <1>7, <1>8 DEF CInv

-----------------------------------------------------------------------------
(* A run that ends takes down the FIFOs nobody else has open: the partner's *)
(* stays if the partner reads it.                                           *)
LEMMA EndInv ==
  ASSUME CInv, NEW p \in Sides, NEW reason \in Ends, pc[p] # "off", End(p, reason)
  PROVE  CInv'
<1> DEFINE q == Other(p)
<1>1. q \in Sides /\ q # p /\ Other(q) = p /\ \A s \in Sides : s = p \/ s = q
  BY TwoSides
<1>2. /\ pc' = [pc EXCEPT ![p] = "off"] /\ why' = [why EXCEPT ![p] = reason]
      /\ bits' = [bits EXCEPT ![p] = {}] /\ buffer' = [buffer EXCEPT ![p] = <<>>]
      /\ UNCHANGED <<run, maxfd, typed, stdin, eof, came, met, wrote, printed>>
  BY DEF End, user
<1>3. fifo' = [s \in Sides |-> IF (IF s = p THEN IsWriter(q) ELSE IsReader(q))
                               THEN fifo[s] ELSE <<>>]
  BY DEF End
<1>4. TypeOK
  BY DEF CInv
<1> HIDE DEF q
<1>5. fifo' \in [Sides -> Seq(Lines)] /\ \A s \in Sides : fifo'[s] = fifo[s] \/ fifo'[s] = <<>>
  BY <1>3, <1>4 DEF TypeOK
<1>6. buffer' \in [Sides -> Seq(1 .. MaxTyped)] /\ bits' \in [Sides -> SUBSET {"stdin", "fifo"}]
  BY <1>2, <1>4 DEF TypeOK
<1>7. \A s \in Sides : Len(fifo'[s]) <= PipeSize /\ Len(buffer'[s]) <= BufSize
  <2>1. \A s \in Sides : buffer'[s] = buffer[s] \/ buffer'[s] = <<>>
    BY <1>2, <1>4 DEF TypeOK
  <2>2. Len(<<>>) = 0 /\ 0 <= PipeSize /\ 0 <= BufSize
    BY BufAssumption
  <2>3. \A s \in Sides : Len(fifo[s]) <= PipeSize /\ Len(buffer[s]) <= BufSize
    BY <1>4 DEF TypeOK
  <2> QED BY <1>5, <2>1, <2>2, <2>3
<1>8. /\ pc' \in [Sides -> {"off", "start", "reading", "joining", "select", "serve", "write"}]
      /\ why' \in [Sides -> Ends \union {"none"}]
  BY <1>2, <1>4 DEF TypeOK
<1>9. TypeOK'
  BY <1>2, <1>4, <1>5, <1>6, <1>7, <1>8 DEF TypeOK
<1>10. \A s \in Sides : /\ pc'[s] = IF s = p THEN "off" ELSE pc[s]
                        /\ why'[s] = IF s = p THEN reason ELSE why[s]
  BY <1>2, <1>4 DEF TypeOK
<1>11. run[p] > 0 /\ reason # "none"
  BY DEF CInv, Started, Ends
<1>12. Started' /\ Stopped' /\ MetFirst'
  BY <1>2, <1>10, <1>11 DEF CInv, Started, Stopped, MetFirst
<1>13. \A s \in Sides : IsReader(s)' = (s # p /\ IsReader(s))
  BY <1>10 DEF IsReader
<1>14. MetIsTrue'
  <2>1. met[p] => run[q] > 0 /\ (IsReader(q)' \/ pc'[q] = "off" \/ run[q] > 1)
    BY <1>1, <1>10, <1>13 DEF CInv, MetIsTrue, q
  <2> QED BY <1>1, <1>2, <1>10, <1>11, <2>1 DEF MetIsTrue, q
<1>15. IsReader(q) => fifo'[q] = fifo[q]
  BY <1>1, <1>3
<1>16. NothingDropped'
  <2>1. /\ \A i \in DOMAIN wrote[q] : Kept(wrote[q][i], p)
        /\ \A i \in DOMAIN wrote[p] : Kept(wrote[p][i], q)
    BY <1>1 DEF CInv, NothingDropped, q
  <2>2. \A i \in DOMAIN wrote[q] : Kept(wrote[q][i], p)'
    <3>1. ~IsReader(p)' /\ pc'[p] # "start"
      BY <1>10 DEF IsReader
    <3>2. \A i \in DOMAIN wrote[q] : wrote[q][i].to <= run[p]
      BY <2>1 DEF Kept
    <3> QED BY <1>2, <3>1, <3>2 DEF Kept
  <2>3. \A i \in DOMAIN wrote[p] : Kept(wrote[p][i], q)'
    <3>1. pc'[q] = pc[q] /\ (IsReader(q)' => IsReader(q))
      BY <1>1, <1>10 DEF IsReader
    <3> QED BY <1>2, <1>15, <2>1, <3>1 DEF Kept, Held
  <2> QED BY <1>1, <1>2, <2>2, <2>3 DEF NothingDropped, q
<1> QED BY <1>9, <1>12, <1>14, <1>16 DEF CInv

LEMMA ReadStdinInv ==
  ASSUME CInv, NEW p \in Sides, ReadStdin(p)
  PROVE  CInv'
<1>1. TypeOK /\ pc[p] = "serve"
  BY DEF CInv, ReadStdin
<1>2. CASE End(p, "eof")
  BY <1>1, <1>2, EndInv DEF Ends
<1>3. CASE ~End(p, "eof")
  <2> DEFINE n == Smaller(Len(stdin[p]), BufSize)
  <2>1. /\ n > 0
        /\ buffer' = [buffer EXCEPT ![p] = SubSeq(stdin[p], 1, n)]
        /\ stdin' = [stdin EXCEPT ![p] = SubSeq(stdin[p], n + 1, Len(stdin[p]))]
        /\ Terminate(p, n)
        /\ bits' = [bits EXCEPT ![p] = bits[p] \ {"stdin"}]
        /\ pc' = [pc EXCEPT ![p] = "write"]
        /\ UNCHANGED <<run, typed, eof, fifo, came, met, why, wrote, printed>>
    BY <1>3 DEF ReadStdin, kernel, hist
  <2>2. stdin[p] \in Seq(1 .. MaxTyped) /\ Len(stdin[p]) \in Nat
    BY <1>1, LenProperties DEF TypeOK
  <2>3. n \in Nat /\ n <= Len(stdin[p]) /\ n <= BufSize
    BY <2>2, BufAssumption DEF Smaller
  <2> HIDE DEF n
  <2>4. /\ SubSeq(stdin[p], 1, n) \in Seq(1 .. MaxTyped) /\ Len(SubSeq(stdin[p], 1, n)) = n
        /\ SubSeq(stdin[p], n + 1, Len(stdin[p])) \in Seq(1 .. MaxTyped)
    BY <2>2, <2>3, Cut, ZenonT(30)
  <2>5. /\ buffer' \in [Sides -> Seq(1 .. MaxTyped)] /\ stdin' \in [Sides -> Seq(1 .. MaxTyped)]
        /\ \A s \in Sides : Len(buffer'[s]) <= BufSize
    BY <1>1, <2>1, <2>3, <2>4 DEF TypeOK
  <2>6. maxfd' \in [Sides -> {0, FifoFd}]
    BY <1>1, <2>1 DEF TypeOK, Terminate
  <2>7. /\ bits' \in [Sides -> SUBSET {"stdin", "fifo"}]
        /\ pc' \in [Sides -> {"off", "start", "reading", "joining", "select", "serve", "write"}]
    BY <1>1, <2>1 DEF TypeOK
  <2>8. TypeOK'
    BY <1>1, <2>1, <2>5, <2>6, <2>7 DEF TypeOK
  <2>9. \A s \in Sides : pc'[s] = IF s = p THEN "write" ELSE pc[s]
    BY <1>1, <2>1 DEF TypeOK
  <2>10. \A s \in Sides : IsReader(s)' = IsReader(s)
    BY <1>1, <2>9 DEF IsReader
  <2>11. Started' /\ Stopped' /\ MetFirst'
    BY <1>1, <2>1, <2>9 DEF CInv, Started, Stopped, MetFirst
  <2>12. MetIsTrue'
    BY <2>1, <1>1, <2>9, <2>10, TwoSides DEF CInv, MetIsTrue
  <2>13. NothingDropped'
    BY <2>1, <1>1, <2>9, <2>10 DEF CInv, NothingDropped, Kept, Held
  <2> QED BY <2>8, <2>11, <2>12, <2>13 DEF CInv
<1> QED BY <1>2, <1>3

(* The lines written carry the number of the reader's present run and are   *)
(* in its FIFO.                                                             *)
LEMMA WriteInv ==
  ASSUME CInv, NEW p \in Sides, Write(p)
  PROVE  CInv'
<1> DEFINE q == Other(p)
           lines == [i \in 1 .. Len(buffer[p]) |->
                       [n |-> buffer[p][i], by |-> run[p], to |-> run[q]]]
<1>1. q \in Sides /\ q # p /\ Other(q) = p /\ \A s \in Sides : s = p \/ s = q
  BY TwoSides
<1>2. /\ pc[p] = "write" /\ IsReader(q) /\ Len(fifo[q]) + Len(lines) <= PipeSize
      /\ fifo' = [fifo EXCEPT ![q] = fifo[q] \o lines]
      /\ wrote' = [wrote EXCEPT ![p] = wrote[p] \o lines]
      /\ buffer' = [buffer EXCEPT ![p] = <<>>]
      /\ pc' = [pc EXCEPT ![p] = AfterStdin(p)]
      /\ UNCHANGED <<run, maxfd, bits, typed, stdin, eof, came, met, why, printed>>
  BY DEF Write, user
<1>3. TypeOK
  BY DEF CInv
<1>4. run[p] \in Nat \ {0} /\ run[q] \in Nat \ {0}
  <2>1. pc[q] # "off" /\ pc[p] # "off"
    BY <1>2 DEF IsReader
  <2>2. run[p] > 0 /\ run[q] > 0
    BY <1>1, <2>1 DEF CInv, Started
  <2> QED BY <1>1, <1>3, <2>2 DEF TypeOK
<1>5. buffer[p] \in Seq(1 .. MaxTyped) /\ Len(buffer[p]) \in Nat
  BY <1>3, LenProperties DEF TypeOK
<1>6. \A i \in 1 .. Len(buffer[p]) :
        [n |-> buffer[p][i], by |-> run[p], to |-> run[q]] \in Lines
  BY <1>4, <1>5, ElementOfSeq DEF Lines
<1>7. /\ lines \in Seq(Lines) /\ Len(lines) = Len(buffer[p])
      /\ \A i \in 1 .. Len(lines) : lines[i].to = run[q]
  BY <1>5, <1>6
<1> HIDE DEF q, lines
<1>8. /\ fifo[q] \in Seq(Lines) /\ wrote[p] \in Seq(Lines)
      /\ Len(fifo[q]) \in Nat /\ Len(wrote[p]) \in Nat /\ Len(lines) \in Nat
  BY <1>1, <1>3, <1>7, LenProperties DEF TypeOK
<1>9. /\ fifo[q] \o lines \in Seq(Lines) /\ wrote[p] \o lines \in Seq(Lines)
      /\ Len(fifo[q] \o lines) = Len(fifo[q]) + Len(lines)
      /\ Len(wrote[p] \o lines) = Len(wrote[p]) + Len(lines)
      /\ \A i \in 1 .. Len(wrote[p]) + Len(lines) :
           (wrote[p] \o lines)[i] = IF i <= Len(wrote[p]) THEN wrote[p][i] ELSE lines[i - Len(wrote[p])]
  <2>1. lines \in Seq(Lines)
    BY <1>7
  <2>2. fifo[q] \o lines \in Seq(Lines) /\ Len(fifo[q] \o lines) = Len(fifo[q]) + Len(lines)
    BY ONLY <1>8, <2>1, ConcatProperties
  <2>3. /\ wrote[p] \o lines \in Seq(Lines)
        /\ Len(wrote[p] \o lines) = Len(wrote[p]) + Len(lines)
        /\ \A i \in 1 .. Len(wrote[p]) + Len(lines) :
             (wrote[p] \o lines)[i] = IF i <= Len(wrote[p]) THEN wrote[p][i] ELSE lines[i - Len(wrote[p])]
    BY ONLY <1>8, <2>1, ConcatProperties
  <2> QED BY <2>2, <2>3
<1>10. /\ fifo' \in [Sides -> Seq(Lines)] /\ wrote' \in [Sides -> Seq(Lines)]
       /\ fifo'[q] = fifo[q] \o lines /\ fifo'[p] = fifo[p]
       /\ wrote'[p] = wrote[p] \o lines /\ wrote'[q] = wrote[q]
  BY <1>1, <1>2, <1>3, <1>9 DEF TypeOK
<1>11. \A s \in Sides : Len(fifo'[s]) <= PipeSize
  BY <1>1, <1>2, <1>3, <1>9, <1>10 DEF TypeOK
<1>12. /\ buffer' \in [Sides -> Seq(1 .. MaxTyped)]
       /\ \A s \in Sides : Len(buffer'[s]) <= BufSize
  BY <1>2, <1>3, BufAssumption DEF TypeOK
<1>13. pc' \in [Sides -> {"off", "start", "reading", "joining", "select", "serve", "write"}]
  BY <1>2, <1>3 DEF TypeOK, AfterStdin
<1>14. TypeOK'
  BY <1>2, <1>3, <1>10, <1>11, <1>12, <1>13 DEF TypeOK
<1>15. /\ \A s \in Sides : s # p => pc'[s] = pc[s]
       /\ pc'[p] \in {"select", "serve"} /\ met[p]
  BY <1>2, <1>3 DEF TypeOK, AfterStdin, CInv, MetFirst
<1>16. \A s \in Sides : IsReader(s)' = IsReader(s)
  BY <1>1, <1>2, <1>15 DEF IsReader
<1>17. Started' /\ Stopped' /\ MetFirst'
  BY <1>1, <1>2, <1>4, <1>15 DEF CInv, Started, Stopped, MetFirst
<1>18. MetIsTrue'
  <2>1. met[p] => run[q] > 0 /\ (IsReader(q)' \/ pc'[q] = "off" \/ run[q] > 1)
    BY <1>1, <1>15, <1>16 DEF CInv, MetIsTrue, q
  <2>2. IsReader(p)'
    BY <1>15 DEF IsReader
  <2> QED BY <1>1, <1>2, <1>4, <2>1, <2>2 DEF MetIsTrue, q
<1>19. NothingDropped'
  <2>1. \A i \in DOMAIN wrote[q] : Kept(wrote[q][i], p)'
    <3>1. \A i \in DOMAIN wrote[q] : Kept(wrote[q][i], p)
      BY <1>1 DEF CInv, NothingDropped, q
    <3>2. IsReader(p) /\ pc'[p] # "start" /\ pc[p] # "start"
      BY <1>2, <1>15 DEF IsReader
    <3>3. wrote'[q] = wrote[q] /\ fifo'[p] = fifo[p] /\ printed' = printed /\ run' = run
      BY <1>2, <1>10
    <3> QED BY <3>1, <3>2, <3>3 DEF Kept, Held
  <2>2. ASSUME NEW i \in DOMAIN wrote'[p]
        PROVE  Kept(wrote[p][i], q)'
    <3>1. DOMAIN wrote'[p] = 1 .. Len(wrote[p]) + Len(lines) /\ DOMAIN wrote[p] = 1 .. Len(wrote[p])
          /\ DOMAIN lines = 1 .. Len(lines)
      BY <1>7, <1>8, <1>9, <1>10, LenProperties
    <3>2. CASE i <= Len(wrote[p])
      <4>1. i \in DOMAIN wrote[p] /\ wrote'[p][i] = wrote[p][i]
        BY <1>8, <1>9, <1>10, <3>1, <3>2
      <4>2. Kept(wrote[p][i], q)
        BY <1>1, <4>1 DEF CInv, NothingDropped
      <4>3. Held(wrote[p][i], fifo[q]) => Held(wrote[p][i], fifo[q] \o lines)
        BY <1>7, <1>8, HeldInConcat
      <4>4. Held(wrote[p][i], fifo[q]) => Held(wrote'[p][i], fifo'[q])
        BY <1>10, <4>1, <4>3
      <4>5. Held(wrote[p][i], printed[q]) => Held(wrote'[p][i], printed'[q])
        BY <1>2, <4>1
      <4>6. run'[q] = run[q] /\ pc'[q] = pc[q] /\ IsReader(q)' = IsReader(q)
        BY <1>1, <1>2, <1>15, <1>16
      <4>7. /\ wrote'[p][i].to <= run'[q]
            /\ pc'[q] = "start" => wrote'[p][i].to < run'[q]
            /\ IsReader(q)' /\ wrote'[p][i].to = run'[q] =>
                 Held(wrote'[p][i], printed'[q]) \/ Held(wrote'[p][i], fifo'[q])
        BY <4>1, <4>2, <4>4, <4>5, <4>6 DEF Kept
      <4> QED BY <4>7 DEF Kept, Held
    <3>3. CASE ~(i <= Len(wrote[p]))
      <4>1. i - Len(wrote[p]) \in DOMAIN lines /\ wrote'[p][i] = lines[i - Len(wrote[p])]
        <5>1. i \in 1 .. Len(wrote[p]) + Len(lines)
          BY <2>2, <3>1
        <5>2. i - Len(wrote[p]) \in 1 .. Len(lines)
          BY <1>8, <3>3, <5>1
        <5> QED BY <1>9, <1>10, <3>1, <3>3, <5>1, <5>2
      <4>2. Held(wrote'[p][i], lines) /\ wrote'[p][i].to = run[q]
        BY <1>7, <3>1, <4>1 DEF Held
      <4>3. Held(wrote'[p][i], fifo'[q])
        BY <1>7, <1>8, <1>10, <4>2, HeldInConcat
      <4>4. pc'[q] # "start" /\ run'[q] = run[q]
        BY <1>1, <1>2, <1>15 DEF IsReader
      <4>5. run[q] <= run[q]
        BY <1>4
      <4> QED BY <4>2, <4>3, <4>4, <4>5 DEF Kept, Held
    <3> QED BY <3>2, <3>3
  <2> QED BY <1>1, <2>1, <2>2, <1>10 DEF NothingDropped, q
<1> QED BY <1>14, <1>17, <1>18, <1>19 DEF CInv

(* What is taken from the FIFO is printed, and the rest stays there.        *)
LEMMA TakeLinesInv ==
  ASSUME CInv, NEW p \in Sides, pc[p] = "serve", TakeLines(p)
  PROVE  CInv'
<1> DEFINE q == Other(p)
           n == Smaller(Len(fifo[p]), BufSize)
           taken == SubSeq(fifo[p], 1, n)
           rest == SubSeq(fifo[p], n + 1, Len(fifo[p]))
<1>1. q \in Sides /\ q # p /\ Other(q) = p /\ \A s \in Sides : s = p \/ s = q
  BY TwoSides
<1>2. /\ printed' = [printed EXCEPT ![p] = printed[p] \o taken]
      /\ fifo' = [fifo EXCEPT ![p] = rest] /\ Terminate(p, n)
      /\ bits' = [bits EXCEPT ![p] = {}] /\ pc' = [pc EXCEPT ![p] = "select"]
      /\ UNCHANGED <<run, buffer, typed, stdin, eof, came, met, why, wrote>>
  BY DEF TakeLines, user
<1>3. TypeOK
  BY DEF CInv
<1>4. /\ fifo[p] \in Seq(Lines) /\ Len(fifo[p]) \in Nat /\ Len(fifo[p]) <= PipeSize
      /\ printed[p] \in Seq(Lines)
  BY <1>3, LenProperties DEF TypeOK
<1>5. n \in Nat /\ n <= Len(fifo[p])
  BY <1>4, BufAssumption DEF Smaller
<1> HIDE DEF n
<1>6. taken \in Seq(Lines) /\ rest \in Seq(Lines) /\ Len(rest) = Len(fifo[p]) - n
  BY <1>4, <1>5, Cut
<1>7. \A l : Held(l, fifo[p]) => Held(l, taken) \/ Held(l, rest)
  BY <1>4, <1>5, HeldInPart
<1> HIDE DEF q, taken, rest
<1>8. printed[p] \o taken \in Seq(Lines)
  BY <1>4, <1>6, ConcatProperties
<1>9. \A l : Held(l, printed[p]) \/ Held(l, taken) => Held(l, printed[p] \o taken)
  BY <1>4, <1>6, HeldInConcat
<1>10. /\ printed' \in [Sides -> Seq(Lines)] /\ fifo' \in [Sides -> Seq(Lines)]
       /\ printed'[p] = printed[p] \o taken /\ printed'[q] = printed[q]
       /\ fifo'[p] = rest /\ fifo'[q] = fifo[q]
  BY <1>1, <1>2, <1>3, <1>6, <1>8 DEF TypeOK
<1>11. \A s \in Sides : Len(fifo'[s]) <= PipeSize
  <2>1. Len(fifo[q]) <= PipeSize /\ Len(fifo[p]) - n <= PipeSize
    BY <1>1, <1>3, <1>4, <1>5, BufAssumption DEF TypeOK
  <2> QED BY <1>1, <1>6, <1>10, <2>1
<1>12. maxfd' \in [Sides -> {0, FifoFd}]
  BY <1>2, <1>3 DEF TypeOK, Terminate
<1>13. /\ bits' \in [Sides -> SUBSET {"stdin", "fifo"}]
       /\ pc' \in [Sides -> {"off", "start", "reading", "joining", "select", "serve", "write"}]
  BY <1>2, <1>3 DEF TypeOK
<1>14. TypeOK'
  BY <1>2, <1>3, <1>10, <1>11, <1>12, <1>13 DEF TypeOK
<1>15. \A s \in Sides : pc'[s] = IF s = p THEN "select" ELSE pc[s]
  BY <1>2, <1>3 DEF TypeOK
<1>16. \A s \in Sides : IsReader(s)' = IsReader(s)
  BY <1>15 DEF IsReader
<1>17. Started' /\ Stopped' /\ MetFirst'
  BY <1>2, <1>15 DEF CInv, Started, Stopped, MetFirst
<1>18. MetIsTrue'
  BY <1>2, <1>15, <1>16, TwoSides DEF CInv, MetIsTrue
<1>19. NothingDropped'
  <2>1. /\ \A i \in DOMAIN wrote[q] : Kept(wrote[q][i], p)
        /\ \A i \in DOMAIN wrote[p] : Kept(wrote[p][i], q)
    BY <1>1 DEF CInv, NothingDropped, q
  <2>2. ASSUME NEW i \in DOMAIN wrote[q]
        PROVE  Kept(wrote[q][i], p)'
    <3> DEFINE l == wrote[q][i]
    <3>1. l.to <= run[p] /\ (l.to = run[p] => Held(l, printed[p]) \/ Held(l, fifo[p]))
      BY <2>1, <2>2 DEF Kept, IsReader
    <3>2. l.to = run[p] => Held(l, printed[p] \o taken) \/ Held(l, rest)
      BY <1>7, <1>9, <3>1
    <3>3. wrote' = wrote /\ run' = run /\ pc'[p] # "start"
      BY <1>2, <1>15
    <3> QED BY <1>10, <3>1, <3>2, <3>3 DEF Kept, Held
  <2>3. \A i \in DOMAIN wrote[p] : Kept(wrote[p][i], q)'
    <3>1. pc'[q] = pc[q] /\ (IsReader(q)' => IsReader(q)) /\ wrote' = wrote /\ run' = run
      BY <1>1, <1>2, <1>15 DEF IsReader
    <3> QED BY <1>10, <2>1, <3>1 DEF Kept, Held
  <2> QED BY <1>1, <1>2, <2>2, <2>3 DEF NothingDropped, q
<1> QED BY <1>14, <1>17, <1>18, <1>19 DEF CInv

LEMMA ReadFifoInv ==
  ASSUME CInv, NEW p \in Sides, ReadFifo(p)
  PROVE  CInv'
<1>1. pc[p] = "serve"
  BY DEF ReadFifo
<1>2. CASE TakeLines(p)
  BY <1>1, <1>2, TakeLinesInv
<1>3. CASE End(p, "left")
  BY <1>1, <1>3, EndInv DEF Ends
<1>4. CASE End(p, "again")
  BY <1>1, <1>4, EndInv DEF Ends
<1> QED BY <1>2, <1>3, <1>4 DEF ReadFifo

LEMMA NextInv == CInv /\ [Next]_vars => CInv'
<1> SUFFICES ASSUME CInv, [Next]_vars PROVE CInv'
  OBVIOUS
<1>1. CASE UNCHANGED vars
  BY <1>1 DEF vars, user, kernel, hist, CInv, TypeOK, Started, Stopped, MetIsTrue, MetFirst,
     NothingDropped, Kept, Held, IsReader
<1>2. ASSUME NEW p \in Sides, Program(p)
      PROVE  CInv'
  <2>1. CASE BrokenPipe(p)
    <3>1. pc[p] # "off" /\ End(p, "sigpipe") /\ "sigpipe" \in Ends
      BY <2>1 DEF BrokenPipe, Ends
    <3> QED BY <3>1, EndInv
  <2> QED BY <1>2, <2>1, OpenReadInv, OpenWriteInv, JoinedInv, SelectInv, ReadStdinInv,
          WriteInv, ReadFifoInv DEF Program
<1>3. ASSUME NEW p \in Sides, User(p)
      PROVE  CInv'
  <2>1. CASE Interrupt(p)
    BY <2>1, EndInv DEF Interrupt, Ends
  <2> QED BY <1>3, <2>1, StartInv, TypingInv, CloseInputInv DEF User
<1> QED BY <1>1, <1>2, <1>3 DEF Next

-----------------------------------------------------------------------------
(* Both sides keep to the types of their state, and the FIFOs and buffers   *)
(* to their sizes, whatever leaves and comes back.                          *)
THEOREM ChatTypes == Spec => []TypeOK
<1>1. CInv => TypeOK
  BY DEF CInv
<1> QED BY CInit, NextInv, <1>1, PTL DEF Spec

(* The reason the invariant gives for a side's end.                         *)
LEMMA LeftStep ==
  ASSUME CInv, [Next]_vars, NEW p \in Sides, why[p] # "left", why'[p] = "left"
  PROVE  /\ run[Other(p)] > 0
         /\ \A i \in DOMAIN wrote[Other(p)] :
              LET l == wrote[Other(p)][i]
              IN  l.to = run[p] => \E k \in DOMAIN printed[p] : printed[p][k] = l
<1>1. \A s \in Sides, r \in Ends : End(s, r) => \A x \in Sides :
        why'[x] = IF x = s THEN r ELSE why[x]
  BY DEF End, CInv, TypeOK
<1>2. pc[p] = "serve" /\ fifo[p] = <<>>
  <2>1. PICK s \in Sides : Program(s) \/ User(s)
    BY DEF Next, vars, hist
  <2>2. ReadFifo(s) /\ s = p
    <3>1. CASE Program(s)
      <4>1. ~OpenRead(s) /\ ~OpenWrite(s) /\ ~Joined(s) /\ ~Select(s) /\ ~Write(s)
        BY DEF OpenRead, OpenWrite, Joined, Select, Write, hist
      <4>2. ~BrokenPipe(s) /\ ~ReadStdin(s)
        BY <1>1 DEF BrokenPipe, ReadStdin, Ends, hist
      <4>3. ReadFifo(s)
        BY <3>1, <4>1, <4>2 DEF Program
      <4>4. s = p
        BY <1>1, <4>3 DEF ReadFifo, TakeLines, Ends
      <4> QED BY <4>3, <4>4
    <3>2. CASE User(s)
      <4>1. ~Type(s) /\ ~CloseInput(s)
        BY DEF Type, CloseInput, hist
      <4>2. ~Start(s)
        BY DEF Start, CInv, TypeOK
      <4>3. ~Interrupt(s)
        BY <1>1 DEF Interrupt, Ends
      <4> QED BY <3>2, <4>1, <4>2, <4>3 DEF User
    <3> QED BY <2>1, <3>1, <3>2
  <2>3. ~TakeLines(p)
    BY DEF TakeLines
  <2> QED BY <2>2, <2>3 DEF ReadFifo
<1>3. run[Other(p)] > 0
  BY <1>2 DEF CInv, MetFirst, MetIsTrue
<1>4. \A l : ~Held(l, fifo[p])
  BY <1>2 DEF Held
<1>5. \A i \in DOMAIN wrote[Other(p)] :
        wrote[Other(p)][i].to = run[p] => Held(wrote[Other(p)][i], printed[p])
  BY <1>2, <1>4 DEF CInv, NothingDropped, Kept, IsReader
<1> QED BY <1>3, <1>5 DEF Held

LEMMA SigpipeStep ==
  ASSUME CInv, [Next]_vars, NEW p \in Sides, why[p] # "sigpipe", why'[p] = "sigpipe"
  PROVE  /\ run[Other(p)] > 0 /\ ~IsReader(Other(p))
         /\ why[Other(p)] # "none" \/ run[Other(p)] > 1
<1>1. \A s \in Sides, r \in Ends : End(s, r) => \A x \in Sides :
        why'[x] = IF x = s THEN r ELSE why[x]
  BY DEF End, CInv, TypeOK
<1>2. pc[p] = "write" /\ ~IsReader(Other(p))
  <2>1. PICK s \in Sides : Program(s) \/ User(s)
    BY DEF Next, vars, hist
  <2>2. BrokenPipe(s) /\ s = p
    <3>1. CASE Program(s)
      <4>1. ~OpenRead(s) /\ ~OpenWrite(s) /\ ~Joined(s) /\ ~Select(s) /\ ~Write(s)
        BY DEF OpenRead, OpenWrite, Joined, Select, Write, hist
      <4>2. ~ReadFifo(s) /\ ~ReadStdin(s)
        BY <1>1 DEF ReadFifo, TakeLines, ReadStdin, Ends, hist
      <4>3. BrokenPipe(s)
        BY <3>1, <4>1, <4>2 DEF Program
      <4>4. s = p
        BY <1>1, <4>3 DEF BrokenPipe, Ends
      <4> QED BY <4>3, <4>4
    <3>2. CASE User(s)
      <4>1. ~Type(s) /\ ~CloseInput(s)
        BY DEF Type, CloseInput, hist
      <4>2. ~Start(s)
        BY DEF Start, CInv, TypeOK
      <4>3. ~Interrupt(s)
        BY <1>1 DEF Interrupt, Ends
      <4> QED BY <3>2, <4>1, <4>2, <4>3 DEF User
    <3> QED BY <2>1, <3>1, <3>2
  <2> QED BY <2>2 DEF BrokenPipe
<1>3. Other(p) \in Sides /\ run[Other(p)] > 0 /\ (pc[Other(p)] = "off" \/ run[Other(p)] > 1)
  BY <1>2, TwoSides DEF CInv, MetFirst, MetIsTrue
<1>4. pc[Other(p)] = "off" => why[Other(p)] # "none"
  <2>1. run[Other(p)] \in Nat
    BY <1>3 DEF CInv, TypeOK
  <2> QED BY <1>3, <2>1 DEF CInv, Stopped
<1> QED BY <1>2, <1>3, <1>4

(* A side says that its partner has left, or dies of SIGPIPE, only after    *)
(* the partner was there and went; and what the partner wrote to the run    *)
(* that says so has been printed.                                           *)
THEOREM ReasonsHold == Spec => ReasonsAreTrue
<1> DEFINE Left == \A p \in Sides : why[p] # "left" /\ why'[p] = "left" =>
       /\ run[Other(p)] > 0
       /\ \A i \in DOMAIN wrote[Other(p)] :
            LET l == wrote[Other(p)][i]
            IN l.to = run[p] => \E k \in DOMAIN printed[p] : printed[p][k] = l
           Killed == \A p \in Sides : why[p] # "sigpipe" /\ why'[p] = "sigpipe" =>
       run[Other(p)] > 0 /\ ~IsReader(Other(p)) /\ (why[Other(p)] # "none" \/ run[Other(p)] > 1)
<1>1. CInv /\ [Next]_vars => [Left]_vars
  BY LeftStep
<1>2. CInv /\ [Next]_vars => [Killed]_vars
  BY SigpipeStep
<1> HIDE DEF Left, Killed
<1>3. Spec => [][Left]_vars /\ [][Killed]_vars
  BY CInit, NextInv, <1>1, <1>2, PTL DEF Spec
<1> QED BY <1>3 DEF Left, Killed, ReasonsAreTrue, LeftIsTrue, KilledByDeparture

-----------------------------------------------------------------------------
(* The order of a side's lines on their way: printed by the partner, in its *)
(* FIFO, in the writer's buffer, and typed, up to the line typed last.      *)
Chain(out, queue, held, lines, last) ==
  /\ \A i, j \in 1 .. Len(out) : i < j => out[i].n < out[j].n
  /\ \A i, j \in 1 .. Len(queue) : i < j => queue[i].n < queue[j].n
  /\ \A i, j \in 1 .. Len(held) : i < j => held[i] < held[j]
  /\ \A i, j \in 1 .. Len(lines) : i < j => lines[i] < lines[j]
  /\ \A i \in 1 .. Len(out) :
       /\ \A j \in 1 .. Len(queue) : out[i].n < queue[j].n
       /\ \A j \in 1 .. Len(held) : out[i].n < held[j]
       /\ \A j \in 1 .. Len(lines) : out[i].n < lines[j]
       /\ out[i].n <= last
  /\ \A i \in 1 .. Len(queue) :
       /\ \A j \in 1 .. Len(held) : queue[i].n < held[j]
       /\ \A j \in 1 .. Len(lines) : queue[i].n < lines[j]
       /\ queue[i].n <= last
  /\ \A i \in 1 .. Len(held) :
       (\A j \in 1 .. Len(lines) : held[i] < lines[j]) /\ held[i] <= last
  /\ \A i \in 1 .. Len(lines) : lines[i] <= last

Flows == \A p \in Sides :
  Chain(printed[Other(p)], fifo[Other(p)], buffer[p], stdin[p], typed[p])

ChainTypes(out, queue, held, lines, last) ==
  /\ out \in Seq(Lines) /\ queue \in Seq(Lines)
  /\ held \in Seq(1 .. MaxTyped) /\ lines \in Seq(1 .. MaxTyped) /\ last \in Nat

LEMMA ChainNumbers ==
  ASSUME NEW out, NEW queue, NEW held, NEW lines, NEW last,
         ChainTypes(out, queue, held, lines, last)
  PROVE  /\ Len(out) \in Nat /\ \A i \in 1 .. Len(out) : out[i].n \in Nat
         /\ Len(queue) \in Nat /\ \A i \in 1 .. Len(queue) : queue[i].n \in Nat
         /\ Len(held) \in Nat /\ \A i \in 1 .. Len(held) : held[i] \in Nat
         /\ Len(lines) \in Nat /\ \A i \in 1 .. Len(lines) : lines[i] \in Nat
<1>1. \A l \in Lines : l.n \in Nat
  BY BoundsAssumption DEF Lines
<1>2. Len(out) \in Nat /\ \A i \in 1 .. Len(out) : out[i] \in Lines
  BY LenProperties, ElementOfSeq DEF ChainTypes
<1>3. Len(queue) \in Nat /\ \A i \in 1 .. Len(queue) : queue[i] \in Lines
  BY LenProperties, ElementOfSeq DEF ChainTypes
<1>4. Len(held) \in Nat /\ \A i \in 1 .. Len(held) : held[i] \in 1 .. MaxTyped
  BY LenProperties, ElementOfSeq DEF ChainTypes
<1>5. Len(lines) \in Nat /\ \A i \in 1 .. Len(lines) : lines[i] \in 1 .. MaxTyped
  BY LenProperties, ElementOfSeq DEF ChainTypes
<1> QED BY <1>1, <1>2, <1>3, <1>4, <1>5, BoundsAssumption

(* Another line is typed. *)
LEMMA ChainTyped ==
  ASSUME NEW out, NEW queue, NEW held, NEW lines, NEW last,
         ChainTypes(out, queue, held, lines, last), last + 1 \in 1 .. MaxTyped,
         Chain(out, queue, held, lines, last)
  PROVE  Chain(out, queue, held, Append(lines, last + 1), last + 1)
<1> DEFINE more == Append(lines, last + 1)
<1>1. last \in Nat
  BY DEF ChainTypes
<1>2. /\ Len(more) = Len(lines) + 1
      /\ \A i \in 1 .. Len(lines) : more[i] = lines[i]
      /\ more[Len(lines) + 1] = last + 1
  BY AppendProperties DEF ChainTypes
<1> HIDE DEF more
<1>3. \A i \in 1 .. Len(more) : i \in 1 .. Len(lines) \/ i = Len(lines) + 1
  BY <1>2, ChainNumbers
<1>4. \A i \in 1 .. Len(more) : more[i] = (IF i = Len(lines) + 1 THEN last + 1 ELSE lines[i])
  BY <1>2, <1>3
<1>5. \A i, j \in 1 .. Len(more) : i < j => i \in 1 .. Len(lines)
  BY <1>2, <1>3, ChainNumbers
<1>6. \A i, j \in 1 .. Len(more) : i < j => more[i] < more[j]
  <2> SUFFICES ASSUME NEW i \in 1 .. Len(more), NEW j \in 1 .. Len(more), i < j
      PROVE  more[i] < more[j]
    OBVIOUS
  <2>1. i \in 1 .. Len(lines) /\ more[i] = lines[i] /\ lines[i] <= last /\ lines[i] \in Nat
    BY <1>2, <1>5, ChainNumbers DEF Chain
  <2>2. CASE j = Len(lines) + 1
    BY <1>1, <1>2, <2>1, <2>2
  <2>3. CASE j \in 1 .. Len(lines)
    BY <1>2, <2>1, <2>3 DEF Chain
  <2> QED BY <1>3, <2>2, <2>3
<1>7. ASSUME NEW k \in Nat, k <= last, \A j \in 1 .. Len(lines) : k < lines[j]
      PROVE  k <= last + 1 /\ \A j \in 1 .. Len(more) : k < more[j]
  BY <1>1, <1>2, <1>3, <1>7
<1>8. \A i \in 1 .. Len(out) : out[i].n <= last + 1 /\ \A j \in 1 .. Len(more) : out[i].n < more[j]
  BY <1>7, ChainNumbers DEF Chain
<1>9. \A i \in 1 .. Len(queue) : queue[i].n <= last + 1 /\ \A j \in 1 .. Len(more) : queue[i].n < more[j]
  BY <1>7, ChainNumbers DEF Chain
<1>10. \A i \in 1 .. Len(held) : held[i] <= last + 1 /\ \A j \in 1 .. Len(more) : held[i] < more[j]
  BY <1>7, ChainNumbers DEF Chain
<1>11. \A i \in 1 .. Len(more) : more[i] <= last + 1
  <2>1. \A i \in 1 .. Len(lines) : lines[i] <= last /\ lines[i] \in Nat
    BY ChainNumbers DEF Chain
  <2> QED BY <1>1, <1>2, <1>3, <2>1
<1>12. Chain(out, queue, held, more, last + 1)
  BY <1>6, <1>8, <1>9, <1>10, <1>11 DEF Chain
<1> QED BY <1>12 DEF more

(* Lines are read into the buffer. *)
LEMMA ChainRead ==
  ASSUME NEW out, NEW queue, NEW held, NEW lines, NEW last,
         ChainTypes(out, queue, held, lines, last),
         Chain(out, queue, held, lines, last), NEW n \in Nat, n <= Len(lines)
  PROVE  Chain(out, queue, SubSeq(lines, 1, n), SubSeq(lines, n + 1, Len(lines)), last)
<1> DEFINE a == SubSeq(lines, 1, n)
           b == SubSeq(lines, n + 1, Len(lines))
<1>1. /\ Len(a) = n /\ \A i \in 1 .. n : a[i] = lines[i]
      /\ Len(b) = Len(lines) - n /\ \A i \in 1 .. Len(lines) - n : b[i] = lines[n + i]
  BY Cut DEF ChainTypes
<1>2. Len(lines) \in Nat
  BY ChainNumbers
<1>3. \A i \in 1 .. n : i \in 1 .. Len(lines)
  BY <1>2
<1>4. \A i \in 1 .. Len(lines) - n : n + i \in 1 .. Len(lines)
  BY <1>2
<1>5. \A i, j \in 1 .. Len(lines) - n : i < j => n + i < n + j
  BY <1>2
<1>6. \A i \in 1 .. n, j \in 1 .. Len(lines) - n : i < n + j
  BY <1>2
<1> HIDE DEF a, b
<1>7. \A i \in 1 .. n : i \in 1 .. Len(lines) /\ a[i] = lines[i]
  BY <1>1, <1>3
<1>8. \A i \in 1 .. Len(b) : n + i \in 1 .. Len(lines) /\ b[i] = lines[n + i]
  BY <1>1, <1>4
<1>9. Len(a) = n /\ Len(b) = Len(lines) - n
  BY <1>1
<1>10. \A i, j \in 1 .. Len(a) : i < j => a[i] < a[j]
  BY <1>7, <1>9 DEF Chain
<1>11. \A i, j \in 1 .. Len(b) : i < j => b[i] < b[j]
  BY <1>5, <1>8, <1>9 DEF Chain
<1>12. \A i \in 1 .. Len(a), j \in 1 .. Len(b) : a[i] < b[j]
  BY <1>6, <1>7, <1>8, <1>9 DEF Chain
<1>13. /\ \A i \in 1 .. Len(out) :
             (\A j \in 1 .. Len(a) : out[i].n < a[j]) /\ (\A j \in 1 .. Len(b) : out[i].n < b[j])
       /\ \A i \in 1 .. Len(queue) :
             (\A j \in 1 .. Len(a) : queue[i].n < a[j]) /\ (\A j \in 1 .. Len(b) : queue[i].n < b[j])
  BY <1>7, <1>8, <1>9 DEF Chain
<1>14. (\A i \in 1 .. Len(a) : a[i] <= last) /\ (\A i \in 1 .. Len(b) : b[i] <= last)
  BY <1>7, <1>8, <1>9 DEF Chain
<1>15. Chain(out, queue, a, b, last)
  BY <1>10, <1>11, <1>12, <1>13, <1>14 DEF Chain
<1> QED BY <1>15 DEF a, b

(* The buffer is written to the FIFO. *)
LEMMA ChainWrite ==
  ASSUME NEW out, NEW queue, NEW held, NEW lines, NEW last,
         ChainTypes(out, queue, held, lines, last),
         Chain(out, queue, held, lines, last),
         NEW sent \in Seq(Lines), Len(sent) = Len(held),
         \A i \in 1 .. Len(held) : sent[i].n = held[i]
  PROVE  Chain(out, queue \o sent, <<>>, lines, last)
<1> DEFINE more == queue \o sent
<1>1. /\ Len(more) = Len(queue) + Len(held)
      /\ \A i \in 1 .. Len(queue) + Len(held) :
           more[i] = IF i <= Len(queue) THEN queue[i] ELSE sent[i - Len(queue)]
  <2>1. queue \in Seq(Lines) /\ sent \in Seq(Lines)
    BY DEF ChainTypes
  <2>2. /\ Len(queue \o sent) = Len(queue) + Len(sent)
        /\ \A i \in 1 .. Len(queue) + Len(sent) :
             (queue \o sent)[i] = IF i <= Len(queue) THEN queue[i] ELSE sent[i - Len(queue)]
    BY ONLY <2>1, ConcatProperties
  <2> QED BY <2>2
<1>2. Len(queue) \in Nat /\ Len(held) \in Nat
  BY ChainNumbers
<1> HIDE DEF more
<1>3. ASSUME NEW i \in 1 .. Len(more)
      PROVE  \/ i \in 1 .. Len(queue) /\ more[i] = queue[i]
             \/ /\ i - Len(queue) \in 1 .. Len(held) /\ ~(i \in 1 .. Len(queue))
                /\ more[i].n = held[i - Len(queue)]
  BY <1>1, <1>2
<1>4. \A i, j \in 1 .. Len(more) : i < j => more[i].n < more[j].n
  <2> SUFFICES ASSUME NEW i \in 1 .. Len(more), NEW j \in 1 .. Len(more), i < j
      PROVE  more[i].n < more[j].n
    OBVIOUS
  <2>1. CASE j \in 1 .. Len(queue)
    <3>1. i \in 1 .. Len(queue)
      BY <1>1, <1>2, <2>1
    <3> QED BY <1>3, <2>1, <3>1 DEF Chain
  <2>2. CASE ~(j \in 1 .. Len(queue))
    <3>1. j - Len(queue) \in 1 .. Len(held) /\ more[j].n = held[j - Len(queue)]
      BY <1>3, <2>2
    <3>2. CASE i \in 1 .. Len(queue)
      BY <1>3, <3>1, <3>2 DEF Chain
    <3>3. CASE ~(i \in 1 .. Len(queue))
      <4>1. i - Len(queue) \in 1 .. Len(held) /\ more[i].n = held[i - Len(queue)]
        BY <1>3, <3>3
      <4>2. i - Len(queue) < j - Len(queue)
        BY <1>1, <1>2
      <4> QED BY <3>1, <4>1, <4>2 DEF Chain
    <3> QED BY <3>2, <3>3
  <2> QED BY <2>1, <2>2
<1>5. \A i \in 1 .. Len(more) :
        /\ \A j \in 1 .. Len(out) : out[j].n < more[i].n
        /\ \A j \in 1 .. Len(lines) : more[i].n < lines[j]
        /\ more[i].n <= last
  BY <1>3 DEF Chain
<1>6. Len(<<>>) = 0 /\ 1 .. 0 = {}
  OBVIOUS
<1>7. Chain(out, more, <<>>, lines, last)
  BY <1>4, <1>5, <1>6 DEF Chain
<1> QED BY <1>7 DEF more

(* Lines are taken from the FIFO and printed. *)
LEMMA ChainTake ==
  ASSUME NEW out, NEW queue, NEW held, NEW lines, NEW last,
         ChainTypes(out, queue, held, lines, last),
         Chain(out, queue, held, lines, last), NEW n \in Nat, n <= Len(queue)
  PROVE  Chain(out \o SubSeq(queue, 1, n), SubSeq(queue, n + 1, Len(queue)), held, lines, last)
<1> DEFINE a == SubSeq(queue, 1, n)
           b == SubSeq(queue, n + 1, Len(queue))
           more == out \o a
<1>1. /\ a \in Seq(Lines) /\ Len(a) = n /\ \A i \in 1 .. n : a[i] = queue[i]
      /\ Len(b) = Len(queue) - n /\ \A i \in 1 .. Len(queue) - n : b[i] = queue[n + i]
  BY Cut DEF ChainTypes
<1> HIDE DEF a, b
<1>2. /\ Len(more) = Len(out) + n
      /\ \A i \in 1 .. Len(out) + n : more[i] = IF i <= Len(out) THEN out[i] ELSE a[i - Len(out)]
  BY <1>1, ConcatProperties DEF ChainTypes
<1>3. Len(queue) \in Nat /\ Len(out) \in Nat
  BY ChainNumbers
<1> HIDE DEF more
<1>4. ASSUME NEW i \in 1 .. Len(more)
      PROVE  \/ i \in 1 .. Len(out) /\ more[i] = out[i]
             \/ /\ i - Len(out) \in 1 .. Len(queue) /\ i - Len(out) <= n
                /\ ~(i \in 1 .. Len(out)) /\ more[i] = queue[i - Len(out)]
  <2>1. CASE i <= Len(out)
    BY <1>2, <1>3, <2>1
  <2>2. CASE ~(i <= Len(out))
    <3>1. i - Len(out) \in 1 .. n /\ more[i] = a[i - Len(out)]
      BY <1>2, <1>3, <2>2
    <3> QED BY <1>1, <1>3, <2>2, <3>1
  <2> QED BY <2>1, <2>2
<1>5. \A i, j \in 1 .. Len(more) : i < j => more[i].n < more[j].n
  <2> SUFFICES ASSUME NEW i \in 1 .. Len(more), NEW j \in 1 .. Len(more), i < j
      PROVE  more[i].n < more[j].n
    OBVIOUS
  <2>1. CASE j \in 1 .. Len(out)
    <3>1. i \in 1 .. Len(out)
      BY <1>2, <1>3, <2>1
    <3> QED BY <1>4, <2>1, <3>1 DEF Chain
  <2>2. CASE ~(j \in 1 .. Len(out))
    <3>1. j - Len(out) \in 1 .. Len(queue) /\ more[j] = queue[j - Len(out)]
      BY <1>4, <2>2
    <3>2. CASE i \in 1 .. Len(out)
      BY <1>4, <3>1, <3>2 DEF Chain
    <3>3. CASE ~(i \in 1 .. Len(out))
      <4>1. i - Len(out) \in 1 .. Len(queue) /\ more[i] = queue[i - Len(out)]
        BY <1>4, <3>3
      <4>2. i - Len(out) < j - Len(out)
        BY <1>2, <1>3
      <4> QED BY <3>1, <4>1, <4>2 DEF Chain
    <3> QED BY <3>2, <3>3
  <2> QED BY <2>1, <2>2
<1>6. \A j \in 1 .. Len(b) : n + j \in 1 .. Len(queue) /\ b[j] = queue[n + j]
  BY <1>1, <1>3
<1>7. \A i \in 1 .. Len(more) :
        /\ \A j \in 1 .. Len(b) : more[i].n < b[j].n
        /\ \A j \in 1 .. Len(held) : more[i].n < held[j]
        /\ \A j \in 1 .. Len(lines) : more[i].n < lines[j]
        /\ more[i].n <= last
  <2>1. ASSUME NEW i \in 1 .. Len(more), NEW j \in 1 .. Len(b) PROVE more[i].n < b[j].n
    <3>1. n + j \in 1 .. Len(queue) /\ b[j] = queue[n + j]
      BY <1>6
    <3>2. CASE i \in 1 .. Len(out)
      BY <1>4, <3>1, <3>2 DEF Chain
    <3>3. CASE ~(i \in 1 .. Len(out))
      <4>1. i - Len(out) \in 1 .. Len(queue) /\ i - Len(out) <= n /\ more[i] = queue[i - Len(out)]
        BY <1>4, <3>3
      <4>2. i - Len(out) < n + j
        BY <1>1, <1>3, <4>1
      <4> QED BY <3>1, <4>1, <4>2 DEF Chain
    <3> QED BY <3>2, <3>3
  <2> QED BY <1>4, <2>1 DEF Chain
<1>8. \A i, j \in 1 .. Len(b) : i < j => n + i < n + j
  BY <1>1, <1>3
<1>9. Chain(more, b, held, lines, last)
  BY <1>5, <1>6, <1>7, <1>8 DEF Chain
<1> QED BY <1>9 DEF more, a, b

(* The FIFO or the buffer is lost. *)
LEMMA ChainLost ==
  ASSUME NEW out, NEW queue, NEW held, NEW lines, NEW last, NEW left, NEW kept,
         left \in {queue, <<>>}, kept \in {held, <<>>},
         Chain(out, queue, held, lines, last)
  PROVE  Chain(out, left, kept, lines, last)
<1>1. Len(<<>>) = 0 /\ 1 .. 0 = {}
  OBVIOUS
<1> QED BY <1>1 DEF Chain

LEMMA FlowTypes ==
  ASSUME CInv, NEW p \in Sides
  PROVE  ChainTypes(printed[Other(p)], fifo[Other(p)], buffer[p], stdin[p], typed[p])
BY TwoSides, BoundsAssumption DEF CInv, TypeOK, ChainTypes

LEMMA FlowsUntouched ==
  ASSUME Flows, UNCHANGED <<printed, fifo, buffer, stdin, typed>>
  PROVE  Flows'
BY DEF Flows, Chain

LEMMA FlowsType ==
  ASSUME CInv, Flows, NEW p \in Sides, Type(p)
  PROVE  Flows'
<1>1. /\ typed' = [typed EXCEPT ![p] = typed[p] + 1]
      /\ stdin' = [stdin EXCEPT ![p] = Append(stdin[p], typed'[p])]
      /\ typed[p] < MaxTyped /\ UNCHANGED <<printed, fifo, buffer>>
  BY DEF Type, kernel, hist
<1>2. typed[p] + 1 \in 1 .. MaxTyped /\ typed'[p] = typed[p] + 1
      /\ stdin'[p] = Append(stdin[p], typed[p] + 1)
      /\ \A s \in Sides \ {p} : typed'[s] = typed[s] /\ stdin'[s] = stdin[s]
  BY <1>1, BoundsAssumption DEF CInv, TypeOK
<1>3. ASSUME NEW s \in Sides
      PROVE  Chain(printed'[Other(s)], fifo'[Other(s)], buffer'[s], stdin'[s], typed'[s])
  <2>1. CASE s = p
    <3>1. Chain(printed[Other(p)], fifo[Other(p)], buffer[p],
                Append(stdin[p], typed[p] + 1), typed[p] + 1)
      BY <1>2, FlowTypes, ChainTyped DEF Flows
    <3> QED BY <1>1, <1>2, <2>1, <3>1
  <2>2. CASE s # p
    BY <1>1, <1>2, <2>2 DEF Flows
  <2> QED BY <2>1, <2>2
<1> QED BY <1>3 DEF Flows

LEMMA FlowsEnd ==
  ASSUME CInv, Flows, NEW p \in Sides, NEW reason, End(p, reason)
  PROVE  Flows'
<1>1. /\ UNCHANGED <<printed, stdin, typed>>
      /\ \A s \in Sides : fifo'[s] \in {fifo[s], <<>>} /\ buffer'[s] \in {buffer[s], <<>>}
  BY DEF End, user, CInv, TypeOK
<1>2. ASSUME NEW s \in Sides
      PROVE  Chain(printed'[Other(s)], fifo'[Other(s)], buffer'[s], stdin'[s], typed'[s])
  <2>1. Other(s) \in Sides
    BY TwoSides
  <2>2. Chain(printed[Other(s)], fifo'[Other(s)], buffer'[s], stdin[s], typed[s])
    BY <1>1, <2>1, ChainLost DEF Flows
  <2> QED BY <1>1, <2>2
<1> QED BY <1>2 DEF Flows

LEMMA FlowsRead ==
  ASSUME CInv, Flows, NEW p \in Sides, ReadStdin(p)
  PROVE  Flows'
<1>1. CASE End(p, "eof")
  BY <1>1, FlowsEnd
<1>2. CASE ~End(p, "eof")
  <2>1. PICK n : /\ n = Smaller(Len(stdin[p]), BufSize)
                 /\ buffer' = [buffer EXCEPT ![p] = SubSeq(stdin[p], 1, n)]
                 /\ stdin' = [stdin EXCEPT ![p] = SubSeq(stdin[p], n + 1, Len(stdin[p]))]
                 /\ UNCHANGED <<printed, fifo, typed>>
    BY <1>2 DEF ReadStdin, kernel, hist
  <2>2. n \in Nat /\ n <= Len(stdin[p])
    <3>1. Len(stdin[p]) \in Nat
      BY LenProperties DEF CInv, TypeOK
    <3> QED BY <2>1, <3>1, BufAssumption DEF Smaller
  <2>3. Chain(printed[Other(p)], fifo[Other(p)], SubSeq(stdin[p], 1, n),
              SubSeq(stdin[p], n + 1, Len(stdin[p])), typed[p])
    BY <2>2, FlowTypes, ChainRead DEF Flows
  <2>4. /\ buffer'[p] = SubSeq(stdin[p], 1, n)
        /\ stdin'[p] = SubSeq(stdin[p], n + 1, Len(stdin[p]))
        /\ \A s \in Sides \ {p} : buffer'[s] = buffer[s] /\ stdin'[s] = stdin[s]
    BY <2>1 DEF CInv, TypeOK
  <2>5. ASSUME NEW s \in Sides
        PROVE  Chain(printed'[Other(s)], fifo'[Other(s)], buffer'[s], stdin'[s], typed'[s])
    <3>1. CASE s = p
      BY <2>1, <2>3, <2>4, <3>1
    <3>2. CASE s # p
      BY <2>1, <2>4, <3>2 DEF Flows
    <3> QED BY <3>1, <3>2
  <2> QED BY <2>5 DEF Flows
<1> QED BY <1>1, <1>2

LEMMA FlowsWrite ==
  ASSUME CInv, Flows, NEW p \in Sides, Write(p)
  PROVE  Flows'
<1> DEFINE q == Other(p)
           lines == [i \in 1 .. Len(buffer[p]) |->
                       [n |-> buffer[p][i], by |-> run[p], to |-> run[q]]]
<1>1. q \in Sides /\ q # p /\ Other(q) = p /\ \A s \in Sides : s = p \/ s = q
  BY TwoSides
<1>2. /\ IsReader(q) /\ pc[p] = "write" /\ fifo' = [fifo EXCEPT ![q] = fifo[q] \o lines]
      /\ buffer' = [buffer EXCEPT ![p] = <<>>] /\ UNCHANGED <<stdin, typed, printed>>
  BY DEF Write, user
<1>3. run[p] \in Nat \ {0} /\ run[q] \in Nat \ {0}
  <2>1. pc[q] # "off" /\ pc[p] # "off"
    BY <1>2 DEF IsReader
  <2>2. run[p] > 0 /\ run[q] > 0
    BY <1>1, <2>1 DEF CInv, Started
  <2> QED BY <1>1, <2>2 DEF CInv, TypeOK
<1>4. buffer[p] \in Seq(1 .. MaxTyped) /\ Len(buffer[p]) \in Nat
  BY LenProperties DEF CInv, TypeOK
<1>5. \A i \in 1 .. Len(buffer[p]) :
        [n |-> buffer[p][i], by |-> run[p], to |-> run[q]] \in Lines
  BY <1>3, <1>4, ElementOfSeq DEF Lines
<1>6. /\ lines \in Seq(Lines) /\ Len(lines) = Len(buffer[p])
      /\ \A i \in 1 .. Len(buffer[p]) : lines[i].n = buffer[p][i]
  BY <1>4, <1>5
<1> HIDE DEF q, lines
<1>7. Chain(printed[q], fifo[q], buffer[p], stdin[p], typed[p])
      /\ ChainTypes(printed[q], fifo[q], buffer[p], stdin[p], typed[p])
  BY FlowTypes DEF Flows, q
<1>8. Chain(printed[q], fifo[q] \o lines, <<>>, stdin[p], typed[p])
  BY <1>6, <1>7, ChainWrite
<1>9. /\ fifo'[q] = fifo[q] \o lines /\ fifo'[p] = fifo[p]
      /\ buffer'[p] = <<>> /\ buffer'[q] = buffer[q]
  BY <1>1, <1>2 DEF CInv, TypeOK
<1>10. Chain(printed[p], fifo[p], buffer[q], stdin[q], typed[q])
  BY <1>1 DEF Flows
<1>11. ASSUME NEW s \in Sides
       PROVE  Chain(printed'[Other(s)], fifo'[Other(s)], buffer'[s], stdin'[s], typed'[s])
  <2>1. CASE s = p
    BY <1>2, <1>8, <1>9, <2>1 DEF q
  <2>2. CASE s = q
    BY <1>1, <1>2, <1>9, <1>10, <2>2
  <2> QED BY <1>1, <2>1, <2>2
<1> QED BY <1>11 DEF Flows

LEMMA FlowsTake ==
  ASSUME CInv, Flows, NEW q \in Sides, TakeLines(q)
  PROVE  Flows'
<1> DEFINE p == Other(q)
           n == Smaller(Len(fifo[q]), BufSize)
           taken == SubSeq(fifo[q], 1, n)
           rest == SubSeq(fifo[q], n + 1, Len(fifo[q]))
<1>1. p \in Sides /\ q # p /\ Other(p) = q /\ \A s \in Sides : s = p \/ s = q
  BY TwoSides
<1>2. /\ printed' = [printed EXCEPT ![q] = printed[q] \o taken]
      /\ fifo' = [fifo EXCEPT ![q] = rest] /\ UNCHANGED <<buffer, stdin, typed>>
  BY DEF TakeLines, user
<1>3. n \in Nat /\ n <= Len(fifo[q])
  <2>1. Len(fifo[q]) \in Nat
    BY LenProperties DEF CInv, TypeOK
  <2> QED BY <2>1, BufAssumption DEF Smaller
<1> HIDE DEF n, p
<1>4. Chain(printed[q], fifo[q], buffer[p], stdin[p], typed[p])
      /\ ChainTypes(printed[q], fifo[q], buffer[p], stdin[p], typed[p])
  BY <1>1, FlowTypes DEF Flows
<1>5. Chain(printed[q] \o taken, rest, buffer[p], stdin[p], typed[p])
  BY <1>3, <1>4, ChainTake
<1> HIDE DEF taken, rest
<1>6. /\ printed'[q] = printed[q] \o taken /\ printed'[p] = printed[p]
      /\ fifo'[q] = rest /\ fifo'[p] = fifo[p]
  BY <1>1, <1>2 DEF CInv, TypeOK
<1>7. Chain(printed[p], fifo[p], buffer[q], stdin[q], typed[q])
  BY DEF Flows, p
<1>8. ASSUME NEW s \in Sides
      PROVE  Chain(printed'[Other(s)], fifo'[Other(s)], buffer'[s], stdin'[s], typed'[s])
  <2>1. CASE s = p
    BY <1>1, <1>2, <1>5, <1>6, <2>1
  <2>2. CASE s = q
    BY <1>2, <1>6, <1>7, <2>2 DEF p
  <2> QED BY <1>1, <2>1, <2>2
<1> QED BY <1>8 DEF Flows

LEMMA FlowsInit == Init => Flows
<1>1. Len(<<>>) = 0 /\ 1 .. 0 = {}
  OBVIOUS
<1> QED BY <1>1, TwoSides DEF Init, Flows, Chain

LEMMA FlowsNext == CInv /\ Flows /\ [Next]_vars => Flows'
<1> SUFFICES ASSUME CInv, Flows, [Next]_vars PROVE Flows'
  OBVIOUS
<1>1. CASE UNCHANGED vars
  BY <1>1, FlowsUntouched DEF vars, user, kernel, hist
<1>2. ASSUME NEW p \in Sides, Program(p)
      PROVE  Flows'
  <2>1. CASE OpenRead(p) \/ OpenWrite(p) \/ Joined(p) \/ Select(p)
    BY <2>1, FlowsUntouched DEF OpenRead, OpenWrite, Joined, Select, user, kernel, hist
  <2>2. CASE BrokenPipe(p)
    BY <2>2, FlowsEnd DEF BrokenPipe
  <2>3. CASE ReadFifo(p)
    BY <2>3, FlowsEnd, FlowsTake DEF ReadFifo
  <2> QED BY <1>2, <2>1, <2>2, <2>3, FlowsRead, FlowsWrite DEF Program
<1>3. ASSUME NEW p \in Sides, User(p)
      PROVE  Flows'
  <2>1. CASE Start(p) \/ CloseInput(p)
    BY <2>1, FlowsUntouched DEF Start, CloseInput, kernel, hist
  <2>2. CASE Interrupt(p)
    BY <2>2, FlowsEnd DEF Interrupt
  <2> QED BY <1>3, <2>1, <2>2, FlowsType DEF User
<1> QED BY <1>1, <1>2, <1>3 DEF Next

LEMMA FlowsOrder == CInv /\ Flows => LinesInOrder
<1> SUFFICES ASSUME CInv, Flows, NEW p \in Sides
    PROVE  LET flow == printed[Other(p)] \o fifo[Other(p)]
           IN  \A i, j \in DOMAIN flow : i < j => flow[i].n < flow[j].n
  BY DEF LinesInOrder
<1> DEFINE s == printed[Other(p)]
           t == fifo[Other(p)]
           flow == s \o t
<1>1. Chain(s, t, buffer[p], stdin[p], typed[p])
  BY DEF Flows
<1>2. s \in Seq(Lines) /\ t \in Seq(Lines)
  BY TwoSides DEF CInv, TypeOK
<1> HIDE DEF s, t
<1>3. /\ Len(s) \in Nat /\ Len(t) \in Nat
      /\ flow \in Seq(Lines) /\ Len(flow) = Len(s) + Len(t)
      /\ \A i \in 1 .. Len(s) + Len(t) : flow[i] = IF i <= Len(s) THEN s[i] ELSE t[i - Len(s)]
  BY ONLY <1>2, LenProperties, ConcatProperties
<1>4. DOMAIN flow = 1 .. Len(s) + Len(t)
  BY <1>3, LenProperties
<1> HIDE DEF flow
<1>5. ASSUME NEW i \in 1 .. Len(s) + Len(t), NEW j \in 1 .. Len(s) + Len(t), i < j
      PROVE  flow[i].n < flow[j].n
  <2>1. CASE j <= Len(s)
    <3>1. i \in 1 .. Len(s) /\ j \in 1 .. Len(s) /\ flow[i] = s[i] /\ flow[j] = s[j]
      BY <1>3, <1>5, <2>1
    <3> QED BY <1>1, <1>5, <3>1 DEF Chain
  <2>2. CASE ~(j <= Len(s))
    <3>1. j - Len(s) \in 1 .. Len(t) /\ flow[j] = t[j - Len(s)]
      BY <1>3, <2>2
    <3>2. CASE i <= Len(s)
      <4>1. i \in 1 .. Len(s) /\ flow[i] = s[i]
        BY <1>3, <3>2
      <4> QED BY <1>1, <3>1, <4>1 DEF Chain
    <3>3. CASE ~(i <= Len(s))
      <4>1. i - Len(s) \in 1 .. Len(t) /\ flow[i] = t[i - Len(s)] /\ i - Len(s) < j - Len(s)
        BY <1>3, <1>5, <3>3
      <4> QED BY <1>1, <3>1, <4>1 DEF Chain
    <3> QED BY <3>2, <3>3
  <2> QED BY <2>1, <2>2
<1> QED BY <1>4, <1>5 DEF flow, s, t

-----------------------------------------------------------------------------
(* Of one run only the last lines may be missing.  The invariant: what a    *)
(* side wrote is in the order of typing and comes before what it still has  *)
(* to write; a run that has not opened the FIFO has written nothing; what   *)
(* is printed or in the FIFO was written; with a line all the earlier ones  *)
(* of its run have arrived, and while the run lasts all of its lines have.  *)
Written == \A p \in Sides : Chain(<<>>, wrote[p], buffer[p], stdin[p], typed[p])
Past ==
  \A p \in Sides : \A i \in DOMAIN wrote[p] :
    /\ wrote[p][i].by <= run[p]
    /\ pc[p] \in {"start", "reading"} => wrote[p][i].by < run[p]
Inside == \A p \in Sides : Within(printed[Other(p)], wrote[p]) /\ Within(fifo[Other(p)], wrote[p])
Whole ==
  \A p \in Sides : \A i, j \in DOMAIN wrote[p] :
    i < j /\ wrote[p][i].by = wrote[p][j].by /\ Arrived(wrote[p][j], Other(p))
      => Arrived(wrote[p][i], Other(p))
Present ==
  \A p \in Sides : IsWriter(p) =>
    \A i \in DOMAIN wrote[p] : wrote[p][i].by = run[p] => Arrived(wrote[p][i], Other(p))

SInv == Written /\ Past /\ Inside /\ Whole /\ Present

LEMMA HeldInEither ==
  ASSUME NEW s \in Seq(Lines), NEW t \in Seq(Lines), NEW l, Held(l, s \o t)
  PROVE  Held(l, s) \/ Held(l, t)
<1>1. /\ Len(s) \in Nat /\ Len(t) \in Nat /\ DOMAIN s = 1 .. Len(s) /\ DOMAIN t = 1 .. Len(t)
      /\ s \o t \in Seq(Lines) /\ Len(s \o t) = Len(s) + Len(t)
      /\ \A i \in 1 .. Len(s) + Len(t) : (s \o t)[i] = IF i <= Len(s) THEN s[i] ELSE t[i - Len(s)]
  BY LenProperties, ConcatProperties
<1>2. DOMAIN (s \o t) = 1 .. Len(s) + Len(t)
  BY <1>1, LenProperties
<1>3. PICK k \in 1 .. Len(s) + Len(t) : (s \o t)[k] = l
  BY <1>2 DEF Held
<1>4. CASE k <= Len(s)
  <2>1. k \in DOMAIN s /\ s[k] = l
    BY <1>1, <1>3, <1>4
  <2> QED BY <2>1 DEF Held
<1>5. CASE ~(k <= Len(s))
  <2>1. k - Len(s) \in DOMAIN t /\ t[k - Len(s)] = l
    BY <1>1, <1>3, <1>5
  <2> QED BY <2>1 DEF Held
<1> QED BY <1>4, <1>5

LEMMA HeldInWhole ==
  ASSUME NEW s \in Seq(Lines), NEW n \in Nat, n <= Len(s), NEW l,
         Held(l, SubSeq(s, 1, n)) \/ Held(l, SubSeq(s, n + 1, Len(s)))
  PROVE  Held(l, s)
<1> DEFINE a == SubSeq(s, 1, n)
           b == SubSeq(s, n + 1, Len(s))
<1>1. /\ a \in Seq(Lines) /\ Len(a) = n /\ \A i \in 1 .. n : a[i] = s[i]
      /\ b \in Seq(Lines) /\ Len(b) = Len(s) - n
      /\ \A i \in 1 .. Len(s) - n : b[i] = s[n + i]
  BY Cut
<1>2. DOMAIN a = 1 .. n /\ DOMAIN b = 1 .. Len(s) - n /\ DOMAIN s = 1 .. Len(s) /\ Len(s) \in Nat
  BY <1>1, LenProperties
<1>3. Held(l, a) \/ Held(l, b)
  OBVIOUS
<1> HIDE DEF a, b
<1>4. CASE Held(l, a)
  <2>1. PICK k \in 1 .. n : a[k] = l
    BY <1>2, <1>4 DEF Held
  <2>2. k \in DOMAIN s /\ s[k] = l
    BY <1>1, <1>2, <2>1
  <2> QED BY <2>2 DEF Held
<1>5. CASE Held(l, b)
  <2>1. PICK k \in 1 .. Len(s) - n : b[k] = l
    BY <1>2, <1>5 DEF Held
  <2>2. n + k \in DOMAIN s /\ s[n + k] = l
    BY <1>1, <1>2, <2>1
  <2> QED BY <2>2 DEF Held
<1> QED BY <1>3, <1>4, <1>5

-----------------------------------------------------------------------------
(* What was written stays in order. *)
LEMMA WroteTypes ==
  ASSUME CInv, NEW p \in Sides
  PROVE  ChainTypes(<<>>, wrote[p], buffer[p], stdin[p], typed[p])
BY BoundsAssumption DEF CInv, TypeOK, ChainTypes

LEMMA WrittenUntouched ==
  ASSUME Written, UNCHANGED <<wrote, buffer, stdin, typed>>
  PROVE  Written'
BY DEF Written, Chain

LEMMA WrittenType ==
  ASSUME CInv, Written, NEW p \in Sides, Type(p)
  PROVE  Written'
<1>1. /\ typed' = [typed EXCEPT ![p] = typed[p] + 1]
      /\ stdin' = [stdin EXCEPT ![p] = Append(stdin[p], typed'[p])]
      /\ typed[p] < MaxTyped /\ UNCHANGED <<wrote, buffer>>
  BY DEF Type, hist
<1>2. typed[p] + 1 \in 1 .. MaxTyped /\ typed'[p] = typed[p] + 1
      /\ stdin'[p] = Append(stdin[p], typed[p] + 1)
      /\ \A s \in Sides \ {p} : typed'[s] = typed[s] /\ stdin'[s] = stdin[s]
  BY <1>1, BoundsAssumption DEF CInv, TypeOK
<1>3. ASSUME NEW s \in Sides
      PROVE  Chain(<<>>, wrote'[s], buffer'[s], stdin'[s], typed'[s])
  <2>1. CASE s = p
    <3>1. Chain(<<>>, wrote[p], buffer[p], Append(stdin[p], typed[p] + 1), typed[p] + 1)
      BY <1>2, WroteTypes, ChainTyped DEF Written
    <3> QED BY <1>1, <1>2, <2>1, <3>1
  <2>2. CASE s # p
    BY <1>1, <1>2, <2>2 DEF Written
  <2> QED BY <2>1, <2>2
<1> QED BY <1>3 DEF Written

LEMMA WrittenEnd ==
  ASSUME CInv, Written, NEW p \in Sides, NEW reason, End(p, reason)
  PROVE  Written'
<1>1. /\ UNCHANGED <<wrote, stdin, typed>>
      /\ \A s \in Sides : buffer'[s] \in {buffer[s], <<>>}
  BY DEF End, user, CInv, TypeOK
<1>2. ASSUME NEW s \in Sides
      PROVE  Chain(<<>>, wrote'[s], buffer'[s], stdin'[s], typed'[s])
  <2>1. Chain(<<>>, wrote[s], buffer'[s], stdin[s], typed[s])
    BY <1>1, ChainLost DEF Written
  <2> QED BY <1>1, <2>1
<1> QED BY <1>2 DEF Written

LEMMA WrittenRead ==
  ASSUME CInv, Written, NEW p \in Sides, ReadStdin(p)
  PROVE  Written'
<1>1. CASE End(p, "eof")
  BY <1>1, WrittenEnd
<1>2. CASE ~End(p, "eof")
  <2>1. PICK n : /\ n = Smaller(Len(stdin[p]), BufSize)
                 /\ buffer' = [buffer EXCEPT ![p] = SubSeq(stdin[p], 1, n)]
                 /\ stdin' = [stdin EXCEPT ![p] = SubSeq(stdin[p], n + 1, Len(stdin[p]))]
                 /\ UNCHANGED <<wrote, typed>>
    BY <1>2 DEF ReadStdin, hist
  <2>2. n \in Nat /\ n <= Len(stdin[p])
    <3>1. Len(stdin[p]) \in Nat
      BY LenProperties DEF CInv, TypeOK
    <3> QED BY <2>1, <3>1, BufAssumption DEF Smaller
  <2>3. Chain(<<>>, wrote[p], SubSeq(stdin[p], 1, n),
              SubSeq(stdin[p], n + 1, Len(stdin[p])), typed[p])
    BY <2>2, WroteTypes, ChainRead DEF Written
  <2>4. /\ buffer'[p] = SubSeq(stdin[p], 1, n)
        /\ stdin'[p] = SubSeq(stdin[p], n + 1, Len(stdin[p]))
        /\ \A s \in Sides \ {p} : buffer'[s] = buffer[s] /\ stdin'[s] = stdin[s]
    BY <2>1 DEF CInv, TypeOK
  <2>5. ASSUME NEW s \in Sides
        PROVE  Chain(<<>>, wrote'[s], buffer'[s], stdin'[s], typed'[s])
    <3>1. CASE s = p
      BY <2>1, <2>3, <2>4, <3>1
    <3>2. CASE s # p
      BY <2>1, <2>4, <3>2 DEF Written
    <3> QED BY <3>1, <3>2
  <2> QED BY <2>5 DEF Written
<1> QED BY <1>1, <1>2

-----------------------------------------------------------------------------
(* A step that neither writes, prints nor drops a line. *)
LEMMA SCalm ==
  ASSUME CInv, SInv, UNCHANGED <<printed, fifo, wrote>>, Written', Past',
         \A s \in Sides : IsWriter(s)' =>
           run'[s] = run[s] /\ (IsWriter(s) \/ pc[s] = "reading")
  PROVE  SInv'
<1>1. Inside'
  BY DEF SInv, Inside, Within, Held
<1>2. \A l, s : Arrived(l, s)' = Arrived(l, s)
  BY DEF Arrived, Held
<1>3. Whole'
  BY <1>2 DEF SInv, Whole
<1>4. ASSUME NEW s \in Sides, IsWriter(s)',
             NEW i \in DOMAIN wrote[s], wrote[s][i].by = run'[s]
      PROVE  Arrived(wrote[s][i], Other(s))
  <2>1. run'[s] = run[s] /\ run[s] \in Nat
    BY <1>4 DEF CInv, TypeOK
  <2>2. pc[s] # "reading"
    BY <1>4, <2>1 DEF SInv, Past
  <2> QED BY <1>4, <2>1, <2>2 DEF SInv, Present
<1>5. Present'
  BY <1>2, <1>4 DEF Present
<1> QED BY <1>1, <1>3, <1>5 DEF SInv

LEMMA SUser ==
  ASSUME CInv, SInv, NEW p \in Sides, Start(p) \/ Type(p) \/ CloseInput(p)
  PROVE  SInv'
<1>1. /\ UNCHANGED <<printed, fifo, wrote, buffer>>
      /\ UNCHANGED <<pc, run>> \/ Start(p)
  BY DEF Start, Type, CloseInput, kernel, hist
<1>2. Written'
  <2>1. CASE Type(p)
    BY <2>1, WrittenType DEF SInv
  <2>2. CASE Start(p) \/ CloseInput(p)
    BY <2>2, WrittenUntouched DEF SInv, Start, CloseInput, hist
  <2> QED BY <2>1, <2>2
<1>3. CASE UNCHANGED <<pc, run>>
  BY <1>1, <1>2, <1>3, SCalm DEF SInv, Past, IsWriter
<1>4. CASE Start(p)
  <2>1. /\ \A s \in Sides : pc'[s] = IF s = p THEN "start" ELSE pc[s]
        /\ \A s \in Sides : run'[s] = IF s = p THEN run[s] + 1 ELSE run[s]
        /\ \A s \in Sides : run[s] \in Nat
    BY <1>4 DEF Start, CInv, TypeOK
  <2>2. \A s \in Sides : IsWriter(s)' => IsWriter(s) /\ run'[s] = run[s]
    BY <2>1 DEF IsWriter
  <2>3. \A s \in Sides : \A i \in DOMAIN wrote[s] : wrote[s][i].by \in Nat
    <3>1. \A l \in Lines : l.by \in Nat
      BY DEF Lines
    <3>2. \A s \in Sides : \A i \in DOMAIN wrote[s] : wrote[s][i] \in Lines
      BY LenProperties, ElementOfSeq DEF CInv, TypeOK
    <3> QED BY <3>1, <3>2
  <2>4. Past'
    BY <1>1, <2>1, <2>3 DEF SInv, Past
  <2> QED BY <1>1, <1>2, <2>2, <2>4, SCalm
<1> QED BY <1>1, <1>3, <1>4

LEMMA SOpens ==
  ASSUME CInv, SInv, NEW p \in Sides,
         OpenRead(p) \/ OpenWrite(p) \/ Joined(p) \/ Select(p)
  PROVE  SInv'
<1>1. UNCHANGED <<printed, fifo, wrote, buffer, stdin, typed, run>>
  BY DEF OpenRead, OpenWrite, Joined, Select, user, kernel, hist
<1>2. Written'
  BY <1>1, WrittenUntouched DEF SInv
<1>3. \/ pc[p] = "start" /\ pc' = [pc EXCEPT ![p] = "reading"]
      \/ pc[p] = "reading" /\ pc' = [pc EXCEPT ![p] = "joining"]
      \/ pc[p] = "joining" /\ pc' = [pc EXCEPT ![p] = "select"]
      \/ pc[p] = "select" /\ pc' = [pc EXCEPT ![p] = "serve"]
  BY DEF OpenRead, OpenWrite, Joined, Select
<1>4. \A s \in Sides \ {p} : pc'[s] = pc[s]
  BY <1>3 DEF CInv, TypeOK
<1>5. \/ pc[p] = "start" /\ pc'[p] = "reading"
      \/ pc[p] = "reading" /\ pc'[p] = "joining"
      \/ pc[p] = "joining" /\ pc'[p] = "select"
      \/ pc[p] = "select" /\ pc'[p] = "serve"
  BY <1>3 DEF CInv, TypeOK
<1>6. \A s \in Sides : /\ IsWriter(s)' => IsWriter(s) \/ pc[s] = "reading"
                       /\ pc'[s] \in {"start", "reading"} => pc[s] \in {"start", "reading"}
  BY <1>4, <1>5 DEF IsWriter
<1>7. Past'
  BY <1>1, <1>6 DEF SInv, Past
<1> QED BY <1>1, <1>2, <1>6, <1>7, SCalm

(* The FIFOs that nobody has open lose the last lines, never earlier ones:  *)
(* what was printed has the smaller numbers.                                *)
LEMMA SEnd ==
  ASSUME CInv, Flows, SInv, NEW p \in Sides, NEW reason, End(p, reason)
  PROVE  SInv'
<1> DEFINE q == Other(p)
<1>1. q \in Sides /\ q # p /\ Other(q) = p /\ \A s \in Sides : s = p \/ s = q
  BY TwoSides
<1>2. /\ pc' = [pc EXCEPT ![p] = "off"] /\ UNCHANGED <<printed, wrote, run>>
      /\ fifo' = [s \in Sides |-> IF (IF s = p THEN IsWriter(q) ELSE IsReader(q))
                                  THEN fifo[s] ELSE <<>>]
  BY DEF End
<1> HIDE DEF q
<1>3. \A s \in Sides : pc'[s] = IF s = p THEN "off" ELSE pc[s]
  BY <1>2 DEF CInv, TypeOK
<1>4. \A s \in Sides : fifo'[s] = fifo[s] \/ fifo'[s] = <<>>
  BY <1>2
<1>5. IsWriter(q) => fifo'[p] = fifo[p]
  BY <1>1, <1>2
<1>6. Written' /\ Past'
  BY <1>2, <1>3, WrittenEnd DEF SInv, Past
<1>7. \A l, s : Held(l, printed[s])' = Held(l, printed[s])
  BY <1>2 DEF Held
<1>8. DOMAIN <<>> = {}
  OBVIOUS
<1>9. \A l : \A s \in Sides : Held(l, fifo[s])' => Held(l, fifo[s])
  BY <1>4, <1>8 DEF Held
<1>10. Inside'
  <2>1. \A s \in Sides : Other(s) \in Sides
    BY TwoSides
  <2>2. \A s \in Sides : Within(fifo[Other(s)], wrote[s])'
    BY <1>2, <1>4, <1>8, <2>1 DEF SInv, Inside, Within, Held
  <2>3. \A s \in Sides : Within(printed[Other(s)], wrote[s])'
    BY <1>2 DEF SInv, Inside, Within, Held
  <2> QED BY <2>2, <2>3 DEF Inside
<1>11. Whole'
  <2> SUFFICES ASSUME NEW s \in Sides, NEW i \in DOMAIN wrote[s], NEW j \in DOMAIN wrote[s],
                      i < j, wrote[s][i].by = wrote[s][j].by, Arrived(wrote[s][j], Other(s))'
      PROVE  Arrived(wrote[s][i], Other(s))'
    BY <1>2 DEF Whole
  <2> DEFINE t == Other(s)
  <2>1. t \in Sides
    BY TwoSides
  <2>2. Arrived(wrote[s][j], t)
    BY <1>2, <1>7, <1>9, <2>1 DEF Arrived
  <2>3. Arrived(wrote[s][i], t)
    BY <2>2 DEF SInv, Whole
  <2> HIDE DEF t
  <2>4. CASE fifo'[t] = fifo[t]
    BY <1>2, <2>3, <2>4 DEF Arrived, Held, t
  <2>5. CASE fifo'[t] = <<>>
    <3>1. Held(wrote[s][j], printed[t])
      BY <1>2, <1>7, <1>8, <2>5 DEF Arrived, Held, t
    <3>2. wrote[s][i].n < wrote[s][j].n /\ wrote[s][i].n \in Nat /\ wrote[s][j].n \in Nat
      <4>1. wrote[s] \in Seq(Lines)
        BY DEF CInv, TypeOK
      <4>2. i \in 1 .. Len(wrote[s]) /\ j \in 1 .. Len(wrote[s])
        BY <4>1, LenProperties
      <4>3. Chain(<<>>, wrote[s], buffer[s], stdin[s], typed[s])
        BY DEF SInv, Written
      <4>4. wrote[s][i].n < wrote[s][j].n
        BY <4>2, <4>3 DEF Chain
      <4> QED BY <4>2, <4>4, WroteTypes, ChainNumbers
    <3>3. ~Held(wrote[s][i], fifo[t])
      <4> SUFFICES ASSUME Held(wrote[s][i], fifo[t]) PROVE FALSE
        OBVIOUS
      <4>1. PICK a \in DOMAIN printed[t] : printed[t][a] = wrote[s][j]
        BY <3>1 DEF Held
      <4>2. PICK b \in DOMAIN fifo[t] : fifo[t][b] = wrote[s][i]
        BY DEF Held
      <4>3. printed[t] \in Seq(Lines) /\ fifo[t] \in Seq(Lines)
        BY <2>1 DEF CInv, TypeOK
      <4>4. a \in 1 .. Len(printed[t]) /\ b \in 1 .. Len(fifo[t])
        BY <4>3, LenProperties
      <4>5. Chain(printed[t], fifo[t], buffer[s], stdin[s], typed[s])
        BY DEF Flows, t
      <4>6. printed[t][a].n < fifo[t][b].n
        BY <4>4, <4>5 DEF Chain
      <4> QED BY <3>2, <4>1, <4>2, <4>6
    <3>4. Held(wrote[s][i], printed[t])
      BY <2>3, <3>3 DEF Arrived
    <3> QED BY <1>2, <1>7, <3>4 DEF Arrived, t
  <2> QED BY <1>4, <2>1, <2>4, <2>5
<1>12. Present'
  <2>1. ~IsWriter(p)' /\ (IsWriter(q)' => IsWriter(q))
    BY <1>1, <1>3 DEF IsWriter
  <2>2. IsWriter(q)' => \A i \in DOMAIN wrote[q] : wrote[q][i].by = run[q] => Arrived(wrote[q][i], p)'
    BY <1>1, <1>2, <1>5, <2>1 DEF SInv, Present, Arrived, Held
  <2> QED BY <1>1, <1>2, <2>1, <2>2 DEF Present
<1> QED BY <1>6, <1>10, <1>11, <1>12 DEF SInv

LEMMA SRead ==
  ASSUME CInv, Flows, SInv, NEW p \in Sides, ReadStdin(p)
  PROVE  SInv'
<1>1. CASE End(p, "eof")
  BY <1>1, SEnd
<1>2. CASE ~End(p, "eof")
  <2>1. pc[p] = "serve" /\ pc' = [pc EXCEPT ![p] = "write"] /\ UNCHANGED <<printed, wrote, fifo, run>>
    BY <1>2 DEF ReadStdin, kernel, hist
  <2>2. \A s \in Sides : pc'[s] = IF s = p THEN "write" ELSE pc[s]
    BY <2>1 DEF CInv, TypeOK
  <2>3. \A s \in Sides : IsWriter(s)' => IsWriter(s)
    BY <2>1, <2>2 DEF IsWriter
  <2>4. Written'
    BY WrittenRead DEF SInv
  <2>5. Past'
    BY <2>1, <2>2 DEF SInv, Past
  <2> QED BY <2>1, <2>3, <2>4, <2>5, SCalm
<1> QED BY <1>1, <1>2

-----------------------------------------------------------------------------
(* A write joins its lines to those of its run, all of which have arrived.  *)
LEMMA SWrite ==
  ASSUME CInv, SInv, NEW p \in Sides, Write(p)
  PROVE  SInv'
<1> DEFINE q == Other(p)
           lines == [i \in 1 .. Len(buffer[p]) |->
                       [n |-> buffer[p][i], by |-> run[p], to |-> run[q]]]
           old == wrote[p]
           new == old \o lines
           Now(l, s) == Held(l, printed'[s]) \/ Held(l, fifo'[s])
<1>1. q \in Sides /\ q # p /\ Other(q) = p /\ \A s \in Sides : s = p \/ s = q
  BY TwoSides
<1>2. /\ IsReader(q) /\ pc[p] = "write" /\ fifo' = [fifo EXCEPT ![q] = fifo[q] \o lines]
      /\ wrote' = [wrote EXCEPT ![p] = new] /\ pc' = [pc EXCEPT ![p] = AfterStdin(p)]
      /\ buffer' = [buffer EXCEPT ![p] = <<>>] /\ UNCHANGED <<stdin, typed, printed, run>>
  BY DEF Write, user
<1>3. run[p] \in Nat \ {0} /\ run[q] \in Nat \ {0}
  <2>1. pc[q] # "off" /\ pc[p] # "off"
    BY <1>2 DEF IsReader
  <2>2. run[p] > 0 /\ run[q] > 0
    BY <1>1, <2>1 DEF CInv, Started
  <2> QED BY <1>1, <2>2 DEF CInv, TypeOK
<1>4. buffer[p] \in Seq(1 .. MaxTyped) /\ Len(buffer[p]) \in Nat
  BY LenProperties DEF CInv, TypeOK
<1>5. \A i \in 1 .. Len(buffer[p]) :
        [n |-> buffer[p][i], by |-> run[p], to |-> run[q]] \in Lines
  BY <1>3, <1>4, ElementOfSeq DEF Lines
<1>6. /\ lines \in Seq(Lines) /\ Len(lines) = Len(buffer[p])
      /\ \A i \in 1 .. Len(buffer[p]) : lines[i].n = buffer[p][i] /\ lines[i].by = run[p]
  BY <1>4, <1>5
<1>7. old \in Seq(Lines) /\ fifo[q] \in Seq(Lines)
  BY <1>1 DEF CInv, TypeOK
<1> HIDE DEF q, lines, old
<1>8. /\ Len(old) \in Nat /\ Len(lines) \in Nat
      /\ Len(new) = Len(old) + Len(lines) /\ new \in Seq(Lines)
      /\ \A i \in 1 .. Len(old) + Len(lines) : new[i] = IF i <= Len(old) THEN old[i] ELSE lines[i - Len(old)]
  <2>1. lines \in Seq(Lines)
    BY <1>6
  <2>2. old \o lines \in Seq(Lines)
    BY ONLY <1>7, <2>1, ConcatProperties
  <2>3. /\ Len(old \o lines) = Len(old) + Len(lines)
        /\ \A i \in 1 .. Len(old) + Len(lines) :
             (old \o lines)[i] = IF i <= Len(old) THEN old[i] ELSE lines[i - Len(old)]
    BY ONLY <1>7, <2>1, ConcatProperties
  <2>4. Len(old) \in Nat /\ Len(lines) \in Nat
    BY ONLY <1>7, <2>1, LenProperties
  <2> QED BY <2>2, <2>3, <2>4
<1>9. /\ DOMAIN new = 1 .. Len(old) + Len(lines) /\ DOMAIN old = 1 .. Len(old)
      /\ DOMAIN lines = 1 .. Len(lines) /\ Len(lines) \in Nat
  BY <1>6, <1>7, <1>8, LenProperties
<1> HIDE DEF new
<1>10. ASSUME NEW i \in DOMAIN new
       PROVE  \/ i \in DOMAIN old /\ new[i] = old[i]
              \/ i \notin DOMAIN old /\ i - Len(old) \in DOMAIN lines /\ new[i] = lines[i - Len(old)]
  BY <1>8, <1>9
<1>11. /\ wrote'[p] = new /\ wrote'[q] = wrote[q] /\ fifo'[q] = fifo[q] \o lines /\ fifo'[p] = fifo[p]
       /\ buffer'[p] = <<>> /\ buffer'[q] = buffer[q] /\ pc'[q] = pc[q] /\ pc'[p] \in {"serve", "select"}
  BY <1>1, <1>2 DEF CInv, TypeOK, AfterStdin
<1>12. Written'
  <2>1. Chain(<<>>, new, <<>>, stdin[p], typed[p])
    <3>1. Chain(<<>>, old, buffer[p], stdin[p], typed[p])
          /\ ChainTypes(<<>>, old, buffer[p], stdin[p], typed[p])
      BY WroteTypes DEF SInv, Written, old
    <3> QED BY <1>6, <3>1, ChainWrite DEF new
  <2>2. Chain(<<>>, wrote[q], buffer[q], stdin[q], typed[q])
    BY <1>1 DEF SInv, Written
  <2>3. ASSUME NEW s \in Sides
        PROVE  Chain(<<>>, wrote'[s], buffer'[s], stdin'[s], typed'[s])
    <3>1. CASE s = p
      BY <1>2, <1>11, <2>1, <3>1
    <3>2. CASE s = q
      BY <1>2, <1>11, <2>2, <3>2
    <3> QED BY <1>1, <3>1, <3>2
  <2> QED BY <2>3 DEF Written
<1>13. Past'
  <2>1. \A i \in DOMAIN old : old[i].by <= run[p]
    BY DEF SInv, Past, old
  <2>5. \A i \in DOMAIN lines : lines[i].by = run[p] /\ run[p] <= run[p]
    BY <1>3, <1>6, <1>9
  <2>6. \A i \in DOMAIN new : new[i].by <= run[p]
    BY <1>10, <2>1, <2>5
  <2>2. \A i \in DOMAIN wrote[q] : /\ wrote[q][i].by <= run[q]
                                   /\ pc'[q] \in {"start", "reading"} => wrote[q][i].by < run[q]
    BY <1>1, <1>11 DEF SInv, Past
  <2> QED BY <1>1, <1>2, <1>11, <2>2, <2>6 DEF Past
<1>14. \A l : Held(l, old) \/ Held(l, lines) => Held(l, new)
  BY <1>6, <1>7, HeldInConcat DEF new
<1>15. \A l : Held(l, fifo[q]) \/ Held(l, lines) <=> Held(l, fifo[q] \o lines)
  BY <1>6, <1>7, HeldInConcat, HeldInEither
<1>16. \A l : Arrived(l, q) \/ Held(l, lines) <=> Now(l, q)
  BY <1>2, <1>11, <1>15 DEF Arrived
<1>17. \A l : Now(l, p) <=> Arrived(l, p)
  BY <1>2, <1>11 DEF Arrived
<1>18. Inside'
  <2>1. Within(printed[q], old) /\ Within(fifo[q], old)
    BY DEF SInv, Inside, q, old
  <2>2. Within(printed[q], new)
    BY <1>14, <2>1 DEF Within
  <2>3. ASSUME NEW k \in DOMAIN (fifo[q] \o lines)
        PROVE  Held((fifo[q] \o lines)[k], new)
    <3> DEFINE l == (fifo[q] \o lines)[k]
    <3>1. Held(l, fifo[q] \o lines)
      BY DEF Held
    <3>2. Held(l, fifo[q]) => Held(l, old)
      BY <2>1 DEF Within, Held
    <3> QED BY <1>14, <1>15, <3>1, <3>2
  <2>4. Within(fifo[q] \o lines, new)
    BY <2>3 DEF Within
  <2>5. Within(printed[p], wrote[q]) /\ Within(fifo[p], wrote[q])
    BY <1>1 DEF SInv, Inside
  <2> QED BY <1>1, <1>2, <1>11, <2>2, <2>4, <2>5 DEF Inside, q
<1>19. \A i \in DOMAIN old : old[i].by = run[p] => Arrived(old[i], q)
  BY <1>2 DEF SInv, Present, IsWriter, old, q
<1>20. \A i \in DOMAIN new : new[i].by = run[p] => Now(new[i], q)
  <2> SUFFICES ASSUME NEW i \in DOMAIN new, new[i].by = run[p]
      PROVE  Now(new[i], q)
    OBVIOUS
  <2>1. CASE i \in DOMAIN old
    <3>1. Arrived(new[i], q)
      BY <1>10, <1>19, <2>1
    <3> QED BY <1>16, <3>1
  <2>2. CASE i \notin DOMAIN old
    <3>1. Held(new[i], lines)
      BY <1>10, <2>2 DEF Held
    <3> QED BY <1>16, <3>1
  <2> QED BY <2>1, <2>2
<1>21. ASSUME NEW i \in DOMAIN new, NEW j \in DOMAIN new, i < j,
              new[i].by = new[j].by, Now(new[j], q)
       PROVE  Now(new[i], q)
  <2>1. CASE new[j].by = run[p]
    BY <1>20, <1>21, <2>1
  <2>2. CASE new[j].by # run[p]
    <3>1. /\ i \in DOMAIN old /\ new[i] = old[i]
          /\ j \in DOMAIN old /\ new[j] = old[j]
      BY <1>6, <1>9, <1>10, <1>21, <2>2
    <3>2. ~Held(new[j], lines)
      BY <1>6, <1>9, <2>2 DEF Held
    <3>3. Arrived(old[j], q)
      BY <1>16, <1>21, <3>1, <3>2
    <3>4. Arrived(old[i], q)
      BY <1>21, <3>1, <3>3 DEF SInv, Whole, old, q
    <3> QED BY <1>16, <3>1, <3>4
  <2> QED BY <2>1, <2>2
<1>22. Whole'
  <2>1. ASSUME NEW i \in DOMAIN wrote[q], NEW j \in DOMAIN wrote[q], i < j,
               wrote[q][i].by = wrote[q][j].by, Now(wrote[q][j], p)
        PROVE  Now(wrote[q][i], p)
    BY <1>1, <1>17, <2>1 DEF SInv, Whole
  <2>2. ASSUME NEW s \in Sides, NEW i \in DOMAIN wrote'[s], NEW j \in DOMAIN wrote'[s], i < j,
               wrote'[s][i].by = wrote'[s][j].by, Now(wrote'[s][j], Other(s))
        PROVE  Now(wrote'[s][i], Other(s))
    <3>1. CASE s = p
      <4>1. wrote'[s] = new /\ Other(s) = q
        BY <1>11, <3>1 DEF q
      <4>2. Now(new[j], q) => Now(new[i], q)
        BY <1>21, <2>2, <4>1
      <4> QED BY <2>2, <4>1, <4>2
    <3>2. CASE s = q
      <4>1. wrote'[s] = wrote[q] /\ Other(s) = p
        BY <1>1, <1>11, <3>2
      <4>2. Now(wrote[q][j], p) => Now(wrote[q][i], p)
        BY <2>1, <2>2, <4>1
      <4> QED BY <2>2, <4>1, <4>2
    <3> QED BY <1>1, <3>1, <3>2
  <2> QED BY <2>2 DEF Whole, Arrived, Held
<1>23. Present'
  <2>1. IsWriter(q)' => \A i \in DOMAIN wrote[q] : wrote[q][i].by = run[q] => Now(wrote[q][i], p)
    <3>1. IsWriter(q)' => IsWriter(q)
      BY <1>11 DEF IsWriter
    <3> QED BY <1>1, <1>17, <3>1 DEF SInv, Present
  <2>2. ASSUME NEW s \in Sides, IsWriter(s)', NEW i \in DOMAIN wrote'[s], wrote'[s][i].by = run[s]
        PROVE  Now(wrote'[s][i], Other(s))
    <3>1. CASE s = p
      <4>1. wrote'[s] = new /\ Other(s) = q
        BY <1>11, <3>1 DEF q
      <4>2. Now(new[i], q)
        BY <1>20, <2>2, <3>1, <4>1
      <4> QED BY <4>1, <4>2
    <3>2. CASE s = q
      <4>1. wrote'[s] = wrote[q] /\ Other(s) = p
        BY <1>1, <1>11, <3>2
      <4>2. Now(wrote[q][i], p)
        BY <2>1, <2>2, <3>2, <4>1
      <4> QED BY <4>1, <4>2
    <3> QED BY <1>1, <3>1, <3>2
  <2> QED BY <1>2, <2>2 DEF Present, Arrived, Held
<1> QED BY <1>12, <1>13, <1>18, <1>22, <1>23 DEF SInv

(* What is taken from the FIFO and printed has arrived as before.           *)
LEMMA STake ==
  ASSUME CInv, SInv, NEW p \in Sides, pc[p] = "serve", TakeLines(p)
  PROVE  SInv'
<1> DEFINE q == Other(p)
           n == Smaller(Len(fifo[p]), BufSize)
           taken == SubSeq(fifo[p], 1, n)
           rest == SubSeq(fifo[p], n + 1, Len(fifo[p]))
<1>1. q \in Sides /\ q # p /\ Other(q) = p /\ \A s \in Sides : s = p \/ s = q
  BY TwoSides
<1>2. /\ printed' = [printed EXCEPT ![p] = printed[p] \o taken]
      /\ fifo' = [fifo EXCEPT ![p] = rest] /\ pc' = [pc EXCEPT ![p] = "select"]
      /\ UNCHANGED <<buffer, stdin, typed, wrote, run>>
  BY DEF TakeLines, user
<1>3. fifo[p] \in Seq(Lines) /\ printed[p] \in Seq(Lines)
  BY DEF CInv, TypeOK
<1>4. n \in Nat /\ n <= Len(fifo[p])
  <2>1. Len(fifo[p]) \in Nat
    BY <1>3, LenProperties
  <2> QED BY <2>1, BufAssumption DEF Smaller
<1> HIDE DEF n, q
<1>5. taken \in Seq(Lines) /\ rest \in Seq(Lines)
  BY <1>3, <1>4, Cut
<1>6. \A l : Held(l, taken) \/ Held(l, rest) <=> Held(l, fifo[p])
  BY <1>3, <1>4, HeldInPart, HeldInWhole
<1> HIDE DEF taken, rest
<1>7. \A l : Held(l, printed[p] \o taken) <=> Held(l, printed[p]) \/ Held(l, taken)
  BY <1>3, <1>5, HeldInConcat, HeldInEither
<1>8. /\ printed'[p] = printed[p] \o taken /\ printed'[q] = printed[q]
      /\ fifo'[p] = rest /\ fifo'[q] = fifo[q]
  BY <1>1, <1>2 DEF CInv, TypeOK
<1>9. \A l : Arrived(l, p)' <=> Arrived(l, p)
  <2>1. \A l : Held(l, printed[p])' <=> Held(l, printed[p] \o taken)
    BY <1>8 DEF Held
  <2>2. \A l : Held(l, fifo[p])' <=> Held(l, rest)
    BY <1>8 DEF Held
  <2> QED BY <1>6, <1>7, <2>1, <2>2 DEF Arrived
<1>10. \A l : Arrived(l, q)' <=> Arrived(l, q)
  BY <1>8 DEF Arrived, Held
<1>11. Inside'
  <2>1. /\ Within(printed[p], wrote[q]) /\ Within(fifo[p], wrote[q])
        /\ Within(printed[q], wrote[p]) /\ Within(fifo[q], wrote[p])
    BY <1>1 DEF SInv, Inside, q
  <2>2. \A l : Held(l, printed[p]) \/ Held(l, fifo[p]) => Held(l, wrote[q])
    BY <2>1 DEF Within, Held
  <2>3. \A k \in DOMAIN rest : Held(rest[k], rest)
    BY DEF Held
  <2>4. Within(rest, wrote[q])
    BY <1>6, <2>2, <2>3 DEF Within
  <2>5. \A k \in DOMAIN (printed[p] \o taken) : Held((printed[p] \o taken)[k], printed[p] \o taken)
    BY DEF Held
  <2>6. Within(printed[p] \o taken, wrote[q])
    BY <1>6, <1>7, <2>2, <2>5 DEF Within
  <2> QED BY <1>1, <1>2, <1>8, <2>1, <2>4, <2>6 DEF Inside, q
<1>12. \A l : \A s \in Sides : Arrived(l, s)' <=> Arrived(l, s)
  BY <1>1, <1>9, <1>10
<1>13. \A s \in Sides : Other(s) \in Sides
  BY TwoSides
<1>14. Whole'
  BY <1>2, <1>12, <1>13 DEF SInv, Whole
<1>15. \A s \in Sides : pc'[s] = IF s = p THEN "select" ELSE pc[s]
  BY <1>2 DEF CInv, TypeOK
<1>16. \A s \in Sides : IsWriter(s)' => IsWriter(s)
  BY <1>15 DEF IsWriter
<1>17. Present'
  BY <1>2, <1>12, <1>13, <1>16 DEF SInv, Present
<1>18. Past'
  BY <1>2, <1>15 DEF SInv, Past
<1>19. Written'
  BY <1>2, WrittenUntouched DEF SInv
<1> QED BY <1>11, <1>14, <1>17, <1>18, <1>19 DEF SInv

LEMMA SInit == Init => SInv
<1> SUFFICES ASSUME Init PROVE SInv
  OBVIOUS
<1>1. Len(<<>>) = 0 /\ 1 .. 0 = {} /\ DOMAIN <<>> = {}
  OBVIOUS
<1>2. \A s \in Sides : /\ Other(s) \in Sides /\ wrote[s] = <<>> /\ printed[s] = <<>> /\ fifo[s] = <<>>
                       /\ buffer[s] = <<>> /\ stdin[s] = <<>>
  BY TwoSides DEF Init
<1>3. Written
  BY <1>1, <1>2 DEF Written, Chain
<1>4. Past /\ Inside /\ Whole /\ Present
  BY <1>1, <1>2 DEF Past, Inside, Within, Whole, Present
<1> QED BY <1>3, <1>4 DEF SInv

LEMMA SNext == CInv /\ Flows /\ SInv /\ [Next]_vars => SInv'
<1> SUFFICES ASSUME CInv, Flows, SInv, [Next]_vars PROVE SInv'
  OBVIOUS
<1>1. CASE UNCHANGED vars
  <2>1. UNCHANGED <<pc, run, buffer, typed, stdin, fifo, wrote, printed>>
    BY <1>1 DEF vars, user, kernel, hist
  <2>2. Written' /\ Past'
    BY <2>1, WrittenUntouched DEF SInv, Past
  <2> QED BY <2>1, <2>2, SCalm DEF IsWriter
<1>2. ASSUME NEW p \in Sides, Program(p)
      PROVE  SInv'
  <2>1. CASE BrokenPipe(p)
    BY <2>1, SEnd DEF BrokenPipe
  <2>2. CASE ReadFifo(p)
    BY <2>2, SEnd, STake DEF ReadFifo
  <2> QED BY <1>2, <2>1, <2>2, SOpens, SRead, SWrite DEF Program
<1>3. ASSUME NEW p \in Sides, User(p)
      PROVE  SInv'
  <2>1. CASE Interrupt(p)
    BY <2>1, SEnd DEF Interrupt
  <2> QED BY <1>3, <2>1, SUser DEF User
<1> QED BY <1>1, <1>2, <1>3 DEF Next

LEMMA SKeeps == CInv /\ Flows /\ SInv => StreamKept
<1> SUFFICES ASSUME CInv, Flows, SInv PROVE StreamKept
  OBVIOUS
<1>1. LinesInOrder
  BY FlowsOrder
<1>2. ASSUME NEW p \in Sides, NEW i \in DOMAIN wrote[p], NEW j \in DOMAIN wrote[p], i < j
      PROVE  wrote[p][i].n < wrote[p][j].n
  <2>1. wrote[p] \in Seq(Lines)
    BY DEF CInv, TypeOK
  <2>2. i \in 1 .. Len(wrote[p]) /\ j \in 1 .. Len(wrote[p])
    BY <2>1, LenProperties
  <2>3. Chain(<<>>, wrote[p], buffer[p], stdin[p], typed[p])
    BY DEF SInv, Written
  <2> QED BY <1>2, <2>2, <2>3 DEF Chain
<1> QED BY <1>1, <1>2 DEF SInv, StreamKept, Inside, Whole, Present

(* Whatever leaves and comes back, a side prints the lines of the other one *)
(* in the order they were typed, none of them twice and no other line; of   *)
(* one run of the writer only the last lines may be lost, when a FIFO that  *)
(* nobody has open is emptied, and none while that run lasts.               *)
THEOREM StreamHolds == Spec => []StreamKept
<1> QED BY CInit, NextInv, FlowsInit, FlowsNext, SInit, SNext, SKeeps, PTL DEF Spec
=============================================================================
