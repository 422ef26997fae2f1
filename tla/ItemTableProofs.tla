--------------------------- MODULE ItemTableProofs ---------------------------
(***************************************************************************)
(* Proofs about ItemTable, for any processes, names and number of runs,    *)
(* and about ItemJoin (as J, from MCItemTable), for any tables and files.  *)
(***************************************************************************)
EXTENDS MCItemTable, SumTheorems, SequenceTheorems, TLAPS

(* The inductive invariant.  Offsets stay inside the file, which only       *)
(* grows, *)
OffsetsOK ==
  \A p \in Procs :
    /\ off[p] <= Len(table)
    /\ pc[p] \in {"read", "store", "astray", "show"} => off[p] < Len(table)

OneAtATime == \A p, q \in Procs : pc[p] # "idle" /\ pc[q] # "idle" => p = q

(* every short name has one record with its number of adds, *)
Exact(n) ==
  /\ \A i, j \in 1 .. Len(table) : table[i].name = n /\ table[j].name = n => i = j
  /\ \A i \in 1 .. Len(table) : table[i].name = n => table[i].count = adds[n]
  /\ adds[n] > 0 => \E i \in 1 .. Len(table) : table[i].name = n

(* and a process that runs alone knows where its record is, or that it is   *)
(* not in the part of the file it has read.                                 *)
Progress(p) ==
  /\ pc[p] = "find" /\ item[p] \in Short =>
       \A i \in 1 .. Len(table) : i <= off[p] => table[i].name # item[p]
  /\ pc[p] \in {"end", "append"} /\ item[p] \in Short =>
       \A i \in 1 .. Len(table) : table[i].name # item[p]
  /\ pc[p] = "append" => off[p] = Len(table)
  /\ pc[p] \in {"read", "store", "astray", "show"} => table[off[p] + 1].name = item[p]
  /\ pc[p] = "store" => seen[p] = table[off[p] + 1].count

AloneInv ==
  ~overlapped =>
    /\ OneAtATime
    /\ \A n \in Short : Exact(n)
    /\ \A p \in Procs : Progress(p)

IInv == TypeOK /\ OffsetsOK /\ AloneInv

-----------------------------------------------------------------------------
(* Lemmas *)

LEMMA TableFacts ==
  ASSUME TypeOK
  PROVE  /\ table \in Seq(Record) /\ Len(table) \in Nat /\ DOMAIN table = 1 .. Len(table)
         /\ \A i \in 1 .. Len(table) : table[i] \in Record
<1>1. table \in Seq(Record)
  BY DEF TypeOK, Record
<1> QED BY <1>1, LenProperties, ElementOfSeq

(* A write of one record changes that record alone, or appends it. *)
LEMMA PutFacts ==
  ASSUME TypeOK, NEW i \in 1 .. Len(table) + 1, NEW r \in Record
  PROVE  /\ Put(i, r) \in Seq(Record)
         /\ Len(Put(i, r)) = IF i <= Len(table) THEN Len(table) ELSE Len(table) + 1
         /\ \A j \in 1 .. Len(Put(i, r)) : Put(i, r)[j] = IF j = i THEN r ELSE table[j]
<1>1. table \in Seq(Record) /\ Len(table) \in Nat
  BY TableFacts
<1>2. CASE i <= Len(table)
  <2>1. i \in 1 .. Len(table)
    BY <1>1, <1>2
  <2> QED BY <1>1, <1>2, <2>1, ExceptSeq DEF Put
<1>3. CASE ~(i <= Len(table))
  <2>1. i = Len(table) + 1
    BY <1>1, <1>3
  <2>2. Put(i, r) = Append(table, r)
    BY <1>3 DEF Put
  <2>3. /\ Append(table, r) \in Seq(Record) /\ Len(Append(table, r)) = Len(table) + 1
        /\ \A j \in 1 .. Len(table) : Append(table, r)[j] = table[j]
        /\ Append(table, r)[Len(table) + 1] = r
    BY <1>1, AppendProperties
  <2>4. \A j \in 1 .. Len(table) + 1 : j \in 1 .. Len(table) \/ j = Len(table) + 1
    BY <1>1
  <2> QED BY <1>1, <1>3, <2>1, <2>2, <2>3, <2>4
<1> QED BY <1>2, <1>3

-----------------------------------------------------------------------------
LEMMA InitInv == Init => IInv
<1> SUFFICES ASSUME Init PROVE IInv
  OBVIOUS
<1>1. table = << >> /\ Len(table) = 0 /\ table \in Seq(Record)
  BY EmptySeq DEF Init
<1>2. TypeOK
  <2>1. runs \in 0 .. MaxRuns
    BY RunsAssumption DEF Init
  <2>2. item \in [Procs -> Names] /\ adds \in [Names -> Nat]
    BY DEF Init
  <2> QED BY <1>1, <2>1, <2>2 DEF Init, TypeOK, Record
<1>3. OffsetsOK
  BY <1>1 DEF Init, OffsetsOK
<1>4. OneAtATime
  BY DEF Init, OneAtATime
<1>5. ASSUME NEW n \in Short PROVE Exact(n)
  <2>1. adds[n] = 0
    BY DEF Init, Names
  <2> QED BY <1>1, <2>1 DEF Exact
<1>6. ASSUME NEW p \in Procs PROVE Progress(p)
  BY DEF Init, Progress
<1> QED BY <1>2, <1>3, <1>4, <1>5, <1>6 DEF IInv, AloneInv

(* The actions that leave the names and counts of the file alone. *)
SameFile ==
  /\ Len(table') = Len(table)
  /\ \A i \in 1 .. Len(table) : table'[i].name = table[i].name /\ table'[i].count = table[i].count

LEMMA FileKept ==
  ASSUME IInv, NEW p \in Procs, SameFile, adds' = adds, TypeOK',
         overlapped' = overlapped,
         \A q \in Procs \ {p} :
           pc'[q] = pc[q] /\ item'[q] = item[q] /\ off'[q] = off[q] /\ seen'[q] = seen[q],
         pc[p] # "idle",
         off'[p] <= Len(table),
         pc'[p] \in {"read", "store", "astray", "show"} => off'[p] < Len(table),
         ~overlapped => Progress(p)'
  PROVE  IInv'
<1>0. Len(table) \in Nat
  BY TableFacts DEF IInv
<1>1. OffsetsOK'
  BY DEF IInv, OffsetsOK, SameFile
<1>2. AloneInv'
  <2> SUFFICES ASSUME ~overlapped'
               PROVE  OneAtATime' /\ (\A n \in Short : Exact(n)') /\ \A q \in Procs : Progress(q)'
    BY DEF AloneInv
  <2>1. OneAtATime /\ (\A n \in Short : Exact(n)) /\ \A q \in Procs : Progress(q)
    BY DEF IInv, AloneInv
  <2>2. OneAtATime'
    BY <2>1 DEF OneAtATime
  <2>3. ASSUME NEW n \in Short PROVE Exact(n)'
    <3>1. Exact(n)
      BY <2>1
    <3> QED BY <3>1 DEF Exact, SameFile
  <2>4. ASSUME NEW q \in Procs PROVE Progress(q)'
    <3>1. CASE q = p
      BY <3>1
    <3>2. CASE q # p
      <4>1. pc'[q] = pc[q] /\ item'[q] = item[q] /\ off'[q] = off[q] /\ seen'[q] = seen[q]
        BY <3>2
      <4>2. Progress(q)
        BY <2>1
      <4>3. pc[q] \in {"read", "store", "astray", "show"} => off[q] + 1 \in 1 .. Len(table)
        BY <1>0 DEF IInv, OffsetsOK, TypeOK
      <4> QED BY <1>0, <4>1, <4>2, <4>3 DEF Progress, SameFile
    <3> QED BY <3>1, <3>2
  <2> QED BY <2>2, <2>3, <2>4
<1> QED BY <1>1, <1>2 DEF IInv

-----------------------------------------------------------------------------
(* The steps *)

LEMMA RunStep ==
  ASSUME IInv, NEW p \in Procs, NEW c \in {"add", "query"}, NEW n \in Names, Run(p, c, n)
  PROVE  IInv'
<1>1. TypeOK /\ Len(table) \in Nat
  BY TableFacts DEF IInv
<1>2. TypeOK'
  <2>1. runs' \in 0 .. MaxRuns
    BY <1>1, RunsAssumption DEF TypeOK, Run
  <2>2. pc' \in [Procs -> {"idle", "find", "end", "append", "read", "store", "astray", "show"}]
        /\ cmd' \in [Procs -> {"add", "query"}] /\ item' \in [Procs -> Names]
        /\ off' \in [Procs -> Nat] /\ answer' \in [Procs -> Nat \union {None}]
    BY <1>1 DEF TypeOK, Run
  <2>3. overlapped' \in BOOLEAN
    BY <1>1, Zenon DEF TypeOK, Run
  <2> QED BY <1>1, <2>1, <2>2, <2>3 DEF TypeOK, Run
<1>3. /\ pc'[p] = "find" /\ off'[p] = 0 /\ table' = table /\ adds' = adds
      /\ \A q \in Procs \ {p} :
           pc'[q] = pc[q] /\ item'[q] = item[q] /\ off'[q] = off[q] /\ seen'[q] = seen[q]
  BY <1>1 DEF TypeOK, Run
<1>4. OffsetsOK'
  BY <1>1, <1>3 DEF IInv, OffsetsOK
<1>5. AloneInv'
  <2> SUFFICES ASSUME ~overlapped'
               PROVE  OneAtATime' /\ (\A m \in Short : Exact(m)') /\ \A q \in Procs : Progress(q)'
    BY DEF AloneInv
  <2>1. ~overlapped /\ \A q \in Procs : pc[q] = "idle"
    BY DEF Run
  <2>2. \A m \in Short : Exact(m)
    BY <2>1 DEF IInv, AloneInv
  <2>3. OneAtATime'
    BY <1>3, <2>1 DEF OneAtATime
  <2>4. ASSUME NEW m \in Short PROVE Exact(m)'
    BY <1>3, <2>2 DEF Exact
  <2>5. ASSUME NEW q \in Procs PROVE Progress(q)'
    <3>1. CASE q = p
      BY <1>1, <1>3, <3>1 DEF Progress
    <3>2. CASE q # p
      <4>1. pc'[q] = "idle"
        BY <1>3, <2>1, <3>2
      <4> QED BY <4>1 DEF Progress
    <3> QED BY <3>1, <3>2
  <2> QED BY <2>3, <2>4, <2>5
<1> QED BY <1>2, <1>4, <1>5 DEF IInv

LEMMA FindNextStep ==
  ASSUME IInv, NEW p \in Procs, FindNext(p)
  PROVE  IInv'
<1>1. /\ TypeOK /\ Len(table) \in Nat /\ off[p] \in Nat /\ off[p] < Len(table)
      /\ pc[p] = "find" /\ table' = table /\ item' = item /\ seen' = seen
  BY TableFacts DEF IInv, TypeOK, FindNext
<1>2. TypeOK'
  <2>1. off' \in [Procs -> Nat]
    BY <1>1 DEF TypeOK, FindNext, hist
  <2>2. pc' \in [Procs -> {"idle", "find", "end", "append", "read", "store", "astray", "show"}]
    BY <1>1 DEF TypeOK, FindNext, hist
  <2> QED BY <1>1, <2>1, <2>2 DEF TypeOK, FindNext, hist
<1>3. \A q \in Procs \ {p} : pc'[q] = pc[q] /\ off'[q] = off[q]
  BY <1>1 DEF TypeOK, FindNext, hist
<1>4. CASE Same(item[p], table[off[p] + 1])
  <2>1. off'[p] = off[p] /\ pc'[p] \in {"read", "show"}
    BY <1>1, <1>4 DEF TypeOK, FindNext, hist
  <2>2. table[off[p] + 1].name = item[p]
    BY <1>4 DEF Same
  <2>3. Progress(p)'
    BY <1>1, <2>1, <2>2 DEF Progress
  <2> QED BY <1>1, <1>2, <1>3, <2>1, <2>3, FileKept DEF FindNext, SameFile, hist
<1>5. CASE ~Same(item[p], table[off[p] + 1])
  <2>1. off'[p] = off[p] + 1 /\ pc'[p] = "find"
    BY <1>1, <1>5 DEF TypeOK, FindNext, hist
  <2>2. ASSUME ~overlapped PROVE Progress(p)'
    <3>1. Progress(p)
      BY <2>2 DEF IInv, AloneInv
    <3>2. ASSUME item[p] \in Short, NEW i \in 1 .. Len(table), i <= off[p] + 1
          PROVE  table[i].name # item[p]
      <4>1. CASE i <= off[p]
        BY <1>1, <3>1, <3>2, <4>1 DEF Progress
      <4>2. CASE i = off[p] + 1
        <5>1. item[p] \notin Full
          BY <3>2, NamesAssumption
        <5> QED BY <1>5, <4>2, <5>1 DEF Same
      <4> QED BY <1>1, <3>2, <4>1, <4>2
    <3> QED BY <1>1, <2>1, <3>2 DEF Progress
  <2>3. off'[p] <= Len(table)
    BY <1>1, <2>1
  <2> QED BY <1>1, <1>2, <1>3, <2>1, <2>2, <2>3, FileKept DEF FindNext, SameFile, hist
<1> QED BY <1>4, <1>5

LEMMA FindNothingStep ==
  ASSUME IInv, NEW p \in Procs, FindNothing(p)
  PROVE  IInv'
<1>1. /\ TypeOK /\ Len(table) \in Nat /\ off[p] \in Nat /\ off[p] = Len(table)
      /\ pc[p] = "find" /\ table' = table /\ item' = item /\ seen' = seen /\ off' = off
  BY TableFacts DEF IInv, TypeOK, FindNothing, OffsetsOK
<1>2. TypeOK'
  BY <1>1 DEF TypeOK, FindNothing, hist
<1>3. pc'[p] \in {"end", "idle"} /\ \A q \in Procs \ {p} : pc'[q] = pc[q]
  BY <1>1 DEF TypeOK, FindNothing, hist
<1>4. ASSUME ~overlapped PROVE Progress(p)'
  <2>1. Progress(p)
    BY <1>4 DEF IInv, AloneInv
  <2>2. ASSUME item[p] \in Short, NEW i \in 1 .. Len(table)
        PROVE  table[i].name # item[p]
    BY <1>1, <2>1, <2>2 DEF Progress
  <2> QED BY <1>1, <1>3, <2>2 DEF Progress
<1> QED BY <1>1, <1>2, <1>3, <1>4, FileKept DEF FindNothing, SameFile, hist

LEMMA SeekEndStep ==
  ASSUME IInv, NEW p \in Procs, SeekEnd(p)
  PROVE  IInv'
<1>1. /\ TypeOK /\ Len(table) \in Nat /\ pc[p] = "end"
      /\ table' = table /\ item' = item /\ seen' = seen
  BY TableFacts DEF IInv, SeekEnd
<1>2. TypeOK'
  BY <1>1 DEF TypeOK, SeekEnd, hist
<1>3. /\ pc'[p] = "append" /\ off'[p] = Len(table)
      /\ \A q \in Procs \ {p} : pc'[q] = pc[q] /\ off'[q] = off[q]
  BY <1>1 DEF TypeOK, SeekEnd, hist
<1>4. ASSUME ~overlapped PROVE Progress(p)'
  <2>1. Progress(p)
    BY <1>4 DEF IInv, AloneInv
  <2> QED BY <1>1, <1>3, <2>1 DEF Progress
<1> QED BY <1>1, <1>2, <1>3, <1>4, FileKept DEF SeekEnd, SameFile, hist

LEMMA ReadCountStep ==
  ASSUME IInv, NEW p \in Procs, ReadCount(p)
  PROVE  IInv'
<1>1. /\ TypeOK /\ Len(table) \in Nat /\ pc[p] = "read" /\ off[p] \in Nat /\ off[p] < Len(table)
      /\ table' = table /\ item' = item /\ off' = off /\ adds' = adds /\ overlapped' = overlapped
  BY TableFacts DEF IInv, TypeOK, ReadCount, OffsetsOK, hist
<1>2. table[off[p] + 1] \in Record
  BY <1>1, TableFacts
<1>3. /\ \/ pc'[p] = "store" /\ seen'[p] = table[off[p] + 1].count
         \/ pc'[p] = "astray"
      /\ \A q \in Procs \ {p} : pc'[q] = pc[q] /\ seen'[q] = seen[q]
  BY <1>1 DEF TypeOK, ReadCount
<1>4. TypeOK'
  <2>1. seen' \in [Procs -> Nat]
    BY <1>1, <1>2 DEF TypeOK, ReadCount, Record
  <2>2. pc' \in [Procs -> {"idle", "find", "end", "append", "read", "store", "astray", "show"}]
    BY <1>1 DEF TypeOK, ReadCount
  <2> QED BY <1>1, <2>1, <2>2 DEF TypeOK, ReadCount, hist
<1>5. ASSUME ~overlapped PROVE Progress(p)'
  <2>1. Progress(p)
    BY <1>5 DEF IInv, AloneInv
  <2> QED BY <1>1, <1>3, <2>1 DEF Progress
<1> QED BY <1>1, <1>3, <1>4, <1>5, FileKept DEF SameFile

(* The misplaced write changes no count and no name that it does not spoil. *)
LEMMA Spoilt ==
  ASSUME IInv, NEW p \in Procs, StoreAstray(p)
  PROVE  /\ table' \in Seq(Record) /\ SameFile
         /\ \A i \in 1 .. Len(table) : table'[i].tail \in {2, table[i].tail}
         /\ \A i \in 1 .. Len(table) : i # off[p] + 1 => table'[i] = table[i]
<1>1. /\ TypeOK /\ Len(table) \in Nat /\ off[p] \in Nat /\ off[p] < Len(table)
  BY TableFacts DEF IInv, TypeOK, StoreAstray, OffsetsOK
<1>2. PICK k \in 1 .. Len(table) : k = off[p] + 1
  BY <1>1
<1>3. table \in Seq(Record) /\ table[k] \in Record
  BY <1>1, TableFacts
<1> DEFINE r == [table[k] EXCEPT !.tail = IF item[p] \in Full THEN 2 ELSE @]
<1>4. /\ r \in Record /\ r.name = table[k].name /\ r.count = table[k].count
      /\ r.tail \in {2, table[k].tail}
  BY <1>3 DEF Record
<1>5. table' = [table EXCEPT ![k] = r]
  BY <1>2 DEF StoreAstray
<1> HIDE DEF r
<1>6. /\ table' \in Seq(Record) /\ Len(table') = Len(table) /\ table'[k] = r
      /\ \A i \in 1 .. Len(table) : i # k => table'[i] = table[i]
  BY <1>3, <1>4, <1>5, ExceptSeq
<1> QED BY <1>2, <1>4, <1>6 DEF SameFile

LEMMA StoreAstrayStep ==
  ASSUME IInv, NEW p \in Procs, StoreAstray(p)
  PROVE  IInv'
<1>1. /\ TypeOK /\ Len(table) \in Nat /\ pc[p] # "idle" /\ off[p] <= Len(table)
      /\ item' = item /\ off' = off /\ seen' = seen /\ adds' = adds /\ overlapped' = overlapped
      /\ table' \in Seq(Record) /\ SameFile
  BY TableFacts, Spoilt DEF IInv, StoreAstray, Finish, OffsetsOK
<1>2. pc'[p] = "idle" /\ \A q \in Procs \ {p} : pc'[q] = pc[q]
  BY <1>1 DEF TypeOK, StoreAstray, Finish
<1>3. TypeOK'
  <2>1. pc' \in [Procs -> {"idle", "find", "end", "append", "read", "store", "astray", "show"}]
    BY <1>1 DEF TypeOK, StoreAstray, Finish
  <2> QED BY <1>1, <2>1 DEF TypeOK, StoreAstray, Finish
<1>4. Progress(p)'
  BY <1>2 DEF Progress
<1>5. off'[p] <= Len(table)
  BY <1>1
<1> QED BY <1>1, <1>2, <1>3, <1>4, <1>5, FileKept

LEMMA EndStep ==
  ASSUME IInv, NEW p \in Procs, Show(p) \/ Fail(p)
  PROVE  IInv'
<1>1. /\ TypeOK /\ Len(table) \in Nat /\ pc[p] # "idle" /\ off[p] <= Len(table)
      /\ table' = table /\ item' = item /\ off' = off /\ seen' = seen /\ adds' = adds
      /\ overlapped' = overlapped
  BY TableFacts DEF IInv, Show, Fail, Finish, OffsetsOK
<1>2. pc'[p] = "idle" /\ \A q \in Procs \ {p} : pc'[q] = pc[q]
  BY <1>1 DEF TypeOK, Show, Fail, Finish
<1>3. TypeOK'
  <2>1. answer' \in [Procs -> Nat \union {None}]
    <3>1. CASE Fail(p)
      BY <1>1, <3>1 DEF Fail, TypeOK
    <3>2. CASE Show(p)
      <4>1. off[p] \in Nat /\ off[p] < Len(table)
        BY <1>1, <3>2 DEF Show, IInv, OffsetsOK, TypeOK
      <4>2. table[off[p] + 1] \in Record
        BY <1>1, <4>1, TableFacts
      <4> QED BY <1>1, <3>2, <4>2 DEF Show, TypeOK, Record
    <3> QED BY <3>1, <3>2
  <2> QED BY <1>1, <2>1 DEF TypeOK, Show, Fail, Finish
<1>4. Progress(p)'
  BY <1>2 DEF Progress
<1> QED BY <1>1, <1>2, <1>3, <1>4, FileKept DEF SameFile

(* A process that writes a record, over its own or behind the last one. *)
LEMMA WriteStep ==
  ASSUME IInv, NEW p \in Procs, NEW k \in 1 .. Len(table) + 1, NEW r \in Record,
         pc[p] # "idle", table' = Put(k, r), adds' = [adds EXCEPT ![item[p]] = @ + 1],
         Finish(p), seen' = seen, answer' = answer, misread' = misread,
         ~overlapped =>
           /\ r.name = item[p]
           /\ item[p] \in Short => r.count = adds[item[p]] + 1
           /\ k <= Len(table) => table[k].name = item[p]
           /\ k > Len(table) /\ item[p] \in Short =>
                \A i \in 1 .. Len(table) : table[i].name # item[p]
  PROVE  IInv'
<1>1. /\ TypeOK /\ Len(table) \in Nat /\ item' = item /\ off' = off /\ overlapped' = overlapped
      /\ runs' = runs /\ cmd' = cmd
  BY TableFacts DEF IInv, Finish
<1>2. pc'[p] = "idle" /\ \A q \in Procs \ {p} : pc'[q] = pc[q]
  BY <1>1 DEF TypeOK, Finish
<1>3. /\ table' \in Seq(Record)
      /\ Len(table') = IF k <= Len(table) THEN Len(table) ELSE Len(table) + 1
      /\ \A j \in 1 .. Len(table') : table'[j] = IF j = k THEN r ELSE table[j]
  BY <1>1, PutFacts
<1>4. TypeOK'
  <2>1. adds' \in [Names -> Nat]
    BY <1>1 DEF TypeOK
  <2>2. pc' \in [Procs -> {"idle", "find", "end", "append", "read", "store", "astray", "show"}]
    BY <1>1 DEF TypeOK, Finish
  <2> QED BY <1>1, <1>3, <2>1, <2>2 DEF TypeOK, Record
<1>5. OffsetsOK'
  <2>1. Len(table) <= Len(table') /\ Len(table') \in Nat
    BY <1>1, <1>3
  <2>2. ASSUME NEW q \in Procs
        PROVE  off[q] <= Len(table') /\ (pc'[q] \in {"read", "store", "astray", "show"} => off[q] < Len(table'))
    <3>1. off[q] \in Nat /\ off[q] <= Len(table)
          /\ (pc[q] \in {"read", "store", "astray", "show"} => off[q] < Len(table))
      BY <1>1 DEF IInv, OffsetsOK, TypeOK
    <3>2. pc'[q] = pc[q] \/ pc'[q] = "idle"
      BY <1>2
    <3> QED BY <1>1, <2>1, <3>1, <3>2
  <2> QED BY <1>1, <2>2 DEF OffsetsOK
<1>6. AloneInv'
  <2> SUFFICES ASSUME ~overlapped'
               PROVE  OneAtATime' /\ (\A n \in Short : Exact(n)') /\ \A q \in Procs : Progress(q)'
    BY DEF AloneInv
  <2>1. ~overlapped /\ OneAtATime /\ \A n \in Short : Exact(n)
    BY <1>1 DEF IInv, AloneInv
  <2>2. \A q \in Procs : pc'[q] = "idle"
    BY <1>2, <2>1 DEF OneAtATime
  <2>3. ASSUME NEW n \in Short PROVE Exact(n)'
    <3>1. Exact(n) /\ n \in Names
      BY <2>1 DEF Names
    <3>2. \A j \in 1 .. Len(table') : j # k => j \in 1 .. Len(table) /\ table'[j] = table[j]
      BY <1>1, <1>3
    <3>3. k \in 1 .. Len(table') /\ table'[k] = r
      BY <1>1, <1>3
    <3>4. \A j \in 1 .. Len(table) : j \in 1 .. Len(table')
      BY <1>1, <1>3
    <3>5. CASE n = item[p]
      <4>1. adds'[n] = adds[n] + 1
        BY <1>1, <3>1, <3>5 DEF TypeOK
      <4>2. \A j \in 1 .. Len(table') : table'[j].name = n => j = k
        <5>1. CASE k <= Len(table)
          <6>1. k \in 1 .. Len(table)
            BY <1>1, <5>1
          <6> QED BY <2>1, <3>1, <3>2, <3>5, <5>1, <6>1 DEF Exact
        <5>2. CASE k > Len(table)
          BY <2>1, <3>2, <3>5, <5>2
        <5> QED BY <1>1, <5>1, <5>2
      <4>3. r.name = n /\ r.count = adds'[n]
        BY <2>1, <3>5, <4>1
      <4> QED BY <3>3, <4>2, <4>3 DEF Exact
    <3>6. CASE n # item[p]
      <4>1. adds'[n] = adds[n]
        BY <1>1, <3>1, <3>6 DEF TypeOK
      <4>2. table'[k].name # n
        BY <2>1, <3>3, <3>6
      <4>3. \A j \in 1 .. Len(table) : table[j].name = n => j # k /\ table'[j] = table[j]
        BY <1>3, <2>1, <3>4, <3>6
      <4>4. \A j \in 1 .. Len(table') :
              table'[j].name = n => j \in 1 .. Len(table) /\ table[j] = table'[j]
        BY <3>2, <4>2
      <4>5. \A i, j \in 1 .. Len(table') : table'[i].name = n /\ table'[j].name = n => i = j
        <5>1. \A i, j \in 1 .. Len(table) : table[i].name = n /\ table[j].name = n => i = j
          BY <3>1 DEF Exact
        <5> QED BY ONLY <4>4, <5>1
      <4>6. \A i \in 1 .. Len(table') : table'[i].name = n => table'[i].count = adds'[n]
        <5>1. \A i \in 1 .. Len(table) : table[i].name = n => table[i].count = adds[n]
          BY <3>1 DEF Exact
        <5> QED BY ONLY <4>1, <4>4, <5>1
      <4>7. adds'[n] > 0 => \E i \in 1 .. Len(table') : table'[i].name = n
        <5>1. ASSUME adds[n] > 0 PROVE \E i \in 1 .. Len(table') : table'[i].name = n
          <6>1. PICK i \in 1 .. Len(table) : table[i].name = n
            BY <3>1, <5>1 DEF Exact
          <6> QED BY <3>4, <4>3, <6>1
        <5> QED BY <4>1, <5>1
      <4> QED BY <4>5, <4>6, <4>7 DEF Exact
    <3> QED BY <3>5, <3>6
  <2> QED BY <2>2, <2>3 DEF OneAtATime, Progress
<1> QED BY <1>4, <1>5, <1>6 DEF IInv

LEMMA AppendRecordStep ==
  ASSUME IInv, NEW p \in Procs, AppendRecord(p)
  PROVE  IInv'
<1> DEFINE r == [name |-> item[p], tail |-> 0, count |-> 1]
<1>1. /\ TypeOK /\ Len(table) \in Nat /\ pc[p] = "append" /\ off[p] \in Nat /\ off[p] <= Len(table)
      /\ item[p] \in Names
  BY TableFacts DEF IInv, TypeOK, OffsetsOK, AppendRecord
<1>2. off[p] + 1 \in 1 .. Len(table) + 1 /\ r \in Record
  BY <1>1 DEF Record
<1>3. ASSUME ~overlapped
      PROVE  /\ r.name = item[p]
             /\ item[p] \in Short => r.count = adds[item[p]] + 1
             /\ ~(off[p] + 1 <= Len(table))
             /\ item[p] \in Short => \A i \in 1 .. Len(table) : table[i].name # item[p]
  <2>1. Progress(p) /\ \A n \in Short : Exact(n)
    BY <1>3 DEF IInv, AloneInv
  <2>2. off[p] = Len(table)
    BY <1>1, <2>1 DEF Progress
  <2>3. ASSUME item[p] \in Short
        PROVE  \A i \in 1 .. Len(table) : table[i].name # item[p]
    BY <1>1, <2>1, <2>3 DEF Progress
  <2>4. ASSUME item[p] \in Short PROVE adds[item[p]] = 0
    <3>1. Exact(item[p]) /\ adds[item[p]] \in Nat
      BY <1>1, <2>1, <2>4 DEF TypeOK
    <3> QED BY <2>3, <2>4, <3>1 DEF Exact
  <2> QED BY <1>1, <2>2, <2>3, <2>4
<1>4. /\ table' = Put(off[p] + 1, r) /\ adds' = [adds EXCEPT ![item[p]] = @ + 1]
      /\ Finish(p) /\ seen' = seen /\ answer' = answer /\ misread' = misread
  BY DEF AppendRecord
<1>5. pc[p] # "idle"
  BY <1>1
<1> HIDE DEF r
<1> QED BY <1>2, <1>3, <1>4, <1>5, WriteStep

LEMMA StoreCountStep ==
  ASSUME IInv, NEW p \in Procs, StoreCount(p)
  PROVE  IInv'
<1> DEFINE r == [table[off[p] + 1] EXCEPT !.count = Stored(p)]
<1>1. /\ TypeOK /\ Len(table) \in Nat /\ pc[p] = "store" /\ off[p] \in Nat /\ off[p] < Len(table)
      /\ item[p] \in Names /\ seen[p] \in Nat
  BY TableFacts DEF IInv, TypeOK, OffsetsOK, StoreCount
<1>2. off[p] + 1 \in 1 .. Len(table) /\ off[p] + 1 \in 1 .. Len(table) + 1
  BY <1>1
<1>3. table[off[p] + 1] \in Record
  BY <1>1, <1>2, TableFacts
<1>4. r \in Record /\ r.name = table[off[p] + 1].name /\ r.count = seen[p] + 1
  BY <1>1, <1>3 DEF Record, Stored
<1>5. ASSUME ~overlapped
      PROVE  /\ r.name = item[p]
             /\ item[p] \in Short => r.count = adds[item[p]] + 1
             /\ table[off[p] + 1].name = item[p]
             /\ off[p] + 1 <= Len(table)
  <2>1. Progress(p) /\ \A n \in Short : Exact(n)
    BY <1>5 DEF IInv, AloneInv
  <2>2. table[off[p] + 1].name = item[p] /\ seen[p] = table[off[p] + 1].count
    BY <1>1, <2>1 DEF Progress
  <2>3. ASSUME item[p] \in Short PROVE table[off[p] + 1].count = adds[item[p]]
    BY <1>2, <2>1, <2>2, <2>3 DEF Exact
  <2> QED BY <1>1, <1>2, <1>4, <2>2, <2>3
<1>6. /\ table' = Put(off[p] + 1, r) /\ adds' = [adds EXCEPT ![item[p]] = @ + 1]
      /\ Finish(p) /\ seen' = seen /\ answer' = answer /\ misread' = misread
  BY DEF StoreCount
<1>7. pc[p] # "idle" /\ ~(off[p] + 1 > Len(table))
  BY <1>1, <1>2
<1> HIDE DEF r
<1> QED BY <1>2, <1>4, <1>5, <1>6, <1>7, WriteStep

LEMMA StepInv == IInv /\ [Next]_vars => IInv'
<1> SUFFICES ASSUME IInv, [Next]_vars PROVE IInv'
  OBVIOUS
<1>1. CASE Next
  <2>1. PICK p \in Procs :
          \/ \E c \in {"add", "query"}, n \in Names : Run(p, c, n)
          \/ FindNext(p) \/ FindNothing(p)
          \/ SeekEnd(p) \/ AppendRecord(p)
          \/ ReadCount(p) \/ StoreCount(p) \/ StoreAstray(p)
          \/ Show(p) \/ Fail(p)
    BY <1>1 DEF Next
  <2> QED BY <2>1, RunStep, FindNextStep, FindNothingStep, SeekEndStep, AppendRecordStep,
             ReadCountStep, StoreCountStep, StoreAstrayStep, EndStep
<1>2. CASE UNCHANGED vars
  <2>1. TypeOK' /\ OffsetsOK'
    BY <1>2 DEF IInv, TypeOK, OffsetsOK, vars, proc, hist
  <2>2. AloneInv'
    BY <1>2 DEF IInv, AloneInv, OneAtATime, Exact, Progress, vars, proc, hist
  <2> QED BY <2>1, <2>2 DEF IInv
<1> QED BY <1>1, <1>2

LEMMA Invariance == Spec => []IInv
<1> QED BY InitInv, StepInv, PTL DEF Spec

-----------------------------------------------------------------------------
(* The theorems *)

(* The file holds whole records of known names and counts of at least one,  *)
(* whatever commands overlap.                                               *)
THEOREM ItemTypeCorrect == Spec => []TypeOK
<1>1. IInv => TypeOK
  BY DEF IInv
<1> QED BY <1>1, Invariance, PTL

(* Commands that never overlap keep one record of each short name, with the *)
(* number of its adds, wherever some of them were killed.                   *)
THEOREM ExactCorrect == Spec => []ExactWhenAlone
<1>1. IInv => ExactWhenAlone
  <2> SUFFICES ASSUME IInv, ~overlapped, NEW n \in Short
               PROVE  /\ \A i, j \in Records(n) : i = j
                      /\ \A i \in Records(n) : table[i].count = adds[n]
                      /\ adds[n] > 0 => Records(n) # {}
    BY DEF ExactWhenAlone
  <2>1. Exact(n)
    BY DEF IInv, AloneInv
  <2>2. DOMAIN table = 1 .. Len(table)
    BY TableFacts DEF IInv
  <2> QED BY <2>1, <2>2 DEF Exact, Records
<1> QED BY <1>1, Invariance, PTL

(* A query that runs alone prints the number of adds of its name, or 1 for  *)
(* a name that was added if it cannot read the record that it has found.    *)
THEOREM QueryCorrect == Spec => QueryIsExact
<1>1. IInv /\ [Next]_vars =>
        [\A p \in Procs :
           answer[p] = None /\ answer'[p] # None /\ item[p] \in Short /\ ~overlapped =>
             \/ answer'[p] = adds[item[p]]
             \/ misread' /\ answer'[p] = 1 /\ adds[item[p]] > 0]_vars
  <2> SUFFICES ASSUME IInv, Next, NEW p \in Procs, answer[p] = None, answer'[p] # None,
                      item[p] \in Short, ~overlapped
               PROVE  \/ answer'[p] = adds[item[p]]
                      \/ misread' /\ answer'[p] = 1 /\ adds[item[p]] > 0
    OBVIOUS
  <2>1. /\ TypeOK /\ Progress(p) /\ Exact(item[p]) /\ Len(table) \in Nat
        /\ off[p] \in Nat /\ off[p] <= Len(table) /\ adds[item[p]] \in Nat
    BY TableFacts DEF IInv, AloneInv, OffsetsOK, TypeOK, Names
  <2>2. PICK q \in Procs :
          \/ \E c \in {"add", "query"}, n \in Names : Run(q, c, n)
          \/ FindNothing(q)
          \/ Show(q)
    BY DEF Next, FindNext, SeekEnd, AppendRecord, ReadCount, StoreCount, StoreAstray, Fail
  <2>3. ASSUME NEW c, NEW n, Run(q, c, n) PROVE FALSE
    BY <2>1, <2>3 DEF Run, TypeOK
  <2>4. CASE FindNothing(q)
    <3>1. q = p /\ answer'[p] = 0
      BY <2>1, <2>4 DEF FindNothing, TypeOK
    <3>2. pc[p] = "find" /\ off[p] >= Len(table)
      BY <2>4, <3>1 DEF FindNothing
    <3>3. \A i \in 1 .. Len(table) : table[i].name # item[p]
      BY <2>1, <3>2 DEF Progress
    <3> QED BY <2>1, <3>1, <3>3 DEF Exact
  <2>5. CASE Show(q)
    <3>1. q = p /\ answer'[p] = IF misread' THEN 1 ELSE table[off[p] + 1].count
      BY <2>1, <2>5 DEF Show, TypeOK
    <3>2. pc[p] = "show"
      BY <2>5, <3>1 DEF Show
    <3>3. off[p] + 1 \in 1 .. Len(table) /\ table[off[p] + 1].name = item[p]
      BY <2>1, <3>2 DEF Progress, IInv, OffsetsOK
    <3>4. table[off[p] + 1] \in Record /\ table[off[p] + 1].count = adds[item[p]]
      BY <2>1, <3>3, TableFacts DEF Exact
    <3>5. misread' \in BOOLEAN
      BY <2>5 DEF Show
    <3>6. CASE misread'
      BY <2>1, <3>1, <3>4, <3>6 DEF Record
    <3>7. CASE ~misread'
      BY <3>1, <3>4, <3>7
    <3> QED BY <3>5, <3>6, <3>7
  <2> QED BY <2>2, <2>3, <2>4, <2>5
<1> QED BY <1>1, Invariance, PTL DEF Spec, QueryIsExact
-----------------------------------------------------------------------------
(* What the adds together may have written.  A count is at most the number  *)
(* of writes at its place, whatever record stood there before, and the      *)
(* number that a process has read is no greater: the writes at all places   *)
(* are the adds.                                                            *)
WrittenInv ==
  \E writes \in [1 .. Len(table) -> Nat] :
    /\ SumFunctionOnSet(writes, 1 .. Len(table)) = SumFunctionOnSet(adds, Names)
    /\ \A i \in 1 .. Len(table) : table[i].count <= writes[i]
    /\ \A p \in Procs : pc[p] = "store" => seen[p] <= writes[off[p] + 1]

(* The two writes of one record, with what is in it.                        *)
LEMMA RecordWritten ==
  ASSUME IInv, NEW p \in Procs, AppendRecord(p) \/ StoreCount(p)
  PROVE  \E k \in 1 .. Len(table) + 1, r \in Record :
           /\ k = off[p] + 1
           /\ Len(table') = IF k <= Len(table) THEN Len(table) ELSE Len(table) + 1
           /\ \A j \in 1 .. Len(table') : table'[j] = IF j = k THEN r ELSE table[j]
           /\ \/ pc[p] = "append" /\ r.name = item[p] /\ r.count = 1
              \/ /\ pc[p] = "store" /\ k <= Len(table)
                 /\ r.name = table[k].name /\ r.count = seen[p] + 1
           /\ adds' = [adds EXCEPT ![item[p]] = @ + 1]
           /\ pc'[p] = "idle" /\ \A q \in Procs \ {p} : pc'[q] = pc[q]
           /\ UNCHANGED <<item, off, seen, overlapped>>
<1>1. /\ TypeOK /\ Len(table) \in Nat /\ off[p] \in Nat /\ off[p] <= Len(table)
      /\ item[p] \in Names /\ seen[p] \in Nat
  BY TableFacts DEF IInv, TypeOK, OffsetsOK
<1>2. /\ pc'[p] = "idle" /\ (\A q \in Procs \ {p} : pc'[q] = pc[q])
      /\ UNCHANGED <<item, off, seen, overlapped>>
      /\ adds' = [adds EXCEPT ![item[p]] = @ + 1]
  BY <1>1 DEF AppendRecord, StoreCount, Finish, TypeOK
<1>3. off[p] + 1 \in 1 .. Len(table) + 1
  BY <1>1
<1>4. CASE AppendRecord(p)
  <2> DEFINE r == [name |-> item[p], tail |-> 0, count |-> 1]
  <2>1. r \in Record /\ r.name = item[p] /\ r.count = 1
    BY <1>1 DEF Record
  <2>2. pc[p] = "append" /\ table' = Put(off[p] + 1, r)
    BY <1>4 DEF AppendRecord
  <2> HIDE DEF r
  <2>3. /\ Len(table') = IF off[p] + 1 <= Len(table) THEN Len(table) ELSE Len(table) + 1
        /\ \A j \in 1 .. Len(table') : table'[j] = IF j = off[p] + 1 THEN r ELSE table[j]
    <3> DEFINE i == off[p] + 1
    <3>1. TypeOK /\ i \in 1 .. Len(table) + 1 /\ r \in Record /\ table' = Put(i, r)
      BY <1>1, <1>3, <2>1, <2>2
    <3> HIDE DEF i
    <3>2. /\ Len(Put(i, r)) = IF i <= Len(table) THEN Len(table) ELSE Len(table) + 1
          /\ \A j \in 1 .. Len(Put(i, r)) : Put(i, r)[j] = IF j = i THEN r ELSE table[j]
      BY <3>1, PutFacts
    <3>3. /\ Len(table') = IF i <= Len(table) THEN Len(table) ELSE Len(table) + 1
          /\ \A j \in 1 .. Len(table') : table'[j] = IF j = i THEN r ELSE table[j]
      BY <3>1, <3>2
    <3> QED BY <3>3 DEF i
  <2> QED BY <1>2, <1>3, <2>1, <2>2, <2>3
<1>5. CASE StoreCount(p)
  <2> DEFINE r == [table[off[p] + 1] EXCEPT !.count = Stored(p)]
  <2>1. pc[p] = "store" /\ table' = Put(off[p] + 1, r)
    BY <1>5 DEF StoreCount
  <2>2. off[p] < Len(table)
    BY <2>1 DEF IInv, OffsetsOK
  <2>3. table[off[p] + 1] \in Record /\ off[p] + 1 <= Len(table)
    BY <1>1, <2>2, TableFacts
  <2>4. r \in Record /\ r.name = table[off[p] + 1].name /\ r.count = seen[p] + 1
    BY <1>1, <2>3 DEF Record, Stored
  <2> HIDE DEF r
  <2>5. /\ Len(table') = IF off[p] + 1 <= Len(table) THEN Len(table) ELSE Len(table) + 1
        /\ \A j \in 1 .. Len(table') : table'[j] = IF j = off[p] + 1 THEN r ELSE table[j]
    <3> DEFINE i == off[p] + 1
    <3>1. TypeOK /\ i \in 1 .. Len(table) + 1 /\ r \in Record /\ table' = Put(i, r)
      BY <1>1, <1>3, <2>1, <2>4
    <3> HIDE DEF i
    <3>2. /\ Len(Put(i, r)) = IF i <= Len(table) THEN Len(table) ELSE Len(table) + 1
          /\ \A j \in 1 .. Len(Put(i, r)) : Put(i, r)[j] = IF j = i THEN r ELSE table[j]
      BY <3>1, PutFacts
    <3>3. /\ Len(table') = IF i <= Len(table) THEN Len(table) ELSE Len(table) + 1
          /\ \A j \in 1 .. Len(table') : table'[j] = IF j = i THEN r ELSE table[j]
      BY <3>1, <3>2
    <3> QED BY <3>3 DEF i
  <2> QED BY <1>2, <1>3, <2>1, <2>3, <2>4, <2>5
<1> QED BY <1>4, <1>5

(* An add more is one more in the sum of the adds.                          *)
LEMMA OneMoreAdd ==
  ASSUME TypeOK, NEW n \in Names, adds' = [adds EXCEPT ![n] = @ + 1]
  PROVE  /\ SumFunctionOnSet(adds, Names) \in Int
         /\ SumFunctionOnSet(adds', Names) = SumFunctionOnSet(adds, Names) + 1
<1>1. IsFiniteSet(Names) /\ (\A m \in Names : adds[m] \in Int)
  BY NamesAssumption DEF TypeOK
<1>2. adds'[n] = adds[n] + 1 /\ adds'[n] \in Int /\ \A m \in Names : m # n => adds'[m] = adds[m]
  BY DEF TypeOK
<1>3. SumFunctionOnSet(adds', Names) = SumFunctionOnSet(adds, Names) + (adds'[n] - adds[n])
  <2> DEFINE f == adds
             e == adds'
  <2>1. (\A m \in Names : f[m] \in Int) /\ e[n] \in Int /\ \A m \in Names : m # n => e[m] = f[m]
    BY <1>1, <1>2
  <2> HIDE DEF f, e
  <2>2. SumFunctionOnSet(e, Names) = SumFunctionOnSet(f, Names) + (e[n] - f[n])
    BY <1>1, <2>1, SetSumChanged
  <2> QED BY <2>2 DEF f, e
<1>4. SumFunctionOnSet(adds, Names) \in Int
  BY <1>1, SetSumType
<1> QED BY <1>1, <1>2, <1>3, <1>4

LEMMA WrittenWrites ==
  ASSUME IInv, WrittenInv, NEW p \in Procs, AppendRecord(p) \/ StoreCount(p)
  PROVE  WrittenInv'
<1>1. /\ TypeOK /\ item[p] \in Names
      /\ \A q \in Procs : off[q] \in Nat /\ seen[q] \in Nat
                          /\ (pc[q] = "store" => off[q] < Len(table))
  BY DEF IInv, TypeOK, OffsetsOK
<1>2. PICK n \in Nat : n = Len(table)
  BY <1>1, TableFacts
<1>3. PICK w \in [1 .. n -> Nat] :
        /\ SumFunctionOnSet(w, 1 .. n) = SumFunctionOnSet(adds, Names)
        /\ \A i \in 1 .. n : table[i].count <= w[i]
        /\ \A q \in Procs : pc[q] = "store" => seen[q] <= w[off[q] + 1]
  BY <1>2 DEF WrittenInv
<1>4. PICK k \in 1 .. n + 1, r \in Record :
        /\ k = off[p] + 1
        /\ Len(table') = IF k <= n THEN n ELSE n + 1
        /\ \A j \in 1 .. Len(table') : table'[j] = IF j = k THEN r ELSE table[j]
        /\ \/ pc[p] = "append" /\ r.name = item[p] /\ r.count = 1
           \/ /\ pc[p] = "store" /\ k <= n
              /\ r.name = table[k].name /\ r.count = seen[p] + 1
        /\ adds' = [adds EXCEPT ![item[p]] = @ + 1]
        /\ pc'[p] = "idle" /\ \A q \in Procs \ {p} : pc'[q] = pc[q]
        /\ UNCHANGED <<item, off, seen, overlapped>>
  BY <1>2, RecordWritten
<1>5. PICK m \in Nat : m = Len(table') /\ m = IF k <= n THEN n ELSE n + 1
  BY <1>4
<1> DEFINE old == IF k <= n THEN w[k] ELSE 0
           v == [i \in 1 .. m |-> IF i = k THEN old + 1 ELSE w[i]]
<1>6. old \in Nat /\ (pc[p] = "store" => old = w[k]) /\ k \in 1 .. m
  BY <1>3, <1>4, <1>5
<1>7. \A i \in 1 .. m : i # k => i \in 1 .. n
  BY <1>5
<1>8. /\ v \in [1 .. m -> Nat] /\ v[k] = old + 1
      /\ \A i \in 1 .. m : i # k => v[i] = w[i]
  BY <1>3, <1>6, <1>7
<1> HIDE DEF v
<1>9. SumFunctionOnSet(v, 1 .. m) = SumFunctionOnSet(w, 1 .. n) + 1
  <2> DEFINE S == 1 .. n
  <2>1. IsFiniteSet(S) /\ (\A i \in S : w[i] \in Int) /\ (\A i \in S : v[i] \in Int)
    <3>1. 1 \in Int /\ n \in Int
      OBVIOUS
    <3>2. \A i \in 1 .. n : i \in 1 .. m
      BY <1>5
    <3>3. IsFiniteSet(S)
      BY <3>1, FS_Interval
    <3>4. \A i \in S : w[i] \in Int
      BY <1>3
    <3>5. \A i \in S : v[i] \in Int
      <4> SUFFICES ASSUME NEW i \in S PROVE v[i] \in Int
        OBVIOUS
      <4>1. i \in 1 .. m /\ v \in [1 .. m -> Nat]
        BY <1>8, <3>2
      <4> QED BY ONLY <4>1
    <3> QED BY <3>3, <3>4, <3>5
  <2>2. SumFunctionOnSet(w, S) \in Int
    <3> HIDE DEF S
    <3> QED BY <2>1, SetSumType
  <2>3. CASE k <= n
    <3>1. m = n /\ k \in S /\ v[k] \in Int /\ w[k] \in Int /\ v[k] = w[k] + 1
          /\ \A i \in S : i # k => v[i] = w[i]
      BY <1>3, <1>5, <1>6, <1>8, <2>3
    <3> HIDE DEF S
    <3>2. SumFunctionOnSet(v, S) = SumFunctionOnSet(w, S) + (v[k] - w[k])
      BY <2>1, <3>1, SetSumChanged
    <3>3. SumFunctionOnSet(v, S) = SumFunctionOnSet(w, S) + 1
      BY ONLY <2>2, <3>1, <3>2
    <3> QED BY <3>1, <3>3 DEF S
  <2>4. CASE ~(k <= n)
    <3>1. m = n + 1 /\ k = n + 1 /\ k \notin S /\ v[k] = 1 /\ 1 .. m = S \union {k}
          /\ \A i \in S : v[i] = w[i]
      BY <1>5, <1>8, <2>4
    <3> HIDE DEF S
    <3>5. v[k] \in Int
      BY <3>1
    <3>2. SumFunctionOnSet(v, S \union {k}) = v[k] + SumFunctionOnSet(v, S)
      BY ONLY <2>1, <3>1, <3>5, SetSumMore
    <3>3. SumFunctionOnSet(v, S) = SumFunctionOnSet(w, S)
      BY <2>1, <3>1, SetSumSame
    <3>4. SumFunctionOnSet(v, S \union {k}) = SumFunctionOnSet(w, S) + 1
      BY ONLY <2>2, <3>1, <3>2, <3>3
    <3> QED BY <3>1, <3>4 DEF S
  <2> QED BY <2>3, <2>4
<1>10. SumFunctionOnSet(v, 1 .. m) = SumFunctionOnSet(adds', Names)
  BY <1>1, <1>3, <1>4, <1>9, OneMoreAdd
<1>11. ASSUME NEW i \in 1 .. m PROVE table'[i].count <= v[i]
  <2>1. CASE i = k
    <3>1. table'[i] = r
      BY <1>4, <1>5, <2>1
    <3>2. r.count = 1 \/ (r.count = seen[p] + 1 /\ seen[p] <= old)
      <4>0. (pc[p] = "append" /\ r.count = 1) \/ (pc[p] = "store" /\ r.count = seen[p] + 1)
        BY <1>4
      <4>1. CASE pc[p] = "append"
        BY <4>0, <4>1
      <4>2. CASE pc[p] = "store"
        <5>1. seen[p] <= w[off[p] + 1]
          BY <1>3, <4>2
        <5> QED BY <1>4, <1>6, <4>0, <4>2, <5>1
      <4> QED BY <4>0, <4>1, <4>2
    <3> QED BY <1>1, <1>6, <1>8, <2>1, <3>1, <3>2
  <2>2. CASE i # k
    BY <1>3, <1>4, <1>5, <1>7, <1>8, <2>2
  <2> QED BY <2>1, <2>2
<1>12. ASSUME NEW q \in Procs, pc'[q] = "store" PROVE seen'[q] <= v[off'[q] + 1]
  <2>1. pc[q] = "store" /\ off'[q] = off[q] /\ seen'[q] = seen[q]
    BY <1>4, <1>12
  <2>2. off[q] + 1 \in 1 .. n /\ off[q] + 1 \in 1 .. m
    BY <1>1, <1>2, <1>5, <2>1
  <2>3. w[off[q] + 1] <= v[off[q] + 1]
    <3>1. CASE off[q] + 1 = k
      <4>1. k <= n
        BY <2>2, <3>1
      <4>2. v[k] = w[k] + 1 /\ w[k] \in Nat
        BY <1>8, <2>2, <3>1, <4>1
      <4> QED BY <3>1, <4>2
    <3>2. CASE off[q] + 1 # k
      <4>1. v[off[q] + 1] = w[off[q] + 1] /\ w[off[q] + 1] \in Nat
        BY <1>3, <1>8, <2>2, <3>2
      <4> QED BY <4>1
    <3> QED BY <3>1, <3>2
  <2>4. w[off[q] + 1] \in Nat /\ v[off[q] + 1] \in Nat
    BY <1>3, <1>8, <2>2
  <2> QED BY <1>1, <1>3, <2>1, <2>3, <2>4
<1> QED BY <1>5, <1>8, <1>10, <1>11, <1>12 DEF WrittenInv

(* The steps that leave the file alone.  A count that is read is no greater *)
(* than the writes at its place.                                            *)
LEMMA WrittenKept ==
  ASSUME IInv, WrittenInv, SameFile, adds' = adds,
         \A q \in Procs : pc'[q] = "store" =>
           \/ pc[q] = "store" /\ off'[q] = off[q] /\ seen'[q] = seen[q]
           \/ pc[q] = "read" /\ off'[q] = off[q] /\ seen'[q] = table[off[q] + 1].count
  PROVE  WrittenInv'
<1>1. PICK w \in [1 .. Len(table) -> Nat] :
        /\ SumFunctionOnSet(w, 1 .. Len(table)) = SumFunctionOnSet(adds, Names)
        /\ \A i \in 1 .. Len(table) : table[i].count <= w[i]
        /\ \A q \in Procs : pc[q] = "store" => seen[q] <= w[off[q] + 1]
  BY DEF WrittenInv
<1>2. ASSUME NEW q \in Procs, pc'[q] = "store" PROVE seen'[q] <= w[off'[q] + 1]
  <2>1. CASE pc[q] = "read"
    <3>1. off[q] \in Nat /\ off[q] < Len(table) /\ Len(table) \in Nat
      BY <2>1, TableFacts DEF IInv, OffsetsOK, TypeOK
    <3>2. off[q] + 1 \in 1 .. Len(table)
      BY <3>1
    <3> QED BY <1>1, <1>2, <2>1, <3>2
  <2>2. CASE pc[q] # "read"
    BY <1>1, <1>2, <2>2
  <2> QED BY <2>1, <2>2
<1> QED BY <1>1, <1>2 DEF WrittenInv, SameFile

LEMMA WrittenInit == Init => WrittenInv
<1> SUFFICES ASSUME Init PROVE WrittenInv
  OBVIOUS
<1> DEFINE w == [i \in 1 .. 0 |-> 0]
<1>1. Len(table) = 0 /\ 1 .. 0 = {} /\ w \in [1 .. 0 -> Nat]
  BY EmptySeq DEF Init
<1>2. IsFiniteSet(Names) /\ \A n \in Names : adds[n] \in Int /\ adds[n] = 0
  BY NamesAssumption DEF Init
<1> DEFINE z == [n \in {} |-> 0]
<1>3. SumFunctionOnSet(adds, Names) = 0
  BY <1>2, SetSumZero
<1>4. SumFunctionOnSet(w, 1 .. 0) = 0
  BY <1>1, SetSumNone
<1> HIDE DEF w
<1>5. \A p \in Procs : pc[p] # "store"
  BY DEF Init
<1> QED BY <1>1, <1>3, <1>4, <1>5 DEF WrittenInv

LEMMA WrittenStep == IInv /\ WrittenInv /\ [Next]_vars => WrittenInv'
<1> SUFFICES ASSUME IInv, WrittenInv, [Next]_vars PROVE WrittenInv'
  OBVIOUS
<1>1. TypeOK
  BY DEF IInv
<1>2. ASSUME NEW p \in Procs, NEW c \in {"add", "query"}, NEW n \in Names, Run(p, c, n)
      PROVE  WrittenInv'
  BY <1>1, <1>2, WrittenKept DEF Run, TypeOK, SameFile
<1>3. ASSUME NEW p \in Procs,
             FindNext(p) \/ FindNothing(p) \/ SeekEnd(p) \/ Show(p) \/ Fail(p)
      PROVE  WrittenInv'
  BY <1>1, <1>3, WrittenKept DEF FindNext, FindNothing, SeekEnd, Show, Fail, Finish, TypeOK, SameFile, hist
<1>4. ASSUME NEW p \in Procs, ReadCount(p) PROVE WrittenInv'
  BY <1>1, <1>4, WrittenKept DEF ReadCount, TypeOK, SameFile, hist
<1>6. ASSUME NEW p \in Procs, StoreAstray(p) PROVE WrittenInv'
  <2>1. SameFile /\ adds' = adds
    BY <1>6, Spoilt DEF StoreAstray
  <2>2. \A q \in Procs : pc'[q] = "store" => pc[q] = "store" /\ off'[q] = off[q] /\ seen'[q] = seen[q]
    BY <1>1, <1>6 DEF StoreAstray, Finish, TypeOK
  <2> QED BY <2>1, <2>2, WrittenKept
<1>5. CASE UNCHANGED vars
  BY <1>5, WrittenKept DEF vars, proc, SameFile, hist
<1> QED BY <1>2, <1>3, <1>4, <1>5, <1>6, WrittenWrites DEF Next

(* Whatever commands overlap, adds may be lost but none is invented.        *)
THEOREM NoneInvented == Spec => []NothingInvented
<1>1. IInv /\ WrittenInv => NothingInvented
  <2> SUFFICES ASSUME IInv, WrittenInv PROVE NothingInvented
    OBVIOUS
  <2> DEFINE S == 1 .. Len(table)
             counts == [i \in DOMAIN table |-> table[i].count]
  <2>1. TypeOK /\ DOMAIN table = S /\ Len(table) \in Nat /\ \A i \in S : table[i] \in Record
    BY TableFacts DEF IInv
  <2>2. IsFiniteSet(S)
    BY <2>1, FS_Interval
  <2>3. PICK w \in [S -> Nat] :
          /\ SumFunctionOnSet(w, S) = SumFunctionOnSet(adds, Names)
          /\ \A i \in S : table[i].count <= w[i]
    BY DEF WrittenInv
  <2>4. \A i \in S : counts[i] \in Int /\ w[i] \in Int /\ counts[i] <= w[i]
    BY <2>1, <2>3 DEF Record
  <2>5. Total(DOMAIN table) = SumFunctionOnSet(counts, S)
    BY <2>1 DEF Total
  <2> HIDE DEF S, counts
  <2>6. SumFunctionOnSet(counts, S) <= SumFunctionOnSet(w, S)
    BY <2>2, <2>4, SetSumAtMost
  <2> QED BY <2>3, <2>5, <2>6 DEF NothingInvented
<1>2. IInv /\ WrittenInv /\ [Next]_vars => IInv' /\ WrittenInv'
  BY StepInv, WrittenStep
<1>3. Spec => [](IInv /\ WrittenInv)
  BY <1>2, InitInv, WrittenInit, PTL DEF Spec
<1> QED BY <1>1, <1>3, PTL

-----------------------------------------------------------------------------
(* Names that fill their field, while no two commands have overlapped.  A   *)
(* process that looks for one has passed no record it could still find,     *)
(* and stops only at such a record; if there is none, it appends one.       *)
Ones(n) == {i \in 1 .. Len(table) : table[i].name = n /\ table[i].tail = 0 /\ table[i].count = 1}

Split(n) ==
  /\ Total(Records(n)) = adds[n]
  /\ \A i \in 1 .. Len(table) : table[i].name = n => table[i].count \in {1, 2}
  /\ \A i, j \in Ones(n) : i = j

Passed(p) ==
  item[p] \in Full =>
    /\ pc[p] = "find" => \A i \in Ones(item[p]) : i > off[p]
    /\ pc[p] \in {"end", "append"} => Ones(item[p]) = {}
    /\ pc[p] \in {"read", "store"} => table[off[p] + 1].tail = 0 /\ table[off[p] + 1].count = 1

SplitInv == ~overlapped => (\A n \in Full : Split(n)) /\ \A p \in Procs : Passed(p)

(* The steps that leave the file alone. *)
LEMMA SplitKept ==
  ASSUME SplitInv, table' = table, adds' = adds, overlapped' = overlapped, NEW p \in Procs,
         ~overlapped => Passed(p)',
         \A q \in Procs \ {p} : pc'[q] = pc[q] /\ item'[q] = item[q] /\ off'[q] = off[q]
  PROVE  SplitInv'
<1> SUFFICES ASSUME ~overlapped
             PROVE  (\A n \in Full : Split(n)') /\ \A q \in Procs : Passed(q)'
  BY DEF SplitInv
<1>1. (\A n \in Full : Split(n)) /\ \A q \in Procs : Passed(q)
  BY DEF SplitInv
<1>2. \A n : Ones(n)' = Ones(n) /\ Records(n)' = Records(n)
  BY DEF Ones, Records
<1>3. \A S : Total(S)' = Total(S)
  BY DEF Total
<1>4. ASSUME NEW n \in Full PROVE Split(n)'
  <2>1. Total(Records(n))' = Total(Records(n))
    BY <1>2 DEF Total
  <2> QED BY <1>1, <1>2, <2>1 DEF Split
<1>5. ASSUME NEW q \in Procs \ {p} PROVE Passed(q)'
  <2>1. pc'[q] = pc[q] /\ item'[q] = item[q] /\ off'[q] = off[q]
    OBVIOUS
  <2>2. Ones(item[q])' = Ones(item[q])
    BY DEF Ones
  <2> QED BY <1>1, <1>2, <2>1 DEF Passed
<1> QED BY <1>4, <1>5

(* A write of a record of another name changes nothing of this one,         *)
LEMMA OtherName ==
  ASSUME TypeOK, TypeOK', NEW n \in Full, Split(n),
         NEW k \in 1 .. Len(table) + 1, NEW r \in Record, r.name # n,
         k <= Len(table) => table[k].name # n,
         Len(table') = IF k <= Len(table) THEN Len(table) ELSE Len(table) + 1,
         \A j \in 1 .. Len(table') : table'[j] = IF j = k THEN r ELSE table[j],
         adds'[n] = adds[n]
  PROVE  Split(n)'
<1>1. PICK l \in Nat : l = Len(table) /\ DOMAIN table = 1 .. l /\ \A i \in 1 .. l : table[i] \in Record
  BY TableFacts
<1>2. PICK m \in Nat : m = Len(table') /\ DOMAIN table' = 1 .. m
  BY <1>1, TableFacts, LenProperties DEF TypeOK
<1>3. (\A j \in 1 .. m : j # k => j \in 1 .. l /\ table'[j] = table[j]) /\ table'[k] = r
      /\ \A j \in 1 .. l : j \in 1 .. m
  BY <1>1, <1>2
<1>4. \A i \in 1 .. l : table[i].name = n => i # k
  BY <1>1
<1>5. Records(n)' = Records(n)
  BY <1>1, <1>2, <1>3, <1>4 DEF Records
<1>6. Ones(n)' = Ones(n)
  BY <1>1, <1>2, <1>3, <1>4 DEF Ones
<1>7. Total(Records(n))' = Total(Records(n))
  <2> DEFINE f == [i \in 1 .. l |-> table[i].count]
             e == [i \in 1 .. m |-> table'[i].count]
             R == Records(n)
  <2>1. Total(Records(n)) = SumFunctionOnSet(f, R) /\ Total(Records(n))' = SumFunctionOnSet(e, R)
    BY <1>1, <1>2, <1>5 DEF Total
  <2>2. \A i \in R : f[i] \in Int /\ f[i] = e[i]
    BY <1>1, <1>2, <1>3, <1>4 DEF Records, Record
  <2>3. IsFiniteSet(R)
    <3>1. IsFiniteSet(1 .. l) /\ R \subseteq 1 .. l
      BY <1>1, FS_Interval DEF Records
    <3> HIDE DEF R
    <3> QED BY <3>1, FS_Subset
  <2> HIDE DEF f, e, R
  <2>4. SumFunctionOnSet(e, R) = SumFunctionOnSet(f, R)
    BY <2>2, <2>3, SetSumSame
  <2> QED BY <2>1, <2>4
<1> QED BY <1>1, <1>2, <1>3, <1>4, <1>6, <1>7 DEF Split

(* and a write of its own adds one to one record, or is a record more.      *)
LEMMA OwnName ==
  ASSUME TypeOK, TypeOK', NEW n \in Full, Split(n),
         NEW k \in 1 .. Len(table) + 1, NEW r \in Record, r.name = n,
         \/ k > Len(table) /\ r.count = 1 /\ Ones(n) = {}
         \/ k <= Len(table) /\ r.count = 2 /\ k \in Ones(n),
         Len(table') = IF k <= Len(table) THEN Len(table) ELSE Len(table) + 1,
         \A j \in 1 .. Len(table') : table'[j] = IF j = k THEN r ELSE table[j],
         adds'[n] = adds[n] + 1
  PROVE  Split(n)'
<1>1. PICK l \in Nat : l = Len(table) /\ DOMAIN table = 1 .. l /\ \A i \in 1 .. l : table[i] \in Record
  BY TableFacts
<1>2. PICK m \in Nat : m = Len(table') /\ DOMAIN table' = 1 .. m
  BY <1>1, TableFacts, LenProperties DEF TypeOK
<1>3. (\A j \in 1 .. m : j # k => j \in 1 .. l /\ table'[j] = table[j]) /\ table'[k] = r /\ k \in 1 .. m
      /\ \A j \in 1 .. l : j \in 1 .. m
  BY <1>1, <1>2
<1>4. Records(n)' = Records(n) \union {k}
  BY <1>1, <1>2, <1>3 DEF Records
<1>5. \A i \in Ones(n)' : i = k \/ i \in Ones(n)
  BY <1>1, <1>2, <1>3 DEF Ones
<1>6. \A i, j \in Ones(n)' : i = j
  <2>1. CASE k > Len(table) /\ r.count = 1 /\ Ones(n) = {}
    BY <1>5, <2>1
  <2>2. CASE k <= Len(table) /\ r.count = 2 /\ k \in Ones(n)
    <3>1. \A i \in Ones(n) : i = k
      BY <2>2 DEF Split
    <3> QED BY <1>5, <3>1
  <2> QED BY <2>1, <2>2
<1>7. \A i \in 1 .. m : table'[i].name = n => table'[i].count \in {1, 2}
  <2>1. r.count \in {1, 2}
    OBVIOUS
  <2>2. \A i \in 1 .. l : table[i].name = n => table[i].count \in {1, 2}
    BY <1>1 DEF Split
  <2> QED BY <1>3, <2>1, <2>2
<1>8. Total(Records(n))' = Total(Records(n)) + 1
  <2> DEFINE f == [i \in 1 .. l |-> table[i].count]
             e == [i \in 1 .. m |-> table'[i].count]
             R == Records(n)
  <2>1. Total(Records(n)) = SumFunctionOnSet(f, R)
        /\ Total(Records(n))' = SumFunctionOnSet(e, R \union {k})
    BY <1>1, <1>2, <1>4 DEF Total
  <2>2. R \subseteq 1 .. l /\ \A i \in R : f[i] \in Int /\ e[i] \in Int /\ (i # k => e[i] = f[i])
    BY <1>1, <1>2, <1>3 DEF Records, Record
  <2>3. IsFiniteSet(R)
    <3>0. 1 \in Int /\ l \in Int
      OBVIOUS
    <3>1. IsFiniteSet(1 .. l)
      BY <3>0, FS_Interval
    <3> HIDE DEF R
    <3> QED BY <2>2, <3>1, FS_Subset
  <2>4. e[k] = r.count
    BY <1>3
  <2>5. k \in R => f[k] = table[k].count
    BY <2>2
  <2>6. k \in Ones(n) => k \in R /\ table[k].count = 1
    BY <1>1 DEF Ones, Records
  <2>7. k > Len(table) => k \notin R
    BY <1>1, <2>2
  <2> HIDE DEF f, e, R
  <2>8. SumFunctionOnSet(f, R) \in Int
    BY <2>2, <2>3, SetSumType
  <2>9. CASE k > Len(table) /\ r.count = 1
    <3>1. k \notin R /\ e[k] = 1 /\ e[k] \in Int /\ (\A i \in R : e[i] \in Int) /\ \A i \in R : f[i] = e[i]
      BY <2>2, <2>4, <2>7, <2>9
    <3>2. SumFunctionOnSet(e, R \union {k}) = e[k] + SumFunctionOnSet(e, R)
      BY ONLY <2>3, <3>1, SetSumMore
    <3>3. SumFunctionOnSet(e, R) = SumFunctionOnSet(f, R)
      BY <2>2, <2>3, <3>1, SetSumSame
    <3>4. SumFunctionOnSet(e, R \union {k}) = SumFunctionOnSet(f, R) + 1
      BY ONLY <2>8, <3>1, <3>2, <3>3
    <3> QED BY <2>1, <3>4
  <2>10. CASE k \in Ones(n) /\ r.count = 2
    <3>1. k \in R /\ e[k] = 2 /\ f[k] = 1 /\ e[k] \in Int /\ R \union {k} = R
      BY <2>4, <2>5, <2>6, <2>10
    <3>2. SumFunctionOnSet(e, R) = SumFunctionOnSet(f, R) + (e[k] - f[k])
      <4>1. IsFiniteSet(R) /\ k \in R /\ (\A i \in R : f[i] \in Int) /\ e[k] \in Int
            /\ \A i \in R : i # k => e[i] = f[i]
        BY <2>2, <2>3, <3>1
      <4> QED BY ONLY <4>1, SetSumChanged
    <3>3. SumFunctionOnSet(e, R \union {k}) = SumFunctionOnSet(f, R) + 1
      <4>1. SumFunctionOnSet(e, R) = SumFunctionOnSet(f, R) + (2 - 1)
        BY <3>1, <3>2
      <4>2. SumFunctionOnSet(e, R) = SumFunctionOnSet(f, R) + 1
        BY <4>1
      <4>3. R \union {k} = R
        BY <3>1
      <4> QED BY ONLY <4>2, <4>3
    <3> QED BY <2>1, <3>3
  <2> QED BY <2>9, <2>10
<1>9. Total(Records(n))' = adds'[n]
  BY <1>8 DEF Split
<1> QED BY <1>2, <1>6, <1>7, <1>9 DEF Split

LEMMA SplitWrites ==
  ASSUME IInv, IInv', SplitInv, NEW p \in Procs, AppendRecord(p) \/ StoreCount(p)
  PROVE  SplitInv'
<1>1. PICK k \in 1 .. Len(table) + 1, r \in Record :
        /\ k = off[p] + 1
        /\ Len(table') = IF k <= Len(table) THEN Len(table) ELSE Len(table) + 1
        /\ \A j \in 1 .. Len(table') : table'[j] = IF j = k THEN r ELSE table[j]
        /\ \/ pc[p] = "append" /\ r.name = item[p] /\ r.count = 1
           \/ /\ pc[p] = "store" /\ k <= Len(table)
              /\ r.name = table[k].name /\ r.count = seen[p] + 1
        /\ adds' = [adds EXCEPT ![item[p]] = @ + 1]
        /\ pc'[p] = "idle" /\ \A q \in Procs \ {p} : pc'[q] = pc[q]
        /\ UNCHANGED <<item, off, seen, overlapped>>
  BY RecordWritten
<1> SUFFICES ASSUME ~overlapped
             PROVE  (\A n \in Full : Split(n)') /\ \A q \in Procs : Passed(q)'
  BY <1>1 DEF SplitInv
<1>2. /\ TypeOK /\ TypeOK' /\ Progress(p) /\ Passed(p) /\ OneAtATime
      /\ (\A n \in Full : Split(n)) /\ off[p] \in Nat /\ Len(table) \in Nat
  BY TableFacts DEF IInv, AloneInv, SplitInv, TypeOK
<1>3. \A q \in Procs : pc'[q] = "idle"
  BY <1>1, <1>2 DEF OneAtATime
<1>4. r.name = item[p] /\ (k <= Len(table) => table[k].name = item[p])
  <2>1. CASE pc[p] = "append"
    <3>1. k > Len(table)
      BY <1>1, <1>2, <2>1 DEF Progress
    <3> QED BY <1>1, <1>2, <2>1, <3>1
  <2>2. CASE pc[p] = "store"
    <3>1. table[k].name = item[p]
      BY <1>1, <1>2, <2>2 DEF Progress
    <3> QED BY <1>1, <2>2, <3>1
  <2> QED BY <1>1, <2>1, <2>2
<1>5. ASSUME NEW n \in Full PROVE Split(n)'
  <2>1. Split(n) /\ n \in Names
    BY <1>2 DEF Names
  <2>2. CASE n # item[p]
    <3>1. adds'[n] = adds[n]
      BY <1>1, <1>2, <2>1, <2>2 DEF TypeOK
    <3>2. r.name # n /\ (k <= Len(table) => table[k].name # n)
      BY <1>4, <2>2
    <3>3. /\ Len(table') = IF k <= Len(table) THEN Len(table) ELSE Len(table) + 1
          /\ \A j \in 1 .. Len(table') : table'[j] = IF j = k THEN r ELSE table[j]
      BY <1>1
    <3> QED BY <1>2, <2>1, <3>1, <3>2, <3>3, OtherName
  <2>3. CASE n = item[p]
    <3>1. adds'[n] = adds[n] + 1
      BY <1>1, <1>2, <2>1, <2>3 DEF TypeOK
    <3>2. \/ k > Len(table) /\ r.count = 1 /\ Ones(n) = {}
          \/ k <= Len(table) /\ r.count = 2 /\ k \in Ones(n)
      <4>1. CASE pc[p] = "append"
        <5>1. k > Len(table) /\ Ones(n) = {}
          BY <1>1, <1>2, <2>3, <4>1 DEF Progress, Passed
        <5>2. r.count = 1
          BY <1>1, <4>1
        <5> QED BY <5>1, <5>2
      <4>2. CASE pc[p] = "store"
        <5>1. table[k].tail = 0 /\ table[k].count = 1 /\ seen[p] = table[k].count
          BY <1>1, <1>2, <2>3, <4>2 DEF Progress, Passed
        <5>2. k <= Len(table) /\ r.count = seen[p] + 1
          BY <1>1, <4>2
        <5>3. k \in 1 .. Len(table)
          BY <1>2, <5>2
        <5> QED BY <1>4, <2>3, <5>1, <5>2, <5>3 DEF Ones
      <4> QED BY <1>1, <4>1, <4>2
    <3>3. /\ Len(table') = IF k <= Len(table) THEN Len(table) ELSE Len(table) + 1
          /\ \A j \in 1 .. Len(table') : table'[j] = IF j = k THEN r ELSE table[j]
      BY <1>1
    <3>4. r.name = n
      BY <1>4, <2>3
    <3> QED BY <1>2, <2>1, <3>1, <3>2, <3>3, <3>4, OwnName
  <2> QED BY <2>2, <2>3
<1>6. ASSUME NEW q \in Procs PROVE Passed(q)'
  <2>1. pc'[q] = "idle"
    BY <1>3
  <2> QED BY <2>1 DEF Passed
<1> QED BY <1>5, <1>6

LEMMA SplitInit == Init => SplitInv
<1> SUFFICES ASSUME Init PROVE SplitInv
  OBVIOUS
<1>1. Len(table) = 0 /\ DOMAIN table = {} /\ 1 .. Len(table) = {}
  BY EmptySeq DEF Init
<1>2. ASSUME NEW n \in Full PROVE Split(n)
  <2>1. Records(n) = {} /\ Ones(n) = {} /\ adds[n] = 0
    BY <1>1 DEF Records, Ones, Init, Names
  <2>2. Total({}) = 0
    BY SetSumNone DEF Total
  <2> QED BY <1>1, <2>1, <2>2 DEF Split
<1>3. \A p \in Procs : Passed(p)
  BY DEF Init, Passed
<1> QED BY <1>2, <1>3 DEF SplitInv

LEMMA SplitRun ==
  ASSUME IInv, SplitInv, NEW p \in Procs, NEW c \in {"add", "query"}, NEW n \in Names, Run(p, c, n)
  PROVE  SplitInv'
<1>1. TypeOK
  BY DEF IInv
<1>2. /\ pc'[p] = "find" /\ off'[p] = 0 /\ table' = table /\ adds' = adds
      /\ \A q \in Procs \ {p} : pc'[q] = pc[q] /\ item'[q] = item[q] /\ off'[q] = off[q]
  BY <1>1 DEF Run, TypeOK
<1>3. CASE overlapped'
  BY <1>3 DEF SplitInv
<1>4. CASE ~overlapped'
  <2>1. Passed(p)'
    <3>1. \A m : \A i \in Ones(m)' : i > 0
      BY DEF Ones
    <3> QED BY <1>2, <3>1 DEF Passed
  <2>2. overlapped' = overlapped
    BY <1>1, <1>4, Zenon DEF Run, TypeOK
  <2> QED BY <1>2, <2>1, <2>2, SplitKept
<1> QED BY <1>3, <1>4

LEMMA SplitSearch ==
  ASSUME IInv, SplitInv, NEW p \in Procs, FindNext(p) \/ FindNothing(p)
  PROVE  SplitInv'
<1>1. /\ TypeOK /\ pc[p] = "find" /\ off[p] \in Nat /\ Len(table) \in Nat
      /\ off[p] <= Len(table)
      /\ table' = table /\ adds' = adds /\ item' = item /\ overlapped' = overlapped
      /\ \A q \in Procs \ {p} : pc'[q] = pc[q] /\ item'[q] = item[q] /\ off'[q] = off[q]
  BY TableFacts DEF IInv, OffsetsOK, FindNext, FindNothing, TypeOK, hist
<1>2. ASSUME ~overlapped, item[p] \in Full PROVE Passed(p)'
  <2>1. \A i \in Ones(item[p]) : i > off[p] /\ i \in 1 .. Len(table)
    BY <1>1, <1>2 DEF SplitInv, Passed, Ones
  <2>2. Ones(item[p])' = Ones(item[p])
    BY <1>1 DEF Ones
  <2>3. CASE FindNothing(p)
    <3>1. Ones(item[p]) = {}
      BY <1>1, <2>1, <2>3 DEF FindNothing
    <3>2. pc'[p] \in {"end", "idle"}
      BY <1>1, <2>3 DEF FindNothing, TypeOK
    <3> QED BY <2>2, <3>1, <3>2 DEF Passed
  <2>4. CASE FindNext(p) /\ Same(item[p], table[off[p] + 1])
    <3>1. pc'[p] \in {"read", "show"} /\ off'[p] = off[p]
      BY <1>1, <2>4 DEF FindNext, TypeOK
    <3>2. table[off[p] + 1].tail = 0 /\ table[off[p] + 1].count = 1
      BY <1>2, <2>4 DEF Same
    <3> QED BY <1>1, <3>1, <3>2 DEF Passed
  <2>5. CASE FindNext(p) /\ ~Same(item[p], table[off[p] + 1])
    <3>1. pc'[p] = "find" /\ off'[p] = off[p] + 1
      BY <1>1, <2>5 DEF FindNext, TypeOK
    <3>2. off[p] + 1 \notin Ones(item[p])
      BY <2>5 DEF Same, Ones
    <3>3. \A i \in Ones(item[p]) : i > off[p] + 1
      BY <1>1, <2>1, <3>2
    <3> QED BY <1>1, <2>2, <3>1, <3>3 DEF Passed
  <2> QED BY <2>3, <2>4, <2>5
<1>3. ASSUME ~overlapped PROVE Passed(p)'
  <2>1. CASE item[p] \in Full
    BY <1>2, <1>3, <2>1
  <2>2. CASE item[p] \notin Full
    BY <1>1, <2>2 DEF Passed
  <2> QED BY <2>1, <2>2
<1> QED BY <1>1, <1>3, SplitKept

LEMMA SplitOthers ==
  ASSUME IInv, SplitInv, NEW p \in Procs,
         SeekEnd(p) \/ ReadCount(p) \/ Show(p) \/ Fail(p)
  PROVE  SplitInv'
<1>1. /\ TypeOK
      /\ table' = table /\ adds' = adds /\ item' = item /\ overlapped' = overlapped
      /\ \A q \in Procs \ {p} : pc'[q] = pc[q] /\ item'[q] = item[q] /\ off'[q] = off[q]
  BY DEF IInv, SeekEnd, ReadCount, Show, Fail, Finish, TypeOK, hist
<1>2. ASSUME ~overlapped PROVE Passed(p)'
  <2>1. Passed(p)
    BY <1>2 DEF SplitInv
  <2>2. Ones(item[p])' = Ones(item[p])
    BY <1>1 DEF Ones
  <2>3. CASE SeekEnd(p)
    <3>1. pc[p] = "end" /\ pc'[p] = "append"
      BY <1>1, <2>3 DEF SeekEnd, TypeOK
    <3> QED BY <1>1, <2>1, <2>2, <3>1 DEF Passed
  <2>4. CASE ReadCount(p)
    <3>1. pc[p] = "read" /\ pc'[p] \in {"store", "astray"} /\ off' = off
      BY <1>1, <2>4 DEF ReadCount, TypeOK
    <3> QED BY <1>1, <2>1, <3>1 DEF Passed
  <2>5. CASE Show(p) \/ Fail(p)
    <3>1. pc'[p] = "idle"
      BY <1>1, <2>5 DEF Show, Fail, Finish, TypeOK
    <3> QED BY <3>1 DEF Passed
  <2> QED BY <2>3, <2>4, <2>5
<1> QED BY <1>1, <1>2, SplitKept

(* A misplaced write makes a record that nobody finds any more.             *)
LEMMA SplitAstray ==
  ASSUME IInv, SplitInv, NEW p \in Procs, StoreAstray(p)
  PROVE  SplitInv'
<1>1. /\ TypeOK /\ pc[p] = "astray" /\ off[p] \in Nat /\ adds' = adds /\ overlapped' = overlapped
      /\ DOMAIN table = 1 .. Len(table) /\ Len(table) \in Nat
      /\ table' \in Seq(Record) /\ SameFile
      /\ \A i \in 1 .. Len(table) : table'[i].tail \in {2, table[i].tail}
  BY TableFacts, Spoilt DEF IInv, TypeOK, StoreAstray, Finish
<1> SUFFICES ASSUME ~overlapped
             PROVE  (\A n \in Full : Split(n)') /\ \A q \in Procs : Passed(q)'
  BY <1>1 DEF SplitInv
<1>2. DOMAIN table' = 1 .. Len(table) /\ Len(table') = Len(table)
  BY <1>1, LenProperties DEF SameFile
<1>3. \A q \in Procs : pc'[q] = "idle"
  BY <1>1 DEF StoreAstray, Finish, TypeOK, IInv, AloneInv, OneAtATime
<1>4. ASSUME NEW n \in Full PROVE Split(n)'
  <2>1. Split(n)
    BY DEF SplitInv
  <2>2. Records(n)' = Records(n)
    BY <1>1, <1>2 DEF Records, SameFile
  <2>3. [i \in DOMAIN table' |-> table'[i].count] = [i \in DOMAIN table |-> table[i].count]
    BY <1>1, <1>2 DEF SameFile
  <2>4. Total(Records(n))' = Total(Records(n))
    BY <2>2, <2>3 DEF Total
  <2>5. Ones(n)' \subseteq Ones(n)
    <3> SUFFICES ASSUME NEW i \in Ones(n)' PROVE i \in Ones(n)
      OBVIOUS
    <3>1. i \in 1 .. Len(table) /\ table'[i].name = n /\ table'[i].tail = 0 /\ table'[i].count = 1
      BY <1>2 DEF Ones
    <3>2. table[i].tail = 0
      BY <1>1, <3>1
    <3> QED BY <1>1, <3>1, <3>2 DEF Ones, SameFile
  <2> QED BY <1>1, <1>2, <2>1, <2>4, <2>5 DEF Split, SameFile
<1>5. ASSUME NEW q \in Procs PROVE Passed(q)'
  <2>1. pc'[q] = "idle"
    BY <1>3
  <2> QED BY <2>1 DEF Passed
<1> QED BY <1>4, <1>5

LEMMA SplitStep == IInv /\ SplitInv /\ [Next]_vars => SplitInv'
<1> SUFFICES ASSUME IInv, SplitInv, [Next]_vars PROVE SplitInv'
  OBVIOUS
<1>1. IInv'
  BY StepInv
<1>2. CASE UNCHANGED vars
  <2>1. \A n : Ones(n)' = Ones(n) /\ Total(Records(n))' = Total(Records(n))
    BY <1>2 DEF Ones, Records, Total, vars
  <2>2. /\ table' = table /\ adds' = adds /\ overlapped' = overlapped
        /\ pc' = pc /\ item' = item /\ off' = off
    BY <1>2 DEF vars, proc, hist
  <2>3. \A n : Split(n) => Split(n)'
    BY <2>1, <2>2 DEF Split
  <2>4. \A q \in Procs : Passed(q) => Passed(q)'
    <3> SUFFICES ASSUME NEW q \in Procs, Passed(q) PROVE Passed(q)'
      OBVIOUS
    <3>1. Ones(item[q])' = Ones(item[q])
      BY <2>2 DEF Ones
    <3> QED BY <2>2, <3>1 DEF Passed
  <2> QED BY <2>2, <2>3, <2>4 DEF SplitInv
<1> QED BY <1>1, <1>2, SplitRun, SplitSearch, SplitOthers, SplitWrites, SplitAstray DEF Next

(* The adds of a name that fills its field are all in the file, in records  *)
(* of one or two, when no commands overlap.                                 *)
THEOREM FullNamesCorrect == Spec => []FullNamesSplit
<1>1. IInv /\ SplitInv => FullNamesSplit
  <2> SUFFICES ASSUME IInv, SplitInv, ~overlapped, NEW n \in Full
               PROVE  /\ Total(Records(n)) = adds[n]
                      /\ \A i \in Records(n) : table[i].count \in {1, 2}
                      /\ \A i, j \in Records(n) : Same(n, table[i]) /\ Same(n, table[j]) => i = j
    BY DEF FullNamesSplit
  <2>1. Split(n)
    BY DEF SplitInv
  <2>2. DOMAIN table = 1 .. Len(table)
    BY TableFacts DEF IInv
  <2> QED BY <2>1, <2>2 DEF Split, Ones, Records, Same
<1>2. IInv /\ SplitInv /\ [Next]_vars => IInv' /\ SplitInv'
  BY StepInv, SplitStep
<1>3. Spec => [](IInv /\ SplitInv)
  BY <1>2, InitInv, SplitInit, PTL DEF Spec
<1> QED BY <1>1, <1>3, PTL

-----------------------------------------------------------------------------
(***************************************************************************)
(* ItemJoin: the join of two tables.                                       *)
(***************************************************************************)

(* The counts of a name from the record k + 1 on.                           *)
Counts(t) == [i \in DOMAIN t |-> t[i].count]
From(t, k, n) == {i \in DOMAIN t : i > k /\ t[i].name = n}
SumFrom(t, k, n) == SumFunctionOnSet(Counts(t), From(t, k, n))
CountOf(r, n) == IF r.name = n THEN r.count ELSE 0
Raised(t, m, it) == [t EXCEPT ![m].count = @ + it.count]
Renamed(t, m, it) == [t EXCEPT ![m].tail = 2 * it.count]

LEMMA JoinSum == ASSUME NEW t \in Seq(Record), NEW n PROVE J!Sum(t, n) = SumFrom(t, 0, n)
<1>1. DOMAIN t = 1 .. Len(t) /\ Len(t) \in Nat
  BY LenProperties
<1>2. J!InTable(t, n) = From(t, 0, n)
  BY <1>1 DEF J!InTable, From
<1> QED BY <1>2 DEF J!Sum, SumFrom, Counts, J!SumFunctionOnSet, J!FoldFunctionOnSet,
           J!MapThenFoldSet, SumFunctionOnSet, FoldFunctionOnSet, MapThenFoldSet

LEMMA FromFacts ==
  ASSUME NEW t \in Seq(Record), NEW k \in Nat, NEW n
  PROVE  /\ DOMAIN t = 1 .. Len(t) /\ Len(t) \in Nat /\ (\A i \in 1 .. Len(t) : t[i] \in Record)
         /\ IsFiniteSet(From(t, k, n)) /\ \A i \in From(t, k, n) : Counts(t)[i] \in Nat
         /\ SumFrom(t, k, n) \in Nat
         /\ k >= Len(t) => SumFrom(t, k, n) = 0
<1>1. DOMAIN t = 1 .. Len(t) /\ Len(t) \in Nat /\ \A i \in 1 .. Len(t) : t[i] \in Record
  BY LenProperties, ElementOfSeq
<1>2. IsFiniteSet(From(t, k, n))
  <2>1. IsFiniteSet(1 .. Len(t)) /\ From(t, k, n) \subseteq 1 .. Len(t)
    BY <1>1, FS_Interval DEF From
  <2> QED BY <2>1, FS_Subset
<1>3. \A i \in From(t, k, n) : Counts(t)[i] \in Nat
  BY <1>1 DEF From, Counts, Record
<1>4. SumFrom(t, k, n) \in Nat
  BY <1>2, <1>3, SetSumNat DEF SumFrom
<1>5. ASSUME k >= Len(t) PROVE SumFrom(t, k, n) = 0
  <2>1. From(t, k, n) = {}
    BY <1>1, <1>5 DEF From
  <2> QED BY <2>1, SetSumNone DEF SumFrom
<1> QED BY <1>1, <1>2, <1>3, <1>4, <1>5

(* It is the sum behind the record and the record's own count.              *)
LEMMA FromNext ==
  ASSUME NEW t \in Seq(Record), NEW k \in Nat, k < Len(t), NEW n
  PROVE  SumFrom(t, k, n) = SumFrom(t, k + 1, n) + CountOf(t[k + 1], n)
<1>1. /\ DOMAIN t = 1 .. Len(t) /\ Len(t) \in Nat /\ k + 1 \in 1 .. Len(t)
      /\ t[k + 1] \in Record
  BY FromFacts
<1>2. k + 1 \in Nat /\ t[k + 1].count \in Nat
  BY <1>1 DEF Record
<1>3. SumFrom(t, k + 1, n) \in Nat /\ IsFiniteSet(From(t, k + 1, n))
      /\ \A i \in From(t, k + 1, n) : Counts(t)[i] \in Nat
  BY <1>2, FromFacts
<1>4. CASE t[k + 1].name = n
  <2> DEFINE S == From(t, k + 1, n)
  <2>1. From(t, k, n) = S \union {k + 1} /\ k + 1 \notin S
    BY <1>1, <1>4 DEF From
  <2>2. Counts(t)[k + 1] = t[k + 1].count
    BY <1>1 DEF Counts
  <2>3. IsFiniteSet(S) /\ (\A i \in S : Counts(t)[i] \in Int) /\ Counts(t)[k + 1] \in Int
    BY <1>2, <1>3, <2>2 DEF S
  <2> HIDE DEF S
  <2>4. SumFunctionOnSet(Counts(t), S \union {k + 1})
          = Counts(t)[k + 1] + SumFunctionOnSet(Counts(t), S)
    BY <2>1, <2>3, SetSumMore
  <2>5. SumFrom(t, k, n) = t[k + 1].count + SumFrom(t, k + 1, n)
    BY <2>1, <2>2, <2>4 DEF SumFrom, S
  <2>6. CountOf(t[k + 1], n) = t[k + 1].count
    BY <1>4 DEF CountOf
  <2> QED BY <1>2, <1>3, <2>5, <2>6
<1>5. CASE t[k + 1].name # n
  <2>1. From(t, k, n) = From(t, k + 1, n)
    BY <1>1, <1>5 DEF From
  <2>2. CountOf(t[k + 1], n) = 0
    BY <1>5 DEF CountOf
  <2> QED BY <1>2, <1>3, <2>1, <2>2 DEF SumFrom
<1> QED BY <1>4, <1>5

LEMMA FromSame ==
  ASSUME NEW t \in Seq(Record), NEW u \in Seq(Record), NEW k \in Nat, NEW n,
         Len(u) = Len(t), \A i \in 1 .. Len(t) : i > k => u[i] = t[i]
  PROVE  SumFrom(u, k, n) = SumFrom(t, k, n)
<1>1. DOMAIN t = 1 .. Len(t) /\ DOMAIN u = 1 .. Len(t)
  BY FromFacts
<1>2. From(u, k, n) = From(t, k, n)
  BY <1>1 DEF From
<1>3. IsFiniteSet(From(t, k, n)) /\ \A i \in From(t, k, n) : Counts(t)[i] \in Nat
  BY FromFacts
<1>4. \A i \in From(t, k, n) : Counts(t)[i] \in Int /\ Counts(t)[i] = Counts(u)[i]
  BY <1>1, <1>3 DEF From, Counts
<1> QED BY <1>2, <1>3, <1>4, SetSumSame DEF SumFrom

(* A record with another end of its name, and one with another count.       *)
LEMMA TailChanged ==
  ASSUME NEW x \in Record, NEW k \in Nat
  PROVE  /\ [x EXCEPT !.tail = k] \in Record
         /\ [x EXCEPT !.tail = k].name = x.name /\ [x EXCEPT !.tail = k].count = x.count
  BY DEF Record
LEMMA CountChanged ==
  ASSUME NEW x \in Record, NEW c \in Nat \ {0}
  PROVE  /\ [x EXCEPT !.count = c] \in Record
         /\ [x EXCEPT !.count = c].name = x.name /\ [x EXCEPT !.count = c].count = c
  BY DEF Record

(* add_item() adds the count of the item to that of its name, and leaves    *)
(* one record of a short name; a record that is like the item already is in *)
(* the table, so that what stands behind it is left alone.                  *)
LEMMA Found ==
  ASSUME NEW t \in Seq(Record), NEW it \in Record, J!find_item(t, it) # {}
  PROVE  \E m \in 1 .. Len(t) :
           /\ t[m].name = it.name
           /\ \A i \in J!find_item(t, it) : m <= i
           /\ J!add_item(t, it) = Raised(t, m, it)
<1> DEFINE F == J!find_item(t, it)
<1>1. DOMAIN t = 1 .. Len(t) /\ F \subseteq 1 .. Len(t) /\ F \in SUBSET Nat
  BY LenProperties DEF J!find_item
<1>2. \A i \in F : t[i].name = it.name
  BY DEF J!find_item, J!Same
<1> HIDE DEF F
<1>3. \E m \in F : \A i \in F : m <= i
  BY <1>1, LeastOf DEF F
<1>4. J!Min(F) \in F /\ \A i \in F : J!Min(F) <= i
  BY <1>3 DEF J!Min
<1>5. J!add_item(t, it)
        = Raised(t, J!Min(F), it)
  BY DEF J!add_item, F, Raised
<1>6. F = J!find_item(t, it)
  BY DEF F
<1> QED BY <1>1, <1>2, <1>4, <1>5, <1>6

LEMMA AddedTo ==
  ASSUME NEW t \in Seq(Record), NEW it \in Record, NEW m \in 1 .. Len(t), t[m].name = it.name,
         NEW u, u = Raised(t, m, it)
  PROVE  /\ u \in Seq(Record) /\ Len(u) = Len(t)
         /\ \A i \in 1 .. Len(t) : i # m => u[i] = t[i]
         /\ OneOfEach(t) => OneOfEach(u)
         /\ \A n : SumFrom(u, 0, n) = SumFrom(t, 0, n) + CountOf(it, n)
<1> DEFINE r == [t[m] EXCEPT !.count = @ + it.count]
<1>1. DOMAIN t = 1 .. Len(t) /\ Len(t) \in Nat /\ t[m] \in Record
  BY LenProperties, ElementOfSeq
<1>2. r \in Record /\ r.name = it.name /\ r.count = t[m].count + it.count
  <2>1. t[m].count + it.count \in Nat \ {0}
    BY <1>1 DEF Record
  <2> QED BY <1>1, <2>1, CountChanged
<1>3. u = [t EXCEPT ![m] = r]
  BY DEF Raised
<1> HIDE DEF r
<1>4. u \in Seq(Record) /\ Len(u) = Len(t) /\ u[m] = r /\ \A i \in 1 .. Len(t) : i # m => u[i] = t[i]
  BY <1>2, <1>3, ExceptSeq
<1>5. DOMAIN u = 1 .. Len(t) /\ \A i \in 1 .. Len(t) : u[i].name = t[i].name
  <2>1. DOMAIN u = 1 .. Len(t)
    BY <1>4, LenProperties
  <2> QED BY <1>2, <1>4, <2>1
<1>6. ASSUME OneOfEach(t) PROVE OneOfEach(u)
  BY <1>1, <1>5, <1>6 DEF OneOfEach
<1>7. ASSUME NEW n PROVE SumFrom(u, 0, n) = SumFrom(t, 0, n) + CountOf(it, n)
  <2>1. From(u, 0, n) = From(t, 0, n)
    BY <1>1, <1>5 DEF From
  <2>2. SumFrom(t, 0, n) \in Nat /\ IsFiniteSet(From(t, 0, n))
        /\ \A i \in From(t, 0, n) : Counts(t)[i] \in Int
    <3>1. 0 \in Nat
      OBVIOUS
    <3>2. SumFrom(t, 0, n) \in Nat /\ IsFiniteSet(From(t, 0, n))
          /\ \A i \in From(t, 0, n) : Counts(t)[i] \in Nat
      BY <3>1, FromFacts
    <3> QED BY <3>2
  <2>3. \A i \in From(t, 0, n) : i # m => Counts(u)[i] = Counts(t)[i]
    BY <1>1, <1>4, <1>5 DEF From, Counts
  <2>4. Counts(u)[m] = t[m].count + it.count /\ Counts(t)[m] = t[m].count
        /\ Counts(u)[m] \in Int /\ t[m].count \in Nat /\ it.count \in Nat
    <3>1. t[m].count \in Nat /\ it.count \in Nat
      BY <1>1 DEF Record
    <3>2. Counts(t)[m] = t[m].count /\ Counts(u)[m] = t[m].count + it.count
      BY <1>1, <1>2, <1>4, <1>5 DEF Counts
    <3> QED BY <3>1, <3>2
  <2>5. CASE it.name = n
    <3>1. m \in From(t, 0, n)
      BY <1>1, <2>5 DEF From
    <3> DEFINE S == From(t, 0, n)
               f == Counts(t)
               e == Counts(u)
    <3> HIDE DEF S, f, e
    <3>2. IsFiniteSet(S) /\ m \in S /\ (\A i \in S : f[i] \in Int) /\ e[m] \in Int
          /\ \A i \in S : i # m => e[i] = f[i]
      BY <2>2, <2>3, <2>4, <3>1, Zenon DEF S, f, e
    <3>3. SumFunctionOnSet(e, S) = SumFunctionOnSet(f, S) + (e[m] - f[m])
      BY ONLY <3>2, SetSumChanged
    <3>4. SumFrom(u, 0, n) = SumFrom(t, 0, n) + (Counts(u)[m] - Counts(t)[m])
      BY <2>1, <3>3 DEF SumFrom, S, e, f
    <3>5. CountOf(it, n) = it.count
      BY <2>5 DEF CountOf
    <3> QED BY <2>2, <2>4, <3>4, <3>5
  <2>6. CASE it.name # n
    <3>1. m \notin From(t, 0, n)
      BY <2>6 DEF From
    <3>2. \A i \in From(t, 0, n) : Counts(t)[i] = Counts(u)[i]
      BY <2>3, <3>1
    <3>3. SumFunctionOnSet(Counts(u), From(t, 0, n)) = SumFunctionOnSet(Counts(t), From(t, 0, n))
      BY <2>2, <3>2, SetSumSame
    <3>4. CountOf(it, n) = 0
      BY <2>6 DEF CountOf
    <3> QED BY <2>1, <2>2, <3>3, <3>4 DEF SumFrom
  <2> QED BY <2>5, <2>6
<1> QED BY <1>4, <1>6, <1>7

LEMMA Appended ==
  ASSUME NEW t \in Seq(Record), NEW it \in Record, J!find_item(t, it) = {},
         NEW u, u = Append(t, it)
  PROVE  /\ u \in Seq(Record)
         /\ OneOfEach(t) => OneOfEach(u)
         /\ \A n : SumFrom(u, 0, n) = SumFrom(t, 0, n) + CountOf(it, n)
<1>1. PICK l \in Nat : l = Len(t) /\ DOMAIN t = 1 .. l
  BY LenProperties
<1>2. /\ u \in Seq(Record) /\ Len(u) = l + 1 /\ u[l + 1] = it
      /\ \A i \in 1 .. l : u[i] = t[i]
  BY <1>1, AppendProperties
<1>3. DOMAIN u = 1 .. l + 1 /\ \A i \in 1 .. l + 1 : i \in 1 .. l \/ i = l + 1
  BY <1>1, <1>2, LenProperties
<1>4. ASSUME OneOfEach(t) PROVE OneOfEach(u)
  <2>1. it.name \in Short => \A i \in 1 .. l : t[i].name # it.name
    BY <1>1, NamesAssumption DEF J!find_item, J!Same
  <2> QED BY <1>1, <1>2, <1>3, <1>4, <2>1 DEF OneOfEach
<1>5. ASSUME NEW n PROVE SumFrom(u, 0, n) = SumFrom(t, 0, n) + CountOf(it, n)
  <2> DEFINE S == From(t, 0, n)
             f == Counts(t)
             e == Counts(u)
  <2>1. SumFrom(t, 0, n) \in Nat /\ IsFiniteSet(S) /\ \A i \in S : f[i] \in Int
    <3>1. 0 \in Nat
      OBVIOUS
    <3>2. SumFrom(t, 0, n) \in Nat /\ IsFiniteSet(S) /\ \A i \in S : f[i] \in Nat
      BY <3>1, FromFacts
    <3> QED BY <3>2
  <2>2. S \subseteq 1 .. l /\ l + 1 \notin S /\ e[l + 1] = it.count /\ it.count \in Nat
        /\ \A i \in S : f[i] = e[i] /\ e[i] \in Int
    BY <1>1, <1>2, <1>3, <2>1 DEF From, Counts, Record
  <2>3. From(u, 0, n) = IF it.name = n THEN S \union {l + 1} ELSE S
    BY <1>1, <1>2, <1>3 DEF From
  <2>4. SumFrom(t, 0, n) = SumFunctionOnSet(f, S) /\ SumFrom(u, 0, n) = SumFunctionOnSet(e, From(u, 0, n))
    BY DEF SumFrom
  <2> HIDE DEF S, f, e
  <2>5. SumFunctionOnSet(e, S) = SumFunctionOnSet(f, S)
    BY <2>1, <2>2, SetSumSame
  <2>6. SumFunctionOnSet(e, S \union {l + 1}) = e[l + 1] + SumFunctionOnSet(e, S)
    <3>1. e[l + 1] \in Int
      BY <2>2
    <3> QED BY <2>1, <2>2, <3>1, SetSumMore
  <2>7. CASE it.name = n
    <3>1. SumFrom(u, 0, n) = e[l + 1] + SumFunctionOnSet(e, S) /\ CountOf(it, n) = it.count
      BY <2>3, <2>4, <2>6, <2>7 DEF CountOf
    <3> QED BY <2>1, <2>2, <2>4, <2>5, <3>1
  <2>8. CASE it.name # n
    <3>1. SumFrom(u, 0, n) = SumFunctionOnSet(e, S) /\ CountOf(it, n) = 0
      BY <2>3, <2>4, <2>8 DEF CountOf
    <3> QED BY <2>1, <2>4, <2>5, <3>1
  <2> QED BY <2>7, <2>8
<1> QED BY <1>2, <1>4, <1>5

Added(t, it, u) ==
  /\ u \in Seq(Record)
  /\ OneOfEach(t) => OneOfEach(u)
  /\ \A n : SumFrom(u, 0, n) = SumFrom(t, 0, n) + CountOf(it, n)
  /\ \A k \in 1 .. Len(t) : t[k] = it =>
       Len(u) = Len(t) /\ \A i \in 1 .. Len(t) : i > k => u[i] = t[i]

LEMMA AddItem ==
  ASSUME NEW t \in Seq(Record), NEW it \in Record
  PROVE  Added(t, it, J!add_item(t, it))
<1> SUFFICES ASSUME NEW u, u = J!add_item(t, it) PROVE Added(t, it, u)
  OBVIOUS
<1>1. CASE J!find_item(t, it) = {}
  <2>1. u = Append(t, it)
    BY <1>1 DEF J!add_item
  <2>2. \A k \in 1 .. Len(t) : t[k] # it
    BY <1>1, LenProperties DEF J!find_item, J!Same
  <2> QED BY <1>1, <2>1, <2>2, Appended DEF Added
<1>2. CASE J!find_item(t, it) # {}
  <2>1. PICK m \in 1 .. Len(t) :
          /\ t[m].name = it.name
          /\ \A i \in J!find_item(t, it) : m <= i
          /\ u = Raised(t, m, it)
    BY <1>2, Found
  <2>2. /\ u \in Seq(Record) /\ Len(u) = Len(t)
        /\ \A i \in 1 .. Len(t) : i # m => u[i] = t[i]
        /\ OneOfEach(t) => OneOfEach(u)
        /\ \A n : SumFrom(u, 0, n) = SumFrom(t, 0, n) + CountOf(it, n)
    <3>1. t[m].name = it.name /\ u = Raised(t, m, it)
      BY <2>1
    <3> QED BY <3>1, AddedTo
  <2>3. ASSUME NEW k \in 1 .. Len(t), t[k] = it, NEW i \in 1 .. Len(t), i > k
        PROVE  u[i] = t[i]
    <3>1. k \in J!find_item(t, it)
      BY <2>3, LenProperties DEF J!find_item, J!Same
    <3>2. m <= k
      BY <2>1, <3>1
    <3> QED BY <2>2, <2>3, <3>2
  <2> QED BY <2>2, <2>3 DEF Added
<1> QED BY <1>1, <1>2

(* A misplaced write changes no count and nothing of a short name.          *)
LEMMA AddAstray ==
  ASSUME NEW t \in Seq(Record), NEW it \in Record, NEW u, u = J!add_astray(t, it)
  PROVE  /\ u \in Seq(Record)
         /\ OneOfEach(t) => OneOfEach(u)
         /\ \A k \in Nat : \A n : SumFrom(u, k, n) = SumFrom(t, k, n)
<1>1. CASE u = t
  BY <1>1
<1>2. CASE u # t
  <2> DEFINE F == J!find_item(t, it)
  <2>1. DOMAIN t = 1 .. Len(t) /\ Len(t) \in Nat /\ F \subseteq 1 .. Len(t) /\ F \in SUBSET Nat
    BY LenProperties DEF J!find_item
  <2>2. F # {} /\ u = Renamed(t, J!Min(F), it)
    BY <1>2 DEF J!add_astray, Renamed
  <2> HIDE DEF F
  <2>3. PICK m \in 1 .. Len(t) : m = J!Min(F)
    <3>1. \E i \in F : \A j \in F : i <= j
      BY <2>1, <2>2, LeastOf
    <3> QED BY <2>1, <3>1 DEF J!Min
  <2> DEFINE r == [t[m] EXCEPT !.tail = 2 * it.count]
  <2>4. r \in Record /\ r.name = t[m].name /\ r.count = t[m].count
    <3>1. t[m] \in Record /\ it.count \in Nat
      BY <2>1, ElementOfSeq DEF Record
    <3>3. 2 * it.count \in Nat
      BY <3>1
    <3> QED BY <3>1, <3>3, TailChanged
  <2>5. u = [t EXCEPT ![m] = r]
    BY <2>2, <2>3 DEF Renamed
  <2> HIDE DEF r
  <2>6. u \in Seq(Record) /\ Len(u) = Len(t) /\ u[m] = r /\ \A i \in 1 .. Len(t) : i # m => u[i] = t[i]
    BY <2>4, <2>5, ExceptSeq
  <2>7. /\ DOMAIN u = DOMAIN t
        /\ \A i \in DOMAIN t : u[i].name = t[i].name /\ u[i].count = t[i].count
    <3>1. DOMAIN u = 1 .. Len(t)
      BY <2>6, LenProperties
    <3> QED BY <2>1, <2>4, <2>6, <3>1
  <2>8. \A k \in Nat : \A n : SumFrom(u, k, n) = SumFrom(t, k, n)
    <3>1. \A k \in Nat : \A n : From(u, k, n) = From(t, k, n)
      BY <2>7 DEF From
    <3>2. Counts(u) = Counts(t)
      BY <2>7 DEF Counts
    <3> QED BY <3>1, <3>2 DEF SumFrom
  <2>9. OneOfEach(t) => OneOfEach(u)
    BY <2>7 DEF OneOfEach
  <2> QED BY <2>6, <2>8, <2>9
<1> QED BY <1>1, <1>2

(* The invariant of a join.  What the output holds of a name and what the   *)
(* input that is read still holds of it are together the sum that the loop  *)
(* is to reach: that of the first input, then Joined.  A record that could  *)
(* not be added only makes it less.                                         *)
Output == disk[args[3]]
ToCome(n) == IF loop = 3 THEN 0 ELSE SumFrom(J!Input, pos, n)
Held(n) == SumFrom(Output, 0, n) + ToCome(n)
OfInput(k, n) == IF args[k] = args[3] THEN 0 ELSE J!Sum(before[args[k]], n)
Goal(n) == IF loop = 1 THEN OfInput(1, n) ELSE J!Joined(n)

JoinTypeOK ==
  /\ disk \in [Files -> Seq(Record)] /\ before \in [Files -> Seq(Record)]
  /\ args \in [1 .. 3 -> Files] /\ loop \in 0 .. 3 /\ pos \in Nat /\ failed \in BOOLEAN

JoinInv ==
  /\ JoinTypeOK
  /\ loop = 0 => disk = before /\ pos = 0 /\ \A f \in Files : OneOfEach(disk[f])
  /\ loop # 0 =>
       /\ \A f \in Files \ {args[3]} : disk[f] = before[f]
       /\ OneOfEach(Output)
       /\ \A n \in Names : Held(n) <= Goal(n) /\ (failed \/ Held(n) = Goal(n))

LEMMA JoinTypes ==
  ASSUME JoinTypeOK, NEW n
  PROVE  /\ Output \in Seq(Record) /\ SumFrom(Output, 0, n) \in Nat
         /\ \A k \in 1 .. 3 : args[k] \in Files /\ OfInput(k, n) \in Nat
         /\ J!Joined(n) = IF args[2] = args[3] THEN 2 * OfInput(1, n)
                          ELSE OfInput(1, n) + OfInput(2, n)
         /\ \A f \in Files : J!Sum(before[f], n) = SumFrom(before[f], 0, n)
         /\ loop \in 1 .. 3 => J!Input \in Seq(Record) /\ SumFrom(J!Input, pos, n) \in Nat
<1>1. 1 \in 1 .. 3 /\ 2 \in 1 .. 3 /\ 3 \in 1 .. 3 /\ 0 \in Nat
  OBVIOUS
<1>2. (\A k \in 1 .. 3 : args[k] \in Files) /\ pos \in Nat
  BY DEF JoinTypeOK
<1>3. \A f \in Files : disk[f] \in Seq(Record) /\ before[f] \in Seq(Record)
  BY DEF JoinTypeOK
<1>4. Output \in Seq(Record) /\ (loop \in 1 .. 3 => J!Input \in Seq(Record))
  BY <1>1, <1>2, <1>3 DEF Output, J!Input
<1>5. \A f \in Files : J!Sum(before[f], n) = SumFrom(before[f], 0, n)
  BY <1>3, JoinSum
<1>6. \A t \in Seq(Record) : \A k \in Nat : SumFrom(t, k, n) \in Nat
  BY FromFacts
<1>7. \A k \in 1 .. 3 : OfInput(k, n) \in Nat
  BY <1>1, <1>2, <1>3, <1>5, <1>6 DEF OfInput
<1>8. J!Joined(n) = IF args[2] = args[3] THEN 2 * OfInput(1, n)
                    ELSE OfInput(1, n) + OfInput(2, n)
  BY DEF J!Joined, OfInput
<1> QED BY <1>1, <1>2, <1>4, <1>5, <1>6, <1>7, <1>8

LEMMA JoinInit == J!Init => JoinInv
<1> SUFFICES ASSUME J!Init PROVE JoinInv
  OBVIOUS
<1>1. \A f \in Files : disk[f] \in Tables
  BY DEF J!Init
<1>2. \A f \in Files : disk[f] \in Seq(Record) /\ OneOfEach(disk[f])
  BY <1>1, TablesAssumption DEF Record
<1>3. disk \in [Files -> Seq(Record)]
  BY <1>2 DEF J!Init
<1>4. /\ disk = before /\ args \in [1 .. 3 -> Files] /\ loop = 0 /\ pos = 0 /\ failed = FALSE
  BY DEF J!Init
<1>5. JoinTypeOK
  <2>1. before \in [Files -> Seq(Record)]
    BY <1>3, <1>4
  <2>2. loop \in 0 .. 3 /\ pos \in Nat
    BY <1>4
  <2>3. failed \in BOOLEAN
    BY <1>4, Zenon
  <2> QED BY <1>3, <1>4, <2>1, <2>2, <2>3, Zenon DEF JoinTypeOK
<1> QED BY <1>2, <1>4, <1>5 DEF JoinInv

(* What does not move in a step.                                            *)
LEMMA JoinRigid ==
  ASSUME UNCHANGED <<before, args>>
  PROVE  \A n : /\ J!Joined(n)' = J!Joined(n)
                /\ \A k : OfInput(k, n)' = OfInput(k, n)
<1>1. before' = before /\ args' = args
  OBVIOUS
<1> QED BY <1>1 DEF J!Joined, J!Sum, J!InTable, OfInput

LEMMA JoinOpen == ASSUME JoinInv, J!Open PROVE JoinInv'
<1> DEFINE o == args[3]
<1>1. /\ JoinTypeOK /\ loop = 0 /\ loop' = 1 /\ disk = before /\ pos = 0 /\ pos' = 0
      /\ o \in Files /\ before' = before /\ args' = args /\ failed' = failed
      /\ disk' = [disk EXCEPT ![o] = <<>>]
  BY DEF JoinInv, J!Open, JoinTypeOK
<1>2. <<>> \in Seq(Record) /\ Len(<<>>) = 0 /\ DOMAIN <<>> = {}
  BY EmptySeq
<1>3. disk'[o] = <<>> /\ \A f \in Files : f # o => disk'[f] = disk[f]
  BY <1>1 DEF JoinTypeOK
<1>4. JoinTypeOK'
  BY <1>1, <1>2 DEF JoinTypeOK
<1>5. OneOfEach(Output)'
  BY <1>1, <1>2, <1>3 DEF OneOfEach, Output
<1>6. ASSUME NEW n \in Names PROVE Held(n)' = Goal(n)'
  <2>1. /\ args[1] \in Files /\ OfInput(1, n) \in Nat
        /\ J!Sum(before[args[1]], n) = SumFrom(before[args[1]], 0, n)
    <3>1. 1 \in 1 .. 3
      OBVIOUS
    <3> QED BY <1>1, <3>1, JoinTypes
  <2>2. SumFrom(<<>>, 0, n) = 0
    <3>1. 0 \in Nat /\ 0 >= Len(<<>>)
      BY <1>2
    <3> QED BY <1>2, <3>1, FromFacts
  <2>3. Goal(n)' = OfInput(1, n)
    <3>1. OfInput(1, n)' = OfInput(1, n)
      BY <1>1, JoinRigid
    <3> QED BY <1>1, <3>1 DEF Goal
  <2>4. Held(n)' = SumFrom(<<>>, 0, n) + SumFrom(disk'[args[1]], 0, n)
    <3>1. Output' = <<>> /\ J!Input' = disk'[args[1]] /\ pos' = 0 /\ loop' = 1
      BY <1>1, <1>3 DEF Output, J!Input
    <3> QED BY <3>1 DEF Held, ToCome
  <2>5. SumFrom(disk'[args[1]], 0, n) = OfInput(1, n)
    <3>1. CASE args[1] = o
      BY <1>3, <2>2, <3>1 DEF OfInput
    <3>2. CASE args[1] # o
      BY <1>1, <1>3, <2>1, <3>2 DEF OfInput
    <3> QED BY <3>1, <3>2
  <2> QED BY <2>1, <2>2, <2>3, <2>4, <2>5
<1>7. \A n \in Names : Held(n)' <= Goal(n)'
  <2>1. \A n \in Names : Goal(n)' \in Nat
    <3> SUFFICES ASSUME NEW n \in Names PROVE Goal(n)' \in Nat
      OBVIOUS
    <3>1. OfInput(1, n)' = OfInput(1, n) /\ OfInput(1, n) \in Nat
      BY <1>1, JoinRigid, JoinTypes
    <3> QED BY <1>1, <3>1 DEF Goal
  <2> QED BY <1>6, <2>1
<1> QED BY <1>1, <1>3, <1>4, <1>5, <1>6, <1>7 DEF JoinInv

LEMMA JoinNext == ASSUME JoinInv, J!AddNext PROVE JoinInv'
<1> DEFINE o == args[3]
           t == disk[args[3]]
           it == J!Input[pos + 1]
<1>1. /\ JoinTypeOK /\ loop \in 1 .. 3 /\ loop # 0 /\ loop # 3 /\ pos \in Nat
      /\ pos < Len(J!Input) /\ pos' = pos + 1
      /\ before' = before /\ args' = args /\ loop' = loop
  BY DEF JoinInv, J!AddNext, JoinTypeOK
<1>2. /\ o \in Files /\ args[loop] \in Files /\ J!Input \in Seq(Record) /\ t \in Seq(Record)
      /\ t = Output /\ OneOfEach(t) /\ Len(J!Input) \in Nat
      /\ \A f \in Files \ {o} : disk[f] = before[f]
  BY <1>1, LenProperties DEF JoinInv, JoinTypeOK, J!Input, Output
<1>3. pos + 1 \in Nat /\ pos + 1 \in 1 .. Len(J!Input) /\ it \in Record
  BY <1>1, <1>2, ElementOfSeq
<1>4. ASSUME NEW n \in Names
      PROVE  /\ SumFrom(J!Input, pos, n) = SumFrom(J!Input, pos + 1, n) + CountOf(it, n)
             /\ SumFrom(J!Input, pos, n) \in Nat /\ SumFrom(J!Input, pos + 1, n) \in Nat
             /\ SumFrom(t, 0, n) \in Nat /\ CountOf(it, n) \in Nat
             /\ Held(n) = SumFrom(t, 0, n) + SumFrom(J!Input, pos, n)
             /\ Goal(n)' = Goal(n) /\ Goal(n) \in Nat
             /\ Held(n) <= Goal(n) /\ (failed \/ Held(n) = Goal(n))
  <2>1. SumFrom(J!Input, pos, n) = SumFrom(J!Input, pos + 1, n) + CountOf(it, n)
    BY <1>1, <1>2, FromNext
  <2>2. /\ SumFrom(J!Input, pos, n) \in Nat /\ SumFrom(J!Input, pos + 1, n) \in Nat
        /\ SumFrom(t, 0, n) \in Nat
    <3>1. 0 \in Nat
      OBVIOUS
    <3> QED BY <1>1, <1>2, <1>3, <3>1, FromFacts
  <2>3. CountOf(it, n) \in Nat
    BY <1>3 DEF CountOf, Record
  <2>4. Held(n) = SumFrom(t, 0, n) + SumFrom(J!Input, pos, n)
    BY <1>1, <1>2 DEF Held, ToCome
  <2>5. Goal(n)' = Goal(n)
    <3>1. J!Joined(n)' = J!Joined(n) /\ OfInput(1, n)' = OfInput(1, n)
      BY <1>1, JoinRigid
    <3> QED BY <1>1, <3>1 DEF Goal
  <2>6. Goal(n) \in Nat
    <3>1. 1 \in 1 .. 3 /\ 2 \in 1 .. 3
      OBVIOUS
    <3>2. /\ OfInput(1, n) \in Nat /\ OfInput(2, n) \in Nat
          /\ J!Joined(n) = IF args[2] = args[3] THEN 2 * OfInput(1, n)
                           ELSE OfInput(1, n) + OfInput(2, n)
      BY <1>1, <3>1, JoinTypes
    <3> QED BY <3>2 DEF Goal
  <2>7. Held(n) <= Goal(n) /\ (failed \/ Held(n) = Goal(n))
    BY <1>1 DEF JoinInv
  <2> QED BY <2>1, <2>2, <2>3, <2>4, <2>5, <2>6, <2>7
<1>5. CASE disk' = [disk EXCEPT ![o] = J!add_item(@, it)] /\ failed' = failed
  <2>1. PICK u : u = J!add_item(t, it)
    OBVIOUS
  <2>2. /\ u \in Seq(Record) /\ (OneOfEach(t) => OneOfEach(u))
        /\ \A n : SumFrom(u, 0, n) = SumFrom(t, 0, n) + CountOf(it, n)
        /\ \A k \in 1 .. Len(t) : t[k] = it =>
             Len(u) = Len(t) /\ \A i \in 1 .. Len(t) : i > k => u[i] = t[i]
    <3>1. t \in Seq(Record) /\ it \in Record
      BY <1>2, <1>3
    <3> HIDE DEF t, it
    <3>2. Added(t, it, u)
      BY <2>1, <3>1, AddItem
    <3> QED BY <3>2 DEF Added
  <2>3. disk' = [disk EXCEPT ![o] = u]
    BY <1>5, <2>1
  <2>4. disk'[o] = u /\ \A f \in Files : f # o => disk'[f] = disk[f]
    BY <1>1, <1>2, <2>3 DEF JoinTypeOK
  <2>5. JoinTypeOK'
    <3>1. disk' \in [Files -> Seq(Record)]
      BY <1>1, <1>2, <2>2, <2>3 DEF JoinTypeOK
    <3> QED BY <1>1, <1>3, <1>5, <3>1 DEF JoinTypeOK
  <2>6. Output' = u /\ J!Input' = disk'[args[loop]]
    BY <1>1, <2>4 DEF Output, J!Input
  <2>7. OneOfEach(Output)'
    <3>1. OneOfEach(u)
      BY <1>2, <2>2
    <3> QED BY <2>6, <3>1 DEF OneOfEach
  <2>8. ASSUME NEW n \in Names PROVE SumFrom(disk'[args[loop]], pos + 1, n) = SumFrom(J!Input, pos + 1, n)
    <3>1. CASE args[loop] # o
      <4>1. disk'[args[loop]] = J!Input
        BY <1>2, <2>4, <3>1 DEF J!Input
      <4> QED BY <4>1
    <3>2. CASE args[loop] = o
      <4>1. J!Input = t /\ disk'[args[loop]] = u
        BY <2>4, <3>2 DEF J!Input
      <4>2. pos + 1 \in 1 .. Len(t) /\ t[pos + 1] = it
        BY <1>3, <4>1
      <4>3. Len(u) = Len(t) /\ \A i \in 1 .. Len(t) : i > pos + 1 => u[i] = t[i]
        BY <2>2, <4>2
      <4>4. SumFrom(u, pos + 1, n) = SumFrom(t, pos + 1, n)
        BY <1>2, <1>3, <2>2, <4>3, FromSame
      <4> QED BY <4>1, <4>4
    <3> QED BY <3>1, <3>2
  <2>9. ASSUME NEW n \in Names PROVE Held(n)' = Held(n)
    <3>1. Held(n)' = SumFrom(u, 0, n) + SumFrom(disk'[args[loop]], pos + 1, n)
      BY <1>1, <2>6 DEF Held, ToCome
    <3>2. SumFrom(u, 0, n) = SumFrom(t, 0, n) + CountOf(it, n)
      BY <2>2
    <3> HIDE DEF t, it
    <3> QED BY <1>4, <2>8, <3>1, <3>2
  <2>10. \A n \in Names : Held(n)' <= Goal(n)' /\ (failed' \/ Held(n)' = Goal(n)')
    BY <1>4, <1>5, <2>9
  <2>11. \A f \in Files \ {o} : disk'[f] = before[f]
    BY <1>2, <2>4
  <2> QED BY <1>1, <2>5, <2>7, <2>10, <2>11 DEF JoinInv
<1>6. CASE failed' = TRUE /\ disk' = disk
  <2>1. Output' = t /\ J!Input' = J!Input
    BY <1>1, <1>6 DEF Output, J!Input
  <2>2. JoinTypeOK'
    BY <1>1, <1>3, <1>6 DEF JoinTypeOK
  <2>3. OneOfEach(Output)'
    BY <1>2, <2>1 DEF OneOfEach
  <2>4. ASSUME NEW n \in Names PROVE Held(n)' <= Goal(n)'
    <3>1. Held(n)' = SumFrom(t, 0, n) + SumFrom(J!Input, pos + 1, n)
      BY <1>1, <2>1 DEF Held, ToCome
    <3> HIDE DEF t, it
    <3> QED BY <1>4, <3>1
  <2> QED BY <1>1, <1>2, <1>6, <2>2, <2>3, <2>4 DEF JoinInv
<1>7. CASE failed' = TRUE /\ disk' = [disk EXCEPT ![o] = J!add_astray(@, it)]
  <2>1. PICK u : u = J!add_astray(t, it)
    OBVIOUS
  <2>2. /\ u \in Seq(Record) /\ (OneOfEach(t) => OneOfEach(u))
        /\ \A k \in Nat : \A n : SumFrom(u, k, n) = SumFrom(t, k, n)
    <3>1. t \in Seq(Record) /\ it \in Record
      BY <1>2, <1>3
    <3> HIDE DEF t, it
    <3> QED BY <2>1, <3>1, AddAstray
  <2>3. disk' = [disk EXCEPT ![o] = u]
    BY <1>7, <2>1
  <2>4. disk'[o] = u /\ \A f \in Files : f # o => disk'[f] = disk[f]
    BY <1>1, <1>2, <2>3 DEF JoinTypeOK
  <2>5. JoinTypeOK'
    <3>1. disk' \in [Files -> Seq(Record)]
      BY <1>1, <1>2, <2>2, <2>3 DEF JoinTypeOK
    <3> QED BY <1>1, <1>3, <1>7, <3>1 DEF JoinTypeOK
  <2>6. Output' = u /\ J!Input' = disk'[args[loop]]
    BY <1>1, <2>4 DEF Output, J!Input
  <2>7. OneOfEach(Output)'
    <3>1. OneOfEach(u)
      BY <1>2, <2>2
    <3> QED BY <2>6, <3>1 DEF OneOfEach
  <2>8. ASSUME NEW n \in Names PROVE Held(n)' <= Goal(n)'
    <3>1. Held(n)' = SumFrom(u, 0, n) + SumFrom(disk'[args[loop]], pos + 1, n)
      BY <1>1, <2>6 DEF Held, ToCome
    <3>2. SumFrom(u, 0, n) = SumFrom(t, 0, n)
      <4>1. 0 \in Nat
        OBVIOUS
      <4> QED BY <2>2, <4>1
    <3>3. SumFrom(disk'[args[loop]], pos + 1, n) = SumFrom(J!Input, pos + 1, n)
      <4>1. CASE args[loop] # o
        BY <1>2, <2>4, <4>1 DEF J!Input
      <4>2. CASE args[loop] = o
        <5>1. J!Input = t /\ disk'[args[loop]] = u
          BY <2>4, <4>2 DEF J!Input
        <5> QED BY <1>3, <2>2, <5>1
      <4> QED BY <4>1, <4>2
    <3> HIDE DEF t, it
    <3> QED BY <1>4, <3>1, <3>2, <3>3
  <2>9. \A f \in Files \ {o} : disk'[f] = before[f]
    BY <1>2, <2>4
  <2> QED BY <1>1, <1>7, <2>5, <2>7, <2>8, <2>9 DEF JoinInv
<1> QED BY <1>5, <1>6, <1>7 DEF J!AddNext

LEMMA JoinOther == ASSUME JoinInv, J!EndOfInput \/ J!FailRead PROVE JoinInv'
<1>1. /\ JoinTypeOK /\ loop \in {1, 2} /\ loop # 0 /\ loop \in 1 .. 3 /\ loop # 3
      /\ disk' = disk /\ before' = before /\ args' = args
      /\ loop' \in 1 .. 3 /\ loop' # 0 /\ pos \in Nat /\ 3 \in 1 .. 3
      /\ args[1] \in Files /\ args[2] \in Files /\ args[3] \in Files
  BY DEF JoinInv, J!EndOfInput, J!FailRead, JoinTypeOK
<1>2. JoinTypeOK'
  <2>1. CASE J!EndOfInput
    BY <1>1, <2>1 DEF J!EndOfInput, JoinTypeOK
  <2>2. CASE J!FailRead
    BY <1>1, <2>2 DEF J!FailRead, JoinTypeOK
  <2> QED BY <2>1, <2>2
<1>3. Output' = Output /\ Output \in Seq(Record) /\ J!Input \in Seq(Record)
  BY <1>1, JoinTypes DEF Output
<1>4. OneOfEach(Output)' /\ \A f \in Files \ {args[3]} : disk'[f] = before[f]
  BY <1>1, <1>3 DEF JoinInv, OneOfEach
<1>5. ASSUME NEW n \in Names
      PROVE  /\ J!Joined(n)' = J!Joined(n) /\ OfInput(1, n)' = OfInput(1, n)
             /\ OfInput(1, n) \in Nat /\ OfInput(2, n) \in Nat
             /\ J!Joined(n) = IF args[2] = args[3] THEN 2 * OfInput(1, n)
                              ELSE OfInput(1, n) + OfInput(2, n)
             /\ SumFrom(Output, 0, n) \in Nat /\ SumFrom(J!Input, pos, n) \in Nat
             /\ Held(n) = SumFrom(Output, 0, n) + SumFrom(J!Input, pos, n)
             /\ Held(n) <= Goal(n) /\ (failed \/ Held(n) = Goal(n))
  <2>1. J!Joined(n)' = J!Joined(n) /\ OfInput(1, n)' = OfInput(1, n)
    BY <1>1, JoinRigid
  <2>2. 1 \in 1 .. 3 /\ 2 \in 1 .. 3
    OBVIOUS
  <2>3. /\ OfInput(1, n) \in Nat /\ OfInput(2, n) \in Nat
        /\ J!Joined(n) = IF args[2] = args[3] THEN 2 * OfInput(1, n)
                         ELSE OfInput(1, n) + OfInput(2, n)
        /\ SumFrom(Output, 0, n) \in Nat /\ SumFrom(J!Input, pos, n) \in Nat
    BY <1>1, <2>2, JoinTypes
  <2>4. Held(n) = SumFrom(Output, 0, n) + SumFrom(J!Input, pos, n)
    BY <1>1 DEF Held, ToCome
  <2>5. Held(n) <= Goal(n) /\ (failed \/ Held(n) = Goal(n))
    BY <1>1 DEF JoinInv
  <2> QED BY <2>1, <2>3, <2>4, <2>5
<1>6. CASE J!FailRead
  <2>1. loop' = 3 /\ failed' = TRUE
    BY <1>6 DEF J!FailRead
  <2>2. ASSUME NEW n \in Names PROVE Held(n)' <= Goal(n)'
    <3>1. Held(n)' = SumFrom(Output, 0, n) + 0
      BY <1>3, <2>1 DEF Held, ToCome
    <3>2. Goal(n)' = J!Joined(n)
      BY <1>5, <2>1 DEF Goal
    <3>3. Goal(n) = IF loop = 1 THEN OfInput(1, n) ELSE J!Joined(n)
      BY DEF Goal
    <3> QED BY <1>5, <3>1, <3>2, <3>3
  <2> QED BY <1>1, <1>2, <1>4, <2>1, <2>2 DEF JoinInv
<1>7. CASE J!EndOfInput
  <2>1. /\ loop' = (IF loop = 1 THEN 2 ELSE 3) /\ pos' = 0 /\ failed' = failed
        /\ pos >= Len(J!Input)
    BY <1>7 DEF J!EndOfInput
  <2>2. ASSUME NEW n \in Names PROVE SumFrom(J!Input, pos, n) = 0
    BY <1>1, <1>3, <2>1, FromFacts
  <2>3. ASSUME NEW n \in Names PROVE Held(n)' <= Goal(n)' /\ (failed' \/ Held(n)' = Goal(n)')
    <3>1. Goal(n)' = J!Joined(n)
      BY <1>1, <1>5, <2>1 DEF Goal
    <3>2. CASE loop = 1
      <4>1. Goal(n) = OfInput(1, n)
        BY <3>2 DEF Goal
      <4>2. Held(n)' = SumFrom(Output, 0, n) + SumFrom(disk[args[2]], 0, n)
        <5>1. J!Input' = disk[args[2]] /\ loop' = 2
          BY <1>1, <2>1, <3>2 DEF J!Input
        <5> QED BY <1>3, <2>1, <5>1 DEF Held, ToCome
      <4>3. CASE args[2] = args[3]
        <5>1. SumFrom(disk[args[2]], 0, n) = SumFrom(Output, 0, n)
          BY <4>3 DEF Output
        <5> QED BY <1>5, <2>1, <2>2, <3>1, <4>1, <4>2, <4>3, <5>1
      <4>4. CASE args[2] # args[3]
        <5>1. disk[args[2]] = before[args[2]]
          BY <1>1, <4>4 DEF JoinInv
        <5>2. J!Sum(before[args[2]], n) = SumFrom(before[args[2]], 0, n)
          BY <1>1, JoinTypes
        <5>3. SumFrom(disk[args[2]], 0, n) = OfInput(2, n)
          BY <4>4, <5>1, <5>2 DEF OfInput
        <5> QED BY <1>5, <2>1, <2>2, <3>1, <4>1, <4>2, <4>4, <5>3
      <4> QED BY <4>3, <4>4
    <3>3. CASE loop # 1
      <4>1. loop' = 3 /\ Goal(n) = J!Joined(n)
        BY <2>1, <3>3 DEF Goal
      <4>2. Held(n)' = SumFrom(Output, 0, n) + 0
        BY <1>3, <4>1 DEF Held, ToCome
      <4> QED BY <1>5, <2>1, <2>2, <3>1, <4>1, <4>2
    <3> QED BY <3>2, <3>3
  <2> QED BY <1>1, <1>2, <1>4, <2>1, <2>3 DEF JoinInv
<1> QED BY <1>6, <1>7

LEMMA JoinStep == JoinInv /\ [J!Next]_(J!joinVars) => JoinInv'
<1> SUFFICES ASSUME JoinInv, [J!Next]_(J!joinVars) PROVE JoinInv'
  OBVIOUS
<1>1. CASE UNCHANGED J!joinVars
  <2>1. /\ disk' = disk /\ before' = before /\ args' = args
        /\ loop' = loop /\ pos' = pos /\ failed' = failed
    BY <1>1 DEF J!joinVars
  <2>2. /\ Output' = Output /\ J!Input' = J!Input
        /\ \A n : J!Joined(n)' = J!Joined(n) /\ OfInput(1, n)' = OfInput(1, n)
    BY <2>1, JoinRigid DEF Output, J!Input
  <2>3. \A n : Held(n)' = Held(n) /\ Goal(n)' = Goal(n)
    BY <2>1, <2>2 DEF Held, ToCome, Goal
  <2>4. OneOfEach(Output)' <=> OneOfEach(Output)
    BY <2>2 DEF OneOfEach
  <2>5. (\A f \in Files : OneOfEach(disk[f])) => (\A f \in Files : OneOfEach(disk[f]))'
    BY <2>1 DEF OneOfEach
  <2> QED BY <2>1, <2>3, <2>4, <2>5 DEF JoinInv, JoinTypeOK
<1> QED BY <1>1, JoinOpen, JoinNext, JoinOther DEF J!Next

(* When 2_56 is done, of every name the output holds the counts of its      *)
(* inputs together, a short name once, and no other file has changed; only  *)
(* a failed call leaves less, and which input is the output does not matter.*)
THEOREM JoinCorrect == J!Spec => []JoinAdds
<1>1. JoinInv => JoinAdds
  <2> SUFFICES ASSUME JoinInv, loop = 3
               PROVE  /\ \A n \in Short \union Full :
                           LET all == J!Sum(disk[args[3]], n)
                           IN  all <= J!Joined(n) /\ (failed \/ all = J!Joined(n))
                      /\ \A n \in Short : J!Cardinality(J!InTable(disk[args[3]], n)) <= 1
                      /\ \A f \in Files \ {args[3]} : disk[f] = before[f]
    BY DEF JoinAdds, J!JoinAdds
  <2>1. JoinTypeOK /\ OneOfEach(Output) /\ \A f \in Files \ {args[3]} : disk[f] = before[f]
    BY DEF JoinInv
  <2>2. Output \in Seq(Record) /\ Output = disk[args[3]]
    BY <2>1, JoinTypes DEF Output
  <2>3. ASSUME NEW n \in Names
        PROVE  LET all == J!Sum(disk[args[3]], n)
               IN  all <= J!Joined(n) /\ (failed \/ all = J!Joined(n))
    <3>1. Held(n) <= Goal(n) /\ (failed \/ Held(n) = Goal(n))
      BY DEF JoinInv
    <3>2. SumFrom(Output, 0, n) \in Nat /\ J!Sum(disk[args[3]], n) = SumFrom(Output, 0, n)
      BY <2>1, <2>2, JoinTypes, JoinSum
    <3>3. Held(n) = SumFrom(Output, 0, n) + 0 /\ Goal(n) = J!Joined(n)
      BY DEF Held, ToCome, Goal
    <3> QED BY <3>1, <3>2, <3>3
  <2>4. ASSUME NEW n \in Short PROVE J!Cardinality(J!InTable(disk[args[3]], n)) <= 1
    <3> DEFINE S == J!InTable(disk[args[3]], n)
    <3>1. \A i, j \in S : i = j
      BY <2>1, <2>2 DEF OneOfEach, J!InTable
    <3> HIDE DEF S
    <3>2. Cardinality(S) <= 1
      <4>1. CASE S = {}
        BY <4>1, FS_EmptySet
      <4>2. CASE S # {}
        <5>1. PICK x : x \in S
          BY <4>2
        <5>2. S = {x}
          BY <3>1, <5>1
        <5> QED BY <5>2, FS_Singleton
      <4> QED BY <4>1, <4>2
    <3>3. J!Cardinality(S) = Cardinality(S)
      BY DEF Cardinality, J!Cardinality, IsFiniteSet, J!IsFiniteSet
    <3> QED BY <3>2, <3>3 DEF S
  <2> QED BY <2>1, <2>3, <2>4 DEF Names
<1>2. JoinInv /\ [J!Next]_(J!joinVars) => JoinInv'
  BY JoinStep
<1> QED BY <1>1, <1>2, JoinInit, PTL DEF J!Spec
=============================================================================
