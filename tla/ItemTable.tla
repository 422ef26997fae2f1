----------------------------- MODULE ItemTable -----------------------------
(***************************************************************************)
(* c/os/5_07/2_55.c with item.c: the commands add and query on a file of   *)
(* fixed-size records [name, count].  Every command is a process of its    *)
(* own and takes no lock, so its system calls interleave with those of the *)
(* others; a process may be killed between any two, and any read or write  *)
(* may fail: find_item() tells of it, add_item() and output_item() do not  *)
(* look at what their own read() returned and go on with a count of 1.     *)
(*                                                                         *)
(* A name that is not shorter than its field leaves no room for the        *)
(* terminating zero, so that the bytes of the count follow it directly and *)
(* compare_strings() goes on into them.  A name longer than the struct     *)
(* writes outside it and is not modelled; nor are names that reach into    *)
(* the last four bytes of the field without filling it.                    *)
(***************************************************************************)
EXTENDS Integers, Sequences, FiniteSets, Functions

CONSTANTS
  Procs,      (* the processes that run 2_55                               *)
  Short,      (* names of at most name_size - 5 characters                 *)
  Full,       (* names of name_size characters                             *)
  None,       (* a query that has printed nothing yet                      *)
  MaxRuns     (* bound: how many commands are run                          *)

Names == Short \union Full

ASSUME NamesAssumption == Short \intersect Full = {} /\ IsFiniteSet(Names)
ASSUME RunsAssumption == MaxRuns \in 0 .. 255   (* a count is then one byte *)
ASSUME NoneAssumption == None \notin Nat

VARIABLES
  table,      (* the file: a sequence of records                           *)
  pc, cmd, item, off, seen,   (* each process: its command, the item's     *)
              (* name, its file offset in records, item->count as read     *)
  answer,     (* what each process's last query printed                    *)
  misread,    (* history: did the last read of output_item() fail          *)
  runs,       (* how many commands have been run                           *)
  adds,       (* history: for each name, how many add_item() wrote it      *)
  overlapped  (* history: have two commands ever run at the same time      *)

proc == <<pc, cmd, item, off, seen, answer>>
hist == <<runs, adds, overlapped, misread>>
vars == <<table, proc, hist>>

(* A record, with what a misplaced write has left in the last bytes of its  *)
(* name: 0 if there was none.                                               *)
Record == [name : Names, tail : Nat, count : Nat \ {0}]

TypeOK ==
  /\ table \in Seq(Record)
  /\ pc \in [Procs -> {"idle", "find", "end", "append", "read", "store", "astray", "show"}]
  /\ cmd \in [Procs -> {"add", "query"}]
  /\ item \in [Procs -> Names]
  /\ off \in [Procs -> Nat]
  /\ seen \in [Procs -> Nat]
  /\ answer \in [Procs -> Nat \union {None}]
  /\ misread \in BOOLEAN
  /\ runs \in 0 .. MaxRuns
  /\ adds \in [Names -> Nat]
  /\ overlapped \in BOOLEAN

Init ==
  /\ table = <<>>
  /\ pc = [p \in Procs |-> "idle"]
  /\ cmd = [p \in Procs |-> "add"]
  /\ \E n \in Names : item = [p \in Procs |-> n]
  /\ off = [p \in Procs |-> 0]
  /\ seen = [p \in Procs |-> 0]
  /\ answer = [p \in Procs |-> None]
  /\ misread = FALSE
  /\ runs = 0
  /\ adds = [n \in Names |-> 0]
  /\ overlapped = FALSE

-----------------------------------------------------------------------------
(* compare_strings(item->name, buffer).  item->count is 1.  The variants    *)
(* stop at the end of the field and return 0 for equal strings.             *)
MutSame(n, r) == r.name = n
MutStrcmp(n, r) == r.name # n
Same(n, r) == r.name = n /\ (n \in Full => r.tail = 0 /\ r.count = 1)

(* main, handle_add and handle_query up to the call of find_item().         *)
Run(p, c, n) ==
  /\ pc[p] = "idle"
  /\ runs < MaxRuns
  /\ runs' = runs + 1
  /\ pc' = [pc EXCEPT ![p] = "find"]
  /\ cmd' = [cmd EXCEPT ![p] = c]
  /\ item' = [item EXCEPT ![p] = n]
  /\ off' = [off EXCEPT ![p] = 0]
  /\ answer' = [answer EXCEPT ![p] = None]
  /\ overlapped' = (overlapped \/ \E q \in Procs : pc[q] # "idle")
  /\ UNCHANGED <<table, seen, adds, misread>>

(* find_item: one read() of its loop.  A match leaves off on the record     *)
(* whose position it returns.                                               *)
FindNext(p) ==
  /\ pc[p] = "find"
  /\ off[p] < Len(table)
  /\ LET found == Same(item[p], table[off[p] + 1]) IN
       /\ off' = [off EXCEPT ![p] = IF found THEN @ ELSE @ + 1]
       /\ pc' = [pc EXCEPT ![p] = IF ~found THEN "find"
                                  ELSE IF cmd[p] = "add" THEN "read" ELSE "show"]
  /\ UNCHANGED <<table, cmd, item, seen, answer, hist>>

(* read() returned 0: add_item goes to the end, output_item prints 0.       *)
FindNothing(p) ==
  /\ pc[p] = "find"
  /\ off[p] >= Len(table)
  /\ pc' = [pc EXCEPT ![p] = IF cmd[p] = "add" THEN "end" ELSE "idle"]
  /\ answer' = [answer EXCEPT ![p] = IF cmd[p] = "add" THEN @ ELSE 0]
  /\ UNCHANGED <<table, cmd, item, off, seen, hist>>

SeekEnd(p) ==
  /\ pc[p] = "end"
  /\ off' = [off EXCEPT ![p] = Len(table)]
  /\ pc' = [pc EXCEPT ![p] = "append"]
  /\ UNCHANGED <<table, cmd, item, seen, answer, hist>>

(* write() of a whole record at an offset no further than the end.          *)
Put(i, r) == IF i <= Len(table) THEN [table EXCEPT ![i] = r] ELSE Append(table, r)

Finish(p) ==
  /\ pc' = [pc EXCEPT ![p] = "idle"]
  /\ UNCHANGED <<cmd, item, off, runs, overlapped>>

AppendRecord(p) ==
  /\ pc[p] = "append"
  /\ table' = Put(off[p] + 1, [name |-> item[p], tail |-> 0, count |-> 1])
  /\ adds' = [adds EXCEPT ![item[p]] = @ + 1]
  /\ Finish(p)
  /\ UNCHANGED <<seen, answer, misread>>

(* The read-modify-write of the count of the record that was found.  A      *)
(* read() that fails leaves the file where lseek() put it, and the step     *)
(* back over the count then ends in the name.                               *)
ReadCount(p) ==
  /\ pc[p] = "read"
  /\ \/ /\ seen' = [seen EXCEPT ![p] = table[off[p] + 1].count]
        /\ pc' = [pc EXCEPT ![p] = "store"]
     \/ /\ pc' = [pc EXCEPT ![p] = "astray"]
        /\ UNCHANGED seen
  /\ UNCHANGED <<table, cmd, item, off, answer, hist>>

(* item->count += count.  The first variant writes the count of the     *)
(* command over the stored one, the second adds what was read to itself.    *)
MutStored(p) == 1
MutDoubled(p) == seen[p] + seen[p]
Stored(p) == seen[p] + 1

StoreCount(p) ==
  /\ pc[p] = "store"
  /\ table' = Put(off[p] + 1, [table[off[p] + 1] EXCEPT !.count = Stored(p)])
  /\ adds' = [adds EXCEPT ![item[p]] = @ + 1]
  /\ Finish(p)
  /\ UNCHANGED <<seen, answer, misread>>

(* The sum, 1 + 1, goes over the last four bytes of the name field: a short *)
(* name ends before them, one that fills the field is another name then.    *)
StoreAstray(p) ==
  /\ pc[p] = "astray"
  /\ table' = [table EXCEPT ![off[p] + 1].tail = IF item[p] \in Full THEN 2 ELSE @]
  /\ Finish(p)
  /\ UNCHANGED <<seen, answer, adds, misread>>

(* output_item: the record is read once more and its count printed, or the  *)
(* 1 that the item was made with if the read fails.                         *)
Show(p) ==
  /\ pc[p] = "show"
  /\ misread' \in BOOLEAN
  /\ answer' = [answer EXCEPT ![p] = IF misread' THEN 1 ELSE table[off[p] + 1].count]
  /\ Finish(p)
  /\ UNCHANGED <<table, seen, adds>>

(* find_item() cannot read (read_error, exit status 2), a write() fails,    *)
(* which nobody notices, or the process is killed.                          *)
Fail(p) ==
  /\ pc[p] # "idle"
  /\ Finish(p)
  /\ UNCHANGED <<table, seen, answer, adds, misread>>

Next ==
  \E p \in Procs :
    \/ \E c \in {"add", "query"}, n \in Names : Run(p, c, n)
    \/ FindNext(p) \/ FindNothing(p)
    \/ SeekEnd(p) \/ AppendRecord(p)
    \/ ReadCount(p) \/ StoreCount(p) \/ StoreAstray(p)
    \/ Show(p) \/ Fail(p)

Spec == Init /\ [][Next]_vars

-----------------------------------------------------------------------------
(* Properties *)

Records(n) == {i \in DOMAIN table : table[i].name = n}
Total(S) == SumFunctionOnSet([i \in DOMAIN table |-> table[i].count], S)

(* As long as no two commands have run at the same time, a short name has   *)
(* one record once it was added, none before, and its count is the number   *)
(* of adds that were written: whatever runs were killed between their       *)
(* system calls, or could not read a count.                                 *)
ExactWhenAlone ==
  ~overlapped =>
    \A n \in Short :
      /\ \A i, j \in Records(n) : i = j
      /\ \A i \in Records(n) : table[i].count = adds[n]
      /\ adds[n] > 0 => Records(n) # {}

(* A name that fills its field is found only while a count is 1: its adds   *)
(* are all in the file, but spread over records of one or two, of which     *)
(* only one is still to be found.                                           *)
FullNamesSplit ==
  ~overlapped =>
    \A n \in Full :
      /\ Total(Records(n)) = adds[n]
      /\ \A i \in Records(n) : table[i].count \in {1, 2}
      /\ \A i, j \in Records(n) : Same(n, table[i]) /\ Same(n, table[j]) => i = j

(* A query that overlaps no other command prints the number of adds of its  *)
(* name, or 1 of a name that has some when it cannot read the record again. *)
QueryIsExact ==
  [][\A p \in Procs :
       answer[p] = None /\ answer'[p] # None /\ item[p] \in Short /\ ~overlapped =>
         \/ answer'[p] = adds[item[p]]
         \/ misread' /\ answer'[p] = 1 /\ adds[item[p]] > 0]_vars

(* Whatever commands overlap, adds may be lost but none is invented: the    *)
(* counts of the file add up to no more than the adds that were written.    *)
NothingInvented ==
  Total(DOMAIN table) <= SumFunctionOnSet(adds, Names)
=============================================================================
