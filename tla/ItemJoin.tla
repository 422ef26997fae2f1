------------------------------ MODULE ItemJoin ------------------------------
(***************************************************************************)
(* c/os/5_07/2_56.c with join_tables() of item.c: one process that reads   *)
(* two tables and adds their records to a third, which may be one of them. *)
(* A record of the tables is [name, tail, count]; see ItemTable for names  *)
(* that fill their field.  Counts are taken to fit in one byte.            *)
(***************************************************************************)
EXTENDS Integers, FiniteSets, FiniteSetsExt, Functions, Sequences

CONSTANTS
  Short, Full,  (* names as in ItemTable                                   *)
  Files,        (* file names                                              *)
  Tables        (* what 2_55 may have left in a file                       *)

VARIABLES
  disk,         (* the contents of each file                               *)
  before,       (* history: what they were                                 *)
  args,         (* argv[1] to argv[3]                                      *)
  loop,         (* where the process is: 0 at first, 1 or 2 in the loop    *)
                (* over that input, 3 at the end                           *)
  pos,          (* the offset in the input that is read                    *)
  failed        (* history: has a system call failed                       *)

joinVars == <<disk, before, args, loop, pos, failed>>

Init ==
  /\ disk \in [Files -> Tables] /\ before = disk
  /\ args \in [1 .. 3 -> Files]
  /\ loop = 0 /\ pos = 0 /\ failed = FALSE

(* main: the inputs are opened before O_TRUNC empties the output.           *)
Open ==
  /\ loop = 0 /\ loop' = 1
  /\ disk' = [disk EXCEPT ![args[3]] = <<>>]
  /\ UNCHANGED <<before, args, pos, failed>>

(* compare_strings() of a record of an input with one of the output.         *)
Same(item, r) ==
  /\ item.name = r.name
  /\ item.name \in Full =>
       item.tail = r.tail /\ (item.tail = 0 => item.count = r.count)
MutFind(t, item) == {i \in DOMAIN t : t[i] = item}
find_item(t, item) == {i \in DOMAIN t : Same(item, t[i])}
add_item(t, item) ==
  IF find_item(t, item) = {} THEN Append(t, item)
  ELSE [t EXCEPT ![Min(find_item(t, item))].count = @ + item.count]

(* add_item() when it cannot read the count of the record it has found:     *)
(* twice the item's own goes over the end of the name.                      *)
add_astray(t, item) ==
  IF find_item(t, item) = {} \/ item.name \notin Full THEN t
  ELSE [t EXCEPT ![Min(find_item(t, item))].tail = 2 * item.count]

Input == disk[args[loop]]

(* One turn of a loop of join_tables(): the read and the add_item().  When  *)
(* find_item() cannot read the output, add_item() returns early and nobody  *)
(* looks at what it returned, nor at whether a write failed.                *)
AddNext ==
  /\ loop \in {1, 2} /\ pos < Len(Input) /\ pos' = pos + 1
  /\ \/ disk' = [disk EXCEPT ![args[3]] = add_item(@, Input[pos + 1])] /\ UNCHANGED failed
     \/ failed' = TRUE /\ UNCHANGED disk
     \/ failed' = TRUE /\ disk' = [disk EXCEPT ![args[3]] = add_astray(@, Input[pos + 1])]
  /\ UNCHANGED <<before, args, loop>>

EndOfInput ==
  /\ loop \in {1, 2} /\ pos >= Len(Input)
  /\ loop' = (IF loop = 1 THEN 2 ELSE 3) /\ pos' = 0
  /\ UNCHANGED <<disk, before, args, failed>>

(* An input cannot be read: join_tables() returns -1, and main 0 all the    *)
(* same.                                                                    *)
FailRead ==
  /\ loop \in {1, 2} /\ loop' = 3
  /\ failed' = TRUE
  /\ UNCHANGED <<disk, before, args, pos>>

Next == Open \/ AddNext \/ EndOfInput \/ FailRead

Spec == Init /\ [][Next]_joinVars

-----------------------------------------------------------------------------
InTable(t, n) == {i \in DOMAIN t : t[i].name = n}
Sum(t, n) == SumFunctionOnSet([i \in DOMAIN t |-> t[i].count], InTable(t, n))

(* What the output must hold of a name.  The input that is the output has   *)
(* lost its records; as the second input it is what the first loop made of  *)
(* it, and the second loop adds every record to itself.                     *)
Joined(n) ==
  LET of(k) == IF args[k] = args[3] THEN 0 ELSE Sum(before[args[k]], n)
  IN  IF args[2] = args[3] THEN 2 * of(1) ELSE of(1) + of(2)

(* When the join exits, the output holds of every name what the inputs held *)
(* together, in one record for a short name, and less only if a call had    *)
(* failed; no other file has changed.                                       *)
JoinAdds ==
  loop = 3 =>
    /\ \A n \in Short \union Full :
         LET all == Sum(disk[args[3]], n) IN all <= Joined(n) /\ (failed \/ all = Joined(n))
    /\ \A n \in Short : Cardinality(InTable(disk[args[3]], n)) <= 1
    /\ \A f \in Files \ {args[3]} : disk[f] = before[f]
=============================================================================
