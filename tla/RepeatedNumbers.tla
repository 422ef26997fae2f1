-------------------------- MODULE RepeatedNumbers --------------------------
(***************************************************************************)
(* c/basics/4_18/2_40.c: reads numbers into a list of items [x, count] and *)
(* then prints those that occurred often.  Items are named by their        *)
(* position in the list; 0 is NULL.                                        *)
(***************************************************************************)
EXTENDS Integers, Sequences, FiniteSets

CONSTANTS
  Numbers,     (* the numbers that may be read                             *)
  MaxRead      (* bound: how many turns the reading loop takes             *)

task_condition == 3

VARIABLES
  list,        (* the items in the order of their next pointers            *)
  cur,         (* where the printing loop is; -1 while numbers are read    *)
  readed_number,   (* any number before the first is read                  *)
  stuck,       (* the input goes on with something that is not a number    *)
  turns,       (* how many turns the reading loop has taken                *)
  input,       (* history: the numbers read                                *)
  printed      (* the numbers printed                                      *)

vars == <<list, cur, readed_number, stuck, turns, input, printed>>

Init ==
  /\ list = <<>> /\ cur = -1
  /\ readed_number \in Numbers
  /\ stuck = FALSE /\ turns = 0
  /\ input = <<>> /\ printed = <<>>

First(S) == IF S = {} THEN 0 ELSE CHOOSE i \in S : \A j \in S : i <= j
find_number_in_list(n) == First({i \in DOMAIN list : list[i].x = n})
(* The variant wants one more.                                             *)
MutOften(c) == c > task_condition
Often(c) == c >= task_condition
find_ge_three(from) == First({i \in from .. Len(list) : Often(list[i].count)})

(* The item that follows.                                                   *)
NextItem(i) == IF i < Len(list) THEN i + 1 ELSE 0

(* The body of the reading loop.  The first item of all is put in the list  *)
(* twice: the third if does not ask whether the second has stored it.       *)
Listed(n) ==
  LET repeated == find_number_in_list(n)
      item == [x |-> n, count |-> 1]
  IN  IF repeated # 0 THEN [list EXCEPT ![repeated].count = @ + 1]
      ELSE IF list = <<>> THEN <<item, item>> ELSE Append(list, item)

Read(n) ==
  /\ cur = -1 /\ ~stuck
  /\ turns < MaxRead /\ turns' = turns + 1
  /\ readed_number' = n
  /\ input' = Append(input, n)
  /\ list' = Listed(n)
  /\ UNCHANGED <<cur, stuck, printed>>

(* scanf() finds no number: that is not EOF, so the loop takes the number   *)
(* it has once more, and finds the same input again.                        *)
Reread ==
  /\ cur = -1
  /\ turns < MaxRead /\ turns' = turns + 1
  /\ stuck' = TRUE
  /\ list' = Listed(readed_number)
  /\ UNCHANGED <<cur, readed_number, input, printed>>

EndOfInput ==
  /\ cur = -1 /\ ~stuck
  /\ cur' = IF list = <<>> THEN 0 ELSE 1
  /\ UNCHANGED <<list, readed_number, stuck, turns, input, printed>>

(* One turn of the printing loop.                                           *)
PrintNext ==
  /\ cur > 0
  /\ LET found == find_ge_three(cur) IN
       IF found = 0 THEN cur' = 0 /\ UNCHANGED printed
       ELSE cur' = NextItem(found) /\ printed' = Append(printed, list[found].x)
  /\ UNCHANGED <<list, readed_number, stuck, turns, input>>

Next == (\E n \in Numbers : Read(n)) \/ Reread \/ EndOfInput \/ PrintNext

Spec == Init /\ [][Next]_vars

-----------------------------------------------------------------------------
Occurrences(n) == Cardinality({i \in DOMAIN input : input[i] = n})

(* What the comment at find_ge_three() says of the items it finds: their    *)
(* number "has occured more than three times".  Three times are enough.     *)
PrintedMoreThanThree == \A i \in DOMAIN printed : Occurrences(printed[i]) > 3

(* When the loop has ended, every number that occurred task_condition times *)
(* was printed once, in the order of their first occurrences, in spite of   *)
(* the first number's second item.                                          *)
FirstOccurrence(n) == First({i \in DOMAIN input : input[i] = n})
PrintsTheRepeated ==
  cur = 0 =>
    /\ {printed[i] : i \in DOMAIN printed} = {n \in Numbers : Occurrences(n) >= task_condition}
    /\ \A i, j \in DOMAIN printed :
         i < j => FirstOccurrence(printed[i]) < FirstOccurrence(printed[j])
=============================================================================
