---------------------------- MODULE NumberLists ----------------------------
(***************************************************************************)
(* The programs of c/basics that read into a list and then print from it:  *)
(* 2_41 (the numbers that occur most often), 4_19 (neighbours close to     *)
(* each other), 2_43 (the words of a line as columns) and 2_44 (the        *)
(* longest runs of digits).  A list is the sequence of its items.  2_43    *)
(* and 2_44 forget everything between two lines: a behaviour is one line.  *)
(***************************************************************************)
EXTENDS Integers, FiniteSets, SequencesExt

CONSTANTS
  Tokens,      (* for each program, the numbers or characters it reads     *)
  MaxTokens,   (* for each program, a bound: how many of them              *)
  Width,       (* 4_19: the bits of an int                                 *)
  Nearness     (* 4_19: the 5 of is_condition_fulfilled()                  *)

VARIABLES
  program,
  items,       (* the list                                                 *)
  tmp,         (* 2_44: where print_longest_sequences_of_numbers() is      *)
  phase,       (* "read", "stuck", "print", "end"                          *)
  seen,        (* history: what was read                                   *)
  ended,       (* how it ended: "EOL", "EOF"                               *)
  shown        (* the lines printed, for 2_44 the runs on its line         *)

listVars == <<program, items, tmp, phase, seen, ended, shown>>

Digits == {"1", "2"}
Blank == {" ", "\t"}

Init ==
  /\ program \in DOMAIN Tokens
  /\ items = <<>> /\ tmp = 0 /\ phase = "read"
  /\ seen = <<>> /\ ended = "no" /\ shown = <<>>

-----------------------------------------------------------------------------
(* What a token adds to the list.                                           *)
Where(n) == {i \in DOMAIN items : items[i].x = n}
Counted(n) ==
  IF Where(n) # {} THEN [items EXCEPT ![Min(Where(n))].count = @ + 1]
  ELSE Append(items, [x |-> n, count |-> 1])

LastOf(field) == IF items = <<>> THEN 0 ELSE items[Len(items)][field]
WithPos(c) ==
  Append(items, [c |-> c, pos |-> IF c \in Blank THEN 0 ELSE LastOf("pos") + 1])
WithDegree(c) ==
  Append(items, [x |-> c, degree |-> IF c \in Digits THEN LastOf("degree") + 1 ELSE 0])

Read(t) ==
  /\ phase = "read" /\ Len(seen) < MaxTokens[program]
  /\ seen' = Append(seen, t)
  /\ items' = CASE program = "2_41" -> Counted(t)
                [] program = "4_19" -> Append(items, t)
                [] program = "2_43" -> WithPos(t)
                [] program = "2_44" -> WithDegree(t)
  /\ UNCHANGED <<program, tmp, phase, ended, shown>>

-----------------------------------------------------------------------------
(* 2_41: print_numbers().                                                   *)
find_max_counter == Max({0} \cup {items[i].count : i \in DOMAIN items})
MostOften ==
  LET often == SelectSeq(items, LAMBDA item : item.count = find_max_counter)
  IN  [i \in DOMAIN often |-> often[i].x]

(* 4_19: an int wraps around, and the least int is its own negative.        *)
Half == 2 ^ (Width - 1)
Wrap(n) == ((n + Half) % (2 * Half)) - Half
is_condition_fulfilled(a, b) ==
  LET x == Wrap(a - b) IN (IF x < 0 THEN Wrap(0 - x) ELSE x) <= Nearness
CloseNeighbours ==
  FlattenSeq([i \in 1 .. Len(items) - 1 |->
    IF is_condition_fulfilled(items[i], items[i + 1])
    THEN << <<items[i], items[i + 1]>> >> ELSE <<>>])

(* 2_43: the list ends with a '\0' of position 0.  A space is printed where *)
(* a word has no i-th character, and only then counting starts again.       *)
is_to_print_space(count, i, max_pos, c) ==
  c.pos = 0 /\ count - 1 <= max_pos /\ i > count - 1
Ended == Append(items, [c |-> "NUL", pos |-> 0])
find_max_position == Max({Ended[i].pos : i \in DOMAIN Ended})
Column(a, c, i) ==
  LET count == a.count + 1
      space == is_to_print_space(count, i, find_max_position, c)
  IN  [count |-> IF space THEN 0 ELSE count,
       row |-> a.row \o (IF c.pos = i THEN <<c.c>> ELSE <<>>)
                     \o (IF space THEN <<" ">> ELSE <<>>)]
print_string_in_column ==
  [i \in 1 .. find_max_position |->
    FoldLeft(LAMBDA a, c : Column(a, c, i), [count |-> 0, row |-> <<>>], Ended).row]

(* 2_44: the first run from an item on that is as long as what is left of   *)
(* the longest; the rest of the run printed last has no first digit.        *)
Degree(i) == IF i > Len(items) THEN 0 ELSE items[i].degree
return_max_degree(from) == Max({Degree(i) : i \in from .. Len(items) + 1})
FirstDigit(from, k) == Max({0} \cup {j \in from .. k : Degree(j) = 1})
find_max_degree(from) ==
  LET found == {k \in from .. Len(items) + 1 :
                  Degree(k) = return_max_degree(from) /\ FirstDigit(from, k) # 0}
  IN  IF found = {} THEN 0 ELSE FirstDigit(from, Min(found))
output_numbers(from) ==
  SubSeq(seen, from, Min({k \in from .. Len(items) : items[k].x \in Digits /\ Degree(k + 1) = 0}))

(* scanf() finds no number, which is not EOF: the loop takes the number it  *)
(* has, or whatever the variable holds, again and again.                    *)
NotANumber ==
  /\ phase = "read" /\ program \in {"2_41", "4_19"}
  /\ phase' = "stuck"
  /\ UNCHANGED <<program, items, tmp, seen, ended, shown>>

(* The end of the line or of the input.  2_44 drops what it read when the   *)
(* input ends within a line; 2_41 and 4_19 have nothing else to end with.   *)
Finish(end) ==
  /\ phase = "read" /\ (end = "EOL" => program \in {"2_43", "2_44"})
  /\ ended' = end
  /\ phase' = IF program = "2_44" /\ end = "EOL" /\ items # <<>> THEN "print" ELSE "end"
  /\ tmp' = IF phase' = "print" THEN find_max_degree(1) ELSE 0
  /\ shown' = CASE program = "2_41" -> MostOften
                  [] program = "4_19" -> CloseNeighbours
                  [] program = "2_43" -> print_string_in_column
                  [] OTHER -> <<>>
  /\ UNCHANGED <<program, items, seen>>

PrintRun ==
  /\ phase = "print" /\ tmp # 0
  /\ shown' = Append(shown, output_numbers(tmp))
  /\ tmp' = find_max_degree(tmp + 1)
  /\ UNCHANGED <<program, items, phase, seen, ended>>

PrintEnd ==
  /\ phase = "print" /\ tmp = 0 /\ phase' = "end"
  /\ UNCHANGED <<program, items, tmp, seen, ended, shown>>

Next ==
  \/ \E t \in Tokens[program] : Read(t)
  \/ \E end \in {"EOL", "EOF"} : Finish(end)
  \/ NotANumber \/ PrintRun \/ PrintEnd

Spec == Init /\ [][Next]_listVars

-----------------------------------------------------------------------------
Times(n) == {i \in DOMAIN seen : seen[i] = n}
Abs(n) == IF n < 0 THEN 0 - n ELSE n

(* Words of a line, also the empty ones next to a blank; and runs of digits *)
Cuts == {0, Len(seen) + 1} \cup {i \in DOMAIN seen : seen[i] \in Blank}
Cut(k) == CHOOSE c \in Cuts : Cardinality({d \in Cuts : d < c}) = k
Word(k) == SubSeq(seen, Cut(k - 1) + 1, Cut(k) - 1)
Words == 1 .. Cardinality(Cuts) - 1
Longest == Max({0} \cup {Len(Word(k)) : k \in Words})
Growing == \A j, k \in Words : j < k => Len(Word(j)) <= Len(Word(k))

Runs == {r \in (DOMAIN seen) \X (DOMAIN seen) :
          /\ r[1] <= r[2] /\ \A i \in r[1] .. r[2] : seen[i] \in Digits
          /\ (r[1] = 1 \/ seen[r[1] - 1] \notin Digits)
          /\ (r[2] = Len(seen) \/ seen[r[2] + 1] \notin Digits)}
LongestRuns == {r \in Runs : \A q \in Runs : q[2] - q[1] <= r[2] - r[1]}

LongestRun(k) ==
  CHOOSE r \in LongestRuns : Cardinality({q \in LongestRuns : q[1] <= r[1]}) = k

(* When a program is done it has printed                                    *)
(*   2_41  the numbers that occur most often, by their first occurrence;    *)
(*   4_19  the neighbours that are close, those too that are close only     *)
(*         because their difference wraps around, or is the least int;      *)
(*   2_43  the words side by side from top to bottom, a space where a word  *)
(*         is too short: as long as no word is shorter than one before it   *)
(*         (after a longer word a shorter one gets no space, and the        *)
(*         columns shift);                                                  *)
(*   2_44  all longest runs of digits, from left to right, and nothing for  *)
(*         a last line without an end.                                      *)
ListsArePrinted ==
  phase = "end" =>
    CASE program = "2_41" ->
           /\ ToSet(shown) = {n \in ToSet(seen) : \A k \in ToSet(seen) :
                                  Cardinality(Times(k)) <= Cardinality(Times(n))}
           /\ \A i, j \in DOMAIN shown :
                i < j => Min(Times(shown[i])) < Min(Times(shown[j]))
      [] program = "4_19" ->
           shown = SelectSeq([i \in 1 .. Len(seen) - 1 |-> <<seen[i], seen[i + 1]>>],
             LAMBDA p : LET d == Abs(p[1] - p[2]) IN
                          d <= Nearness \/ d >= 2 * Half - Nearness \/ d = Half)
      [] program = "2_43" ->
           Growing => shown = [i \in 1 .. Longest |->
             [k \in Words |-> IF i <= Len(Word(k)) THEN Word(k)[i] ELSE " "]]
      [] program = "2_44" ->
           shown = IF ended = "EOF" THEN <<>>
                   ELSE [k \in 1 .. Cardinality(LongestRuns) |->
                           SubSeq(seen, LongestRun(k)[1], LongestRun(k)[2])]
=============================================================================
