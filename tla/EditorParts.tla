---------------------------- MODULE EditorParts ----------------------------
(***************************************************************************)
(* What the line editors 5_34 and 5_35 have in common: separators, the     *)
(* search for a prefix in a line of the dictionary, and the terminal they  *)
(* write to.                                                               *)
(***************************************************************************)
EXTENDS Integers, SequencesExt

Space == "SP"
Separators == {Space, "LF"}
Times(n, c) == [k \in 1 .. n |-> c]

(* What a sequence of characters does to a terminal.                        *)

Emit(t, c) ==
  CASE c = "BS" -> [t EXCEPT !.col = IF @ > 0 THEN @ - 1 ELSE 0]
    [] c = "CR" -> [t EXCEPT !.col = 0]
    [] c = "LF" -> [line |-> <<>>, col |-> 0]
    [] OTHER -> [line |-> SubSeq(t.line, 1, t.col) \o <<c>> \o SubSeq(t.line, t.col + 2, Len(t.line)),
                 col |-> t.col + 1]

(* search_for_matches.  A line is looked through as long as it goes on      *)
(* matching: once the prefix was found it is looked for again right behind. *)
Found(prefix, w) ==
  LET n == Len(prefix)
  IN  Max({k \in 0 .. Len(w) : k * n <= Len(w) /\
                               \A i \in 1 .. k * n : w[i] = prefix[((i - 1) % n) + 1]})
=============================================================================
