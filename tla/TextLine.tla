------------------------------ MODULE TextLine ------------------------------
(***************************************************************************)
(* What a line editor promises its user: a line of text with a cursor in   *)
(* it, and keys that do one thing each.                                    *)
(***************************************************************************)
EXTENDS Integers, SequencesExt

CONSTANTS
  Chars,        (* what can be typed                                       *)
  Separators,   (* those of them that end a word                           *)
  Dictionary    (* the words Tab may complete to                           *)

VARIABLES
  left, right,  (* the text before and behind the cursor                   *)
  saved         (* the line that was stored last                           *)

line == <<left, right, saved>>

Type(c) == left' = Append(left, c) /\ UNCHANGED <<right, saved>>

Backspace == left # <<>> /\ left' = Front(left) /\ UNCHANGED <<right, saved>>

Left ==
  /\ left # <<>>
  /\ left' = Front(left)
  /\ right' = <<Last(left)>> \o right
  /\ UNCHANGED saved

Right ==
  /\ right # <<>>
  /\ left' = Append(left, Head(right))
  /\ right' = Tail(right)
  /\ UNCHANGED saved

(* The word before the cursor goes, with one separator in front of it and,  *)
(* unless the cursor is on a word, the separators behind it.                *)
EraseWord ==
  LET InWord == right # <<>> /\ Head(right) \notin Separators
      wordEnd == IF InWord THEN Len(left)
                 ELSE Max({0} \union {i \in 1 .. Len(left) : left[i] \notin Separators})
      before == Max({1} \union {i \in 1 .. wordEnd : left[i] \in Separators})
  IN  /\ left # <<>>
      /\ left' = SubSeq(left, 1, before - 1)
      /\ UNCHANGED <<right, saved>>

Enter ==
  /\ saved' = left \o right
  /\ left' = <<>>
  /\ right' = <<>>

(* Tab: the only word of the dictionary that goes on from what is typed of  *)
(* it replaces that.  With nothing before the cursor, what is typed is the  *)
(* first character behind it or, behind one separator, the second.          *)
Continues(typed, w) == typed # <<>> /\ IsPrefix(typed, w)
OnlyWord(typed, w) == \A v \in Dictionary : Continues(typed, v) <=> v = w
LastWord(s) == SubSeq(s, 1 + Max({0} \union {i \in 1 .. Len(s) : s[i] \in Separators}), Len(s))
Complete ==
  \E w \in Dictionary :
    /\ UNCHANGED saved
    /\ \/ /\ OnlyWord(LastWord(left), w)
          /\ left' = SubSeq(left, 1, Len(left) - Len(LastWord(left))) \o w
          /\ UNCHANGED right
       \/ /\ left = <<>>
          /\ \E n \in {0, 1} :
               /\ n < Len(right)
               /\ n = 1 <=> right[1] \in Separators
               /\ OnlyWord(<<right[n + 1]>>, w)
               /\ left' = SubSeq(right, 1, n) \o w
               /\ right' = SubSeq(right, n + 2, Len(right))

Next ==
  \/ \E c \in Chars : Type(c)
  \/ Backspace \/ Left \/ Right \/ EraseWord \/ Enter \/ Complete
=============================================================================
