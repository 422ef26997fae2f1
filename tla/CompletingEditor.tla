-------------------------- MODULE CompletingEditor --------------------------
(***************************************************************************)
(* c/os/5_34-5_35/5_34.c: the line editor without arrow keys.  Its cursor  *)
(* is always at the end of the text.  Lines stay shorter than out_buf and  *)
(* than the terminal's line.                                               *)
(***************************************************************************)
EXTENDS Integers, SequencesExt, EditorParts

CONSTANTS
  Letters,      (* letters of words                                        *)
  Words,        (* the dictionary: the sequence of its lines               *)
  Inputs,       (* what a read() may return: sequences of bytes            *)
  MaxReads      (* bound: how many read() calls return                     *)

VARIABLES
  typed,        (* out_buf up to p_obuf_cur                                *)
  stale,        (* out_buf from there to the first zero: not empty before  *)
                (* anything was written to the buffer                      *)
  waiting,      (* what is left of read_buf                                *)
  stored,       (* the line written last                                   *)
  screen,       (* the terminal's line and column                          *)
  open,         (* the program runs                                        *)
  calls,        (* how many reads have returned                            *)
  dirty         (* history: the terminal's line has shown stale cells      *)

buffer == <<typed, stale>>
shortVars == <<buffer, waiting, stored, screen, open, calls, dirty>>

Init ==
  /\ typed = <<>> /\ stale \in {<<>>, <<"a">>, <<Space, "b">>}
  /\ waiting = <<>> /\ stored = <<>> /\ screen = [line |-> <<>>, col |-> 0]
  /\ open = TRUE /\ calls = 0 /\ dirty = FALSE

Shows(s) == screen' = FoldLeft(Emit, screen, s)
Key(k) == open /\ waiting # <<>> /\ Head(waiting) = k /\ waiting' = Tail(waiting) /\ UNCHANGED calls

Read(s) ==
  /\ open /\ waiting = <<>>
  /\ calls < MaxReads /\ calls' = calls + 1
  /\ waiting' = s
  /\ UNCHANGED <<buffer, stored, screen, open, dirty>>

Quit ==
  /\ Key("EOT")
  /\ open' = (typed # <<>>)
  /\ UNCHANGED <<buffer, stored, screen, dirty>>

(* The buffer has no terminating zero before the first character: what it   *)
(* holds is stored.                                                         *)
Enter ==
  /\ Key("LF")
  /\ stored' = typed \o stale
  /\ typed' = <<>> /\ stale' = <<>>
  /\ Shows(<<"LF">>) /\ dirty' = FALSE
  /\ UNCHANGED open

(* remove_char_from_buf, process_backspace.                                 *)
Shorter == Front(typed)
Backspace ==
  /\ Key("DEL") \/ Key("BS")
  /\ IF typed = <<>> THEN UNCHANGED <<typed, screen>>
     ELSE typed' = Shorter /\ Shows(<<"BS", Space, "BS">>)
  /\ UNCHANGED <<stale, stored, open, dirty>>

Type(c) ==
  /\ Key(c)
  /\ typed' = Append(typed, c) /\ stale' = <<>>
  /\ Shows(<<c>>)
  /\ UNCHANGED <<stored, open, dirty>>

(* The prefix is what follows the last separator; when it is empty all of   *)
(* the dictionary is listed, at the end of the text or over stale cells.    *)
get_prefix_start == Max({0} \union {i \in DOMAIN typed : typed[i] \in Separators})
Prefix == SubSeq(typed, get_prefix_start + 1, Len(typed))
search_for_matches ==
  [w \in DOMAIN Words |-> IF Prefix = <<>> THEN 1 ELSE Found(Prefix, Words[w])]
output_multiple_matches(m) ==
  <<"LF">> \o FlattenSeq([w \in DOMAIN m |-> FlattenSeq(Times(m[w], Append(Words[w], Space)))])
    \o <<"LF">> \o typed \o stale
complete_word(w) == SubSeq(typed, 1, get_prefix_start) \o w

process_autocomplete ==
  /\ Key("TAB")
  /\ LET m == search_for_matches
         matches == IF Prefix = <<>> THEN -1 ELSE FoldLeft(LAMBDA a, k : a + k, 0, m)
     IN  \/ /\ matches = 1
            /\ typed' = complete_word(Words[CHOOSE w \in DOMAIN m : m[w] = 1])
            /\ Shows(<<"CR">> \o typed')
            /\ UNCHANGED dirty
         \/ /\ matches \notin {0, 1}
            /\ Shows(output_multiple_matches(m))
            /\ dirty' = (stale # <<>>)
            /\ UNCHANGED typed
         \/ matches = 0 /\ UNCHANGED <<typed, screen, dirty>>
  /\ UNCHANGED <<stale, stored, open>>

Next ==
  \/ \E s \in Inputs : Read(s)
  \/ Quit \/ Enter \/ Backspace \/ process_autocomplete
  \/ \E c \in Letters \union {Space} : Type(c)

Spec == Init /\ [][Next]_shortVars

-----------------------------------------------------------------------------
(* The terminal shows the text and its cursor is at the end of it, unless   *)
(* Tab was the first key and printed what the buffer held before.           *)
ScreenShowsText ==
  ~dirty => /\ screen.col = Len(typed)
            /\ typed = SubSeq(screen.line, 1, Len(typed))
            /\ \A i \in Len(typed) + 1 .. Len(screen.line) : screen.line[i] = Space

(* Every key does to the line what TextLine says, with nothing behind the   *)
(* cursor; only an Enter that comes first may store something else.         *)
Ideal == INSTANCE TextLine WITH
  Chars <- Letters \union {Space}, Dictionary <- ToSet(Words),
  left <- typed, right <- <<>>, saved <- stored
ShortEditsAsPromised ==
  [][(stale # <<>> /\ typed = <<>> /\ stored' = stale) \/ Ideal!Next \/ UNCHANGED Ideal!line]_shortVars
=============================================================================
