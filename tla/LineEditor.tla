----------------------------- MODULE LineEditor -----------------------------
(***************************************************************************)
(* c/os/5_34-5_35/5_35.c: a line editor with arrow keys, erasing of words  *)
(* and completion from a dictionary.  What a key does is one action; a     *)
(* read() may return several keys.  Lines stay shorter than out_buf and    *)
(* than the terminal's line.                                               *)
(***************************************************************************)
EXTENDS Integers, SequencesExt, EditorParts

CONSTANTS
  Letters,      (* letters of words                                        *)
  Words,        (* the dictionary: the sequence of its lines               *)
  Inputs,       (* what a read() may return: sequences of bytes            *)
  Size,         (* cells of out_buf that lines may reach                   *)
  MaxReads      (* bound: how many read() calls return                     *)

NUL == "NUL"
Printing == Letters \union {Space, "[", "C", "D"}
Keys == {"EOT", "TAB", "LF", "DEL", "BS", "ESC", "^W"}

ASSUME BytesAssumption ==
  NUL \notin Letters /\ Letters \intersect (Separators \union Keys \union {"CR"}) = {}
ASSUME WordsAssumption == Words \in Seq(Seq(Letters))
ASSUME InputsAssumption == Inputs \subseteq Seq(Printing \union Keys)

(* escape_seq has seven cells, the last one for the terminating zero: of a  *)
(* read with an escape, no more than six bytes come before the next escape. *)
(* More would be written behind the array, which is not modelled.           *)
EscapeRoom == 6
ASSUME EscapeAssumption ==
  \A s \in Inputs : "ESC" \in ToSet(s) =>
    Len(s) <= EscapeRoom \/ \E i \in 2 .. EscapeRoom + 1 : s[i] = "ESC"

ASSUME BoundsAssumption == MaxReads \in Nat /\ Size \in Nat \ {0}

(* Lines stay shorter than out_buf: the reads return no more than so many   *)
(* bytes, each of which writes to no more than so many cells.               *)
RoomFor(bytes, cells) ==
  /\ \A s \in Inputs : Len(s) <= bytes
  /\ \A w \in DOMAIN Words : Len(Words[w]) < cells
  /\ MaxReads * bytes * cells + 3 < Size
ASSUME RoomAssumption == \E bytes \in 0 .. Size, cells \in 1 .. Size : RoomFor(bytes, cells)

Cells == 0 .. Size - 1
Bytes == Printing \union {NUL, "LF"}

VARIABLES
  out_buf, p_obuf_cur, arrow_pressed,
  read_buf, read_res, p_rbuf,   (* what was read, and where the loop is    *)
  out,          (* the line stored last                                    *)
  terminal,     (* the line the terminal's cursor is on, and its column    *)
  running,
  reads,        (* how many reads have returned                            *)
  rough         (* history: has an arrow key been pressed at an end of the *)
                (* line, or come in one read with other keys               *)

editor == <<out_buf, p_obuf_cur, arrow_pressed>>
input == <<read_buf, reads>>
vars == <<editor, input, read_res, p_rbuf, out, terminal, running, rough>>

-----------------------------------------------------------------------------
(* Strings in out_buf *)

StrEnd(b, i) == Min({j \in Cells : j >= i /\ b[j] = NUL})
Str(b, i) == [k \in 1 .. StrEnd(b, i) - i |-> b[i + k - 1]]
StrCpy(b, i, s) ==
  [j \in Cells |-> IF j < i \/ j > i + Len(s) THEN b[j]
                   ELSE IF j = i + Len(s) THEN NUL ELSE s[j - i + 1]]
Text == Str(out_buf, 0)

TypeOK ==
  /\ out_buf \in [Cells -> Bytes]
  /\ \E j \in Cells : out_buf[j] = NUL
  /\ p_obuf_cur \in 0 .. StrEnd(out_buf, 0)
  /\ arrow_pressed \in {0, 1}
  /\ read_buf \in Inputs \union {<<>>}
  /\ read_res \in Int /\ p_rbuf \in Nat
  /\ out \in Seq(Bytes)
  /\ terminal.line \in Seq(Bytes) /\ terminal.col \in 0 .. Len(terminal.line)
  /\ running \in BOOLEAN /\ rough \in BOOLEAN
  /\ reads \in 0 .. MaxReads

(* The buffer is not initialised beyond its first cell: there may be a few  *)
(* characters in it.                                                        *)
Init ==
  /\ \E n \in {0, 2} :
       out_buf = [j \in Cells |-> IF j \in 1 .. n THEN "[" ELSE NUL]
  /\ p_obuf_cur = 0 /\ arrow_pressed = 0
  /\ read_buf = <<>> /\ read_res = 0 /\ p_rbuf = 0
  /\ out = <<>>
  /\ terminal = [line |-> <<>>, col |-> 0]
  /\ running = TRUE /\ reads = 0 /\ rough = FALSE

-----------------------------------------------------------------------------
Shows(s) == terminal' = FoldLeft(Emit, terminal, s)

print_updated_buf(b, cur, offset) ==
  LET s == Str(b, 0)
  IN  <<"CR">> \o s \o Times(offset, Space) \o Times(offset, "BS")
      \o <<"CR">> \o s \o Times(Len(s) - cur, "BS")

-----------------------------------------------------------------------------
Waiting == running /\ p_rbuf >= read_res
Reading(c) == running /\ p_rbuf < read_res /\ read_buf[p_rbuf + 1] = c
NextByte == p_rbuf' = p_rbuf + 1 /\ UNCHANGED <<input, read_res, running>>

Read(s) ==
  /\ Waiting
  /\ reads < MaxReads
  /\ reads' = reads + 1
  /\ read_buf' = s /\ read_res' = Len(s) /\ p_rbuf' = 0
  /\ rough' = (rough \/ ("ESC" \in ToSet(s) /\ Len(s) # 3))
  /\ UNCHANGED <<editor, out, terminal, running>>

(* '\4' at the start of the line; elsewhere nothing happens.                *)
Quit ==
  /\ Reading("EOT")
  /\ running' = (p_obuf_cur # 0)
  /\ p_rbuf' = p_rbuf + 1
  /\ UNCHANGED <<editor, input, read_res, out, terminal, rough>>

Enter ==
  /\ Reading("LF")
  /\ out' = Text
  /\ out_buf' = [out_buf EXCEPT ![0] = NUL]
  /\ p_obuf_cur' = 0
  /\ Shows(<<"LF">>)
  /\ NextByte
  /\ UNCHANGED <<arrow_pressed, rough>>

(* process_backspace, remove_char_from_buf; in the variants the cursor      *)
(* stays, always or when there is text behind it.                           *)
MutStay(cur) == cur
MutBackTo(cur) == IF out_buf[cur] = NUL THEN cur - 1 ELSE cur
BackTo(cur) == cur - 1

Backspace ==
  /\ Reading("DEL") \/ Reading("BS")
  /\ IF p_obuf_cur = 0 THEN UNCHANGED <<out_buf, p_obuf_cur, terminal>>
     ELSE LET tail == Str(out_buf, p_obuf_cur) IN
            /\ out_buf' = StrCpy(out_buf, p_obuf_cur - 1, tail)
            /\ p_obuf_cur' = BackTo(p_obuf_cur)
            /\ Shows(<<"BS">> \o tail \o <<Space, "BS">> \o Times(Len(tail), "BS"))
  /\ NextByte
  /\ UNCHANGED <<arrow_pressed, out, rough>>

(* process_escape_seq looks at the bytes from the start of the buffer, as   *)
(* far as the next escape, and takes their number off read_res.             *)
EscapeSeq ==
  LET stops == {i \in 2 .. read_res : read_buf[i] = "ESC"}
  IN  SubSeq(read_buf, 1, IF stops = {} THEN read_res ELSE Min(stops) - 1)
Arrow == IF Len(EscapeSeq) >= 3 THEN EscapeSeq[3] ELSE NUL

Refused ==
  \/ Arrow = "D" /\ p_obuf_cur = 0
  \/ Arrow = "C" /\ out_buf[p_obuf_cur] = NUL

Escape ==
  /\ Reading("ESC")
  /\ read_res' = read_res - Len(EscapeSeq)
  /\ arrow_pressed' = IF Refused THEN 1 ELSE arrow_pressed
  /\ rough' = (rough \/ Refused)
  /\ CASE Arrow = "D" /\ ~Refused ->
            p_obuf_cur' = p_obuf_cur - 1 /\ Shows(<<"BS">>)
       [] Arrow = "C" /\ ~Refused ->
            p_obuf_cur' = p_obuf_cur + 1 /\ Shows(<<out_buf[p_obuf_cur]>>)
       [] OTHER -> UNCHANGED <<p_obuf_cur, terminal>>
  /\ p_rbuf' = p_rbuf + 1
  /\ UNCHANGED <<out_buf, input, out, running>>

(* erase_prev_word: first back over separators, unless the cursor is on a   *)
(* word, and then over the word, to the separator before it.                *)
IsSep(i) == out_buf[i] \in Separators
WordEnd(cur) ==
  IF IsSep(cur) \/ out_buf[cur] = NUL
  THEN Max({0} \union {i \in 0 .. cur : ~IsSep(i) /\ out_buf[i] # NUL})
  ELSE cur
ErasedFrom(cur) == Max({0} \union {i \in 0 .. WordEnd(cur) : IsSep(i)})

ErasePrevWord ==
  /\ Reading("^W")
  /\ IF p_obuf_cur = 0 THEN UNCHANGED <<out_buf, p_obuf_cur, terminal>>
     ELSE LET to == ErasedFrom(p_obuf_cur) IN
            /\ out_buf' = StrCpy(out_buf, to, Str(out_buf, p_obuf_cur))
            /\ p_obuf_cur' = to
            /\ Shows(print_updated_buf(out_buf', to, p_obuf_cur - to))
  /\ NextByte
  /\ UNCHANGED <<arrow_pressed, out, rough>>

(* A character: inserted by update_out_buf (the variant shifts nothing), or *)
(* put at the end, where the terminating zero is left out after an arrow    *)
(* that had nowhere to go.                                                  *)
MutInserted(c) == [out_buf EXCEPT ![p_obuf_cur] = c]
Inserted(c) == StrCpy(out_buf, p_obuf_cur, <<c>> \o Str(out_buf, p_obuf_cur))

TypeInside(c) ==
  /\ Reading(c)
  /\ out_buf[p_obuf_cur] # NUL
  /\ out_buf' = Inserted(c)
  /\ p_obuf_cur' = p_obuf_cur + 1
  /\ Shows(print_updated_buf(out_buf', p_obuf_cur', 0))
  /\ NextByte
  /\ UNCHANGED <<arrow_pressed, out, rough>>

TypeAtEnd(c) ==
  /\ Reading(c)
  /\ out_buf[p_obuf_cur] = NUL
  /\ out_buf' = [out_buf EXCEPT ![p_obuf_cur] = c,
                                ![p_obuf_cur + 1] = IF arrow_pressed = 0 THEN NUL ELSE @]
  /\ p_obuf_cur' = p_obuf_cur + 1
  /\ arrow_pressed' = 0
  /\ Shows(<<c>>)
  /\ NextByte
  /\ UNCHANGED <<out, rough>>

-----------------------------------------------------------------------------
(* Completion *)

(* get_prefix_start, and prefix_end as process_autocomplete sets it.        *)
PrefixStart(cur) ==
  LET from == IF cur > 0 /\ ~IsSep(cur - 1) THEN cur - 1 ELSE cur
      seps == {i \in 0 .. from : IsSep(i)}
  IN  IF seps = {} THEN 0 ELSE Max(seps) + 1
PrefixEnd(cur) == IF cur > 0 THEN cur - 1 ELSE PrefixStart(cur)

prefix_is_empty(first, last) ==
  \/ out_buf[first] = NUL /\ out_buf[last] = NUL
  \/ first # last /\ \A i \in first .. last - 1 : IsSep(i)

(* search_for_matches.                                                      *)
SkipSeps(i) == Min({j \in Cells : j >= i /\ ~IsSep(j)})
Prefix(first, last) ==
  LET from == SkipSeps(first)
  IN  SubSeq(Str(out_buf, from), 1, last - from + 1)
Matches(first, last) ==
  IF Prefix(first, last) = <<>> THEN [w \in DOMAIN Words |-> 0]
  ELSE [w \in DOMAIN Words |-> Found(Prefix(first, last), Words[w])]
Count(m) == FoldLeft(LAMBDA a, k : a + k, 0, m)

Listing(m) ==
  <<"LF">> \o FlattenSeq([w \in DOMAIN m |-> FlattenSeq(Times(m[w], Append(Words[w], Space)))])
  \o <<"LF">> \o Text \o Times(Len(Text) - p_obuf_cur, "BS")

(* complete_word: fgets() puts the line with its newline over the prefix,   *)
(* and what stood behind the prefix is put back behind the word.            *)
Completed(first, last, w) ==
  StrCpy(StrCpy(out_buf, first, Append(w, "LF")), first, w \o Str(out_buf, last + 1))

Autocomplete ==
  LET first == PrefixStart(p_obuf_cur)
      last == PrefixEnd(p_obuf_cur)
      empty == prefix_is_empty(first, last)
      m == IF empty THEN [w \in DOMAIN Words |-> 1] ELSE Matches(first, last)
  IN  /\ Reading("TAB")
      /\ IF ~empty /\ Count(m) = 1
         THEN LET w == Words[CHOOSE k \in DOMAIN m : m[k] = 1] IN
                /\ out_buf' = Completed(first, last, w)
                /\ p_obuf_cur' = first + Len(w)
                /\ Shows(<<"CR">> \o Str(out_buf', 0)
                         \o Times(Len(Str(out_buf', p_obuf_cur')), "BS"))
         ELSE /\ UNCHANGED <<out_buf, p_obuf_cur>>
              /\ IF empty \/ Count(m) # 0 THEN Shows(Listing(m)) ELSE UNCHANGED terminal
      /\ NextByte
      /\ UNCHANGED <<arrow_pressed, out, rough>>

Next ==
  \/ \E s \in Inputs : Read(s)
  \/ Quit \/ Enter \/ Backspace \/ Escape \/ ErasePrevWord \/ Autocomplete
  \/ \E c \in Printing : TypeInside(c) \/ TypeAtEnd(c)

Spec == Init /\ [][Next]_vars

-----------------------------------------------------------------------------
(* Properties *)

(* As long as every arrow key came by itself and had somewhere to go, the   *)
(* terminal shows the text of the buffer and its cursor is at p_obuf_cur.   *)
TerminalShowsText ==
  ~rough => /\ terminal.col = p_obuf_cur
            /\ Text = SubSeq(terminal.line, 1, Len(Text))
            /\ \A i \in Len(Text) + 1 .. Len(terminal.line) : terminal.line[i] = Space

(* And every key does to the line what TextLine says it does.               *)
Before == SubSeq(Text, 1, p_obuf_cur)
Behind == SubSeq(Text, p_obuf_cur + 1, Len(Text))
Ideal == INSTANCE TextLine WITH
  Chars <- Printing, Dictionary <- ToSet(Words), left <- Before, right <- Behind, saved <- out

EditsAsPromised == [][rough' \/ Ideal!Next \/ UNCHANGED Ideal!line]_vars
=============================================================================
