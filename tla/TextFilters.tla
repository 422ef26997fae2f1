---------------------------- MODULE TextFilters ----------------------------
(***************************************************************************)
(* The programs that read a text character by character: c/basics/4_09,    *)
(* 4_09_1, 4_09_2 and 4_11_2, c/os/5_03/2_53, and the filters inside       *)
(* c/os/5_28 and 5_30.                                                     *)
(* Each is a machine: what it remembers, and what it puts out for the next *)
(* character.                                                              *)
(***************************************************************************)
EXTENDS Integers, Sequences, FiniteSets, SequencesExt

CONSTANTS
  Alphabet,    (* for each program, the characters its text is made of     *)
  MaxLength,   (* for each program, a bound: how long the text is          *)
  max_lines,   (* 5_28 A                                                   *)
  max_chars,   (* 5_28 C                                                   *)
  Columns,     (* 5_30 C: the 10 it compares flag_out with                 *)
  LongWord     (* 4_09: the 7 of moreseven_lesstwo()                       *)

Filters28 == {"5_28A", "5_28B", "5_28C", "5_28D"}
Filters30 == {"5_30A", "5_30B", "5_30C"}
Brackets == "4_09_1"
TwoLetters == "4_09_2"
WordCount == "4_11_2"
Statistics == "4_09"
LineLengths == "2_53"
Programs == Filters28 \cup Filters30
              \cup {Brackets, TwoLetters, WordCount, Statistics, LineLengths}

VARIABLES
  prog,        (* the program                                              *)
  mem,         (* what it remembers: a record of its variables             *)
  text,        (* history: the characters read                             *)
  out,         (* what it has put out                                      *)
  done         (* the text has ended                                       *)

vars == <<prog, mem, text, out, done>>

Blanks == {" ", "\t"}
Separators == {" ", "\t", "\n"}
Start == ""      (* t == 0: no character of the line came before           *)

-----------------------------------------------------------------------------
(* 5_28: update_info(), and what each variant puts out after it.            *)
Fresh28 == [lines |-> 0, new_line |-> TRUE, first_is_space |-> FALSE,
            chars |-> 0, first_word |-> FALSE, newline |-> FALSE]
(* The variant counts on over the lines' ends.                              *)
MutUpdate(m, c) ==
  [m EXCEPT
    !.chars = @ + 1,
    !.lines = IF c = "\n" THEN @ + 1 ELSE @,
    !.first_word = (m.new_line \/ @) /\ c \notin Blanks,
    !.first_is_space = IF m.new_line THEN c \in Blanks ELSE @,
    !.new_line = (c = "\n")]
update_info(m, c) ==
  [m EXCEPT
    !.chars = IF c = "\n" THEN 0 ELSE @ + 1,
    !.lines = IF c = "\n" THEN @ + 1 ELSE @,
    !.first_word = (m.new_line \/ @) /\ c \notin Blanks,
    !.first_is_space = IF m.new_line THEN c \in Blanks ELSE @,
    !.new_line = (c = "\n")]

Chosen28(m, c) ==
  CASE prog = "5_28A" -> m.lines < max_lines
    [] prog = "5_28B" -> m.first_is_space
    [] prog = "5_28C" -> m.chars < max_chars
    [] prog = "5_28D" -> m.first_word
Step28(m, c) ==
  LET after == update_info(m, c)
      put == Chosen28(after, c)
      ends == prog = "5_28D" /\ c = "\n" /\ (put \/ m.newline)
  IN  [mem |-> [after EXCEPT !.newline = (@ \/ (prog = "5_28D" /\ put)) /\ ~ends],
       put |-> (IF put THEN <<c>> ELSE <<>>) \o (IF ends THEN <<c>> ELSE <<>>)]

(* 5_30: filter_io().                                                       *)
Line30(flag, c) ==
  IF flag # 0 THEN flag ELSE IF c \in Blanks THEN 1 ELSE -1
Step30(flag, c) ==
  CASE prog = "5_30A" -> [mem |-> IF c = "\n" THEN 1 - flag ELSE flag,
                          put |-> IF flag = 1 THEN <<c>> ELSE <<>>]
    [] prog = "5_30B" -> [mem |-> IF c = "\n" THEN 0 ELSE Line30(flag, c),
                          put |-> IF Line30(flag, c) = 1 THEN <<c>> ELSE <<>>]
    [] prog = "5_30C" -> [mem |-> IF c = "\n" THEN 0 ELSE flag + 1,
                          put |-> IF flag < Columns \/ c = "\n" THEN <<c>> ELSE <<>>]

-----------------------------------------------------------------------------
(* 4_09_1: each word in brackets; t is the character before.                *)
is_start_of_word(c, t) == t \in {Start} \cup Blanks /\ c \notin Separators
is_end_of_word(c, t) == c \in Separators /\ t \notin {Start} \cup Blanks
print_words_with_brackets(c, t) ==
  [mem |-> IF c = "\n" THEN Start ELSE c,
   put |-> (IF is_start_of_word(c, t) THEN <<"(">> ELSE <<>>)
             \o (IF c \notin Separators THEN <<c>> ELSE <<>>)
             \o (IF is_end_of_word(c, t) THEN <<")">> ELSE <<>>)
             \o (IF c \in Separators THEN <<c>> ELSE <<>>)]

(* 4_09_2: words of two letters, the two characters before kept in t_2 and  *)
(* t_1.  What is called is_EOL() is true after a word, but not at a line's  *)
(* end, unless a word of two letters is there.                              *)
is_to_print_word(s, c) == s = 3 /\ c \in Separators
is_to_print_end(s, c) == c \in Separators /\ (s = 3 \/ c = "\n")
is_EOL(s, c) == c \in Separators /\ (s = 3 \/ c # "\n")
StepTwo(m, c) ==
  LET s == m.symbols + 1
      kept == IF is_EOL(s, c) THEN [symbols |-> 0, t_1 |-> Start, t_2 |-> Start]
              ELSE [m EXCEPT !.symbols = s]
  IN  [mem |-> [kept EXCEPT
         !.t_2 = IF kept.t_1 # Start THEN kept.t_1 ELSE @,
         !.t_1 = IF is_EOL(s, c) THEN Start ELSE c],
       put |-> (IF is_to_print_word(s, c) THEN <<m.t_2, m.t_1>> ELSE <<>>)
                 \o (IF is_to_print_end(s, c) THEN <<c>> ELSE <<>>)]

(* 4_11_2: counts the words of its argument.                                *)
is_to_count_words(c, t) == t \notin {Start} \cup Blanks /\ c \in Separators
Inc(n, test) == IF test THEN n + 1 ELSE n
StepCount(m, c) ==
  LET prev == IF m.prev = Start THEN c ELSE m.prev IN
    [mem |-> [words |-> Inc(m.words, is_to_count_words(c, prev)), prev |-> c],
     put |-> <<>>]

-----------------------------------------------------------------------------
(* 4_09: what is counted in a line, printed and forgotten at its end.       *)
null_vars == [symbols |-> 0, A |-> FALSE, z |-> FALSE, words |-> 0, odd |-> 0,
  even |-> 0, more |-> 0, less |-> 0, Az |-> 0, longest |-> 0, shortest |-> 0,
  spaces |-> 0, longest_spaces |-> 0, balance |-> 0, paired |-> 0, t |-> Start]

bracket_balance(b, c) ==
  IF b < 0 THEN b ELSE IF c = "(" THEN b + 1 ELSE IF c = ")" THEN b - 1 ELSE b

check_A(c, t) == c = "A" /\ t \in {Start} \cup Separators
check_z(c, t) == c \in Separators /\ t = "z"
brackets_paired(c, t) == c = ")" /\ t = "("
CountChar(m, c) ==
  LET spaces == Inc(m.spaces, c = " ")
      ended == c # " " /\ spaces > m.longest_spaces
  IN  [m EXCEPT
        !.symbols = Inc(@, c \notin Separators),
        !.words = Inc(@, is_to_count_words(c, m.t)),
        !.A = @ \/ check_A(c, m.t), !.z = @ \/ check_z(c, m.t),
        !.balance = bracket_balance(@, c),
        !.paired = Inc(@, brackets_paired(c, m.t)),
        !.longest_spaces = IF ended THEN spaces ELSE @,
        !.spaces = IF ended THEN 0 ELSE spaces]

(* At the end of a word, and at every further separator.                    *)
longest_shortest(m) ==
  LET longest == IF m.symbols > m.longest THEN m.symbols ELSE m.longest
      shortest == IF m.shortest = 0 THEN longest ELSE m.shortest
  IN  [m EXCEPT !.longest = longest,
                !.shortest = IF m.symbols <= shortest THEN m.symbols ELSE shortest]
CountWord(m) ==
  LET n == m.symbols IN
    [longest_shortest(m) EXCEPT
      !.odd = Inc(@, n > 0 /\ n % 2 = 1), !.even = Inc(@, n > 0 /\ n % 2 = 0),
      !.more = Inc(@, n >= LongWord), !.less = Inc(@, 0 < n /\ n <= 2),
      !.Az = Inc(@, m.A /\ m.z),
      !.symbols = 0, !.A = FALSE, !.z = FALSE]

print_answer(m) ==
  [words |-> m.words, odd |-> m.odd, even |-> m.even, more |-> m.more,
   less |-> m.less, Az |-> m.Az, longest |-> m.longest, shortest |-> m.shortest,
   spaces |-> m.longest_spaces, yes |-> m.balance = 0, paired |-> m.paired]
StepLine(m, c) ==
  LET counted == CountChar(m, c)
      after == IF c \in Separators THEN CountWord(counted) ELSE counted
  IN  IF c = "\n" THEN [mem |-> null_vars, put |-> <<print_answer(after)>>]
      ELSE [mem |-> [after EXCEPT !.t = c], put |-> <<>>]

-----------------------------------------------------------------------------
(* 2_53: each line's length goes to one file and the lines that begin with  *)
(* a space to another.  read() fills one byte of an int: if the others, set *)
(* by nobody, are not zero, no character is ever recognised.                *)
LineEnds == {"\n", "\r"}
StepLength(m, char) ==
  LET c == IF m.dirty THEN "unknown" ELSE char
      write_to_txt == m.write_to_txt \/ (m.current_line_len = 0 /\ c = " ")
      txt == IF write_to_txt THEN <<<<"txt", char>>>> ELSE <<>>
  IN  IF c \in LineEnds
      THEN [mem |-> [m EXCEPT !.current_line_len = 0, !.write_to_txt = FALSE],
            put |-> <<<<"bin", m.current_line_len>>>> \o txt]
      ELSE [mem |-> [m EXCEPT !.current_line_len = @ + 1, !.write_to_txt = write_to_txt],
            put |-> txt]

-----------------------------------------------------------------------------
Init ==
  /\ prog \in DOMAIN Alphabet
  /\ \E dirty \in IF prog = LineLengths THEN BOOLEAN ELSE {FALSE} :
       mem = CASE prog \in Filters28 -> Fresh28
               [] prog \in Filters30 -> 0
               [] prog = Brackets -> Start
               [] prog = TwoLetters -> [symbols |-> 0, t_1 |-> Start, t_2 |-> Start]
               [] prog = WordCount -> [words |-> 0, prev |-> Start]
               [] prog = Statistics -> null_vars
               [] prog = LineLengths ->
                    [current_line_len |-> 0, write_to_txt |-> FALSE, dirty |-> dirty]
  /\ text = <<>> /\ out = <<>> /\ done = FALSE

Step(c) ==
  CASE prog \in Filters28 -> Step28(mem, c)
    [] prog \in Filters30 -> Step30(mem, c)
    [] prog = Brackets -> print_words_with_brackets(c, mem)
    [] prog = TwoLetters -> StepTwo(mem, c)
    [] prog = WordCount -> StepCount(mem, c)
    [] prog = Statistics -> StepLine(mem, c)
    [] prog = LineLengths -> StepLength(mem, c)

Feed(c) ==
  /\ ~done /\ Len(text) < MaxLength[prog]
  /\ text' = Append(text, c)
  /\ mem' = Step(c).mem /\ out' = out \o Step(c).put
  /\ UNCHANGED <<prog, done>>

(* The end of the text, or in 2_53 an error, which it does not notice: what *)
(* it compares with -1 is the outcome of a comparison.  5_28 and 5_30 keep  *)
(* a character in a char before they compare it with EOF: the byte 255 is   *)
(* the end for them.  4_11_2 takes what comes last for one more word unless *)
(* it is a space.                                                           *)
LastWord(m) == m.prev \notin {Start, " "}
Finish(c) ==
  /\ ~done /\ done' = TRUE
  /\ c = "EOF" \/ (c = "255" /\ prog \in Filters28 \cup Filters30)
  /\ out' = CASE prog = "5_28A" -> Append(out, "\n")
              [] prog = WordCount -> <<Inc(mem.words, LastWord(mem))>>
              [] OTHER -> out
  /\ UNCHANGED <<prog, mem, text>>

Next ==
  \/ \E c \in Alphabet[prog] : Feed(c)
  \/ \E c \in {"EOF", "255"} : Finish(c)

Spec == Init /\ [][Next]_vars

-----------------------------------------------------------------------------
(* The text as a reader sees it: lines, columns, words.                     *)
Eol(c) == c = "\n" \/ (prog = LineLengths /\ c = "\r")
LineStart(i) ==
  Max({1} \cup {j + 1 : j \in {k \in 1 .. i - 1 : Eol(text[k])}})
LineNumber(i) == 1 + Cardinality({k \in 1 .. i - 1 : text[k] = "\n"})
Column(i) == i - LineStart(i) + 1
Sep(i) == i < 1 \/ text[i] \in Separators
WordEnd(i) == Sep(i) /\ ~Sep(i - 1)
When(test, chars) == IF test THEN chars ELSE <<>>

(* What is put out for the i-th character.                                  *)
Expected(i) ==
  LET c == text[i]
      eol == c = "\n"
      first == text[LineStart(i)]
      inFirstWord == \A k \in LineStart(i) .. i : text[k] \notin Blanks
  IN  CASE prog = "5_28A" -> When(LineNumber(i) < max_lines
                                  \/ (LineNumber(i) = max_lines /\ ~eol), <<c>>)
        [] prog \in {"5_28B", "5_30B"} -> When(first \in Blanks, <<c>>)
        [] prog = "5_28C" -> When(Column(i) < max_chars \/ eol, <<c>>)
        [] prog = "5_28D" -> When(inFirstWord, <<c>>) \o When(eol /\ first \notin Blanks, <<c>>)
        [] prog = "5_30A" -> When(LineNumber(i) % 2 = 0, <<c>>)
        [] prog = "5_30C" -> When(Column(i) <= Columns \/ eol, <<c>>)
        [] prog = Brackets ->
             When(~Sep(i) /\ Sep(i - 1), <<"(">>) \o When(WordEnd(i), <<")">>)
               \o <<c>>
        [] prog = LineLengths ->
             When(Eol(c) /\ ~mem.dirty, <<<<"bin", Column(i) - 1>>>>)
               \o When(first = " " /\ ~mem.dirty, <<<<"txt", c>>>>)
        [] prog = TwoLetters ->
             When(WordEnd(i) /\ ~Sep(i - 2) /\ Sep(i - 3), SubSeq(text, i - 2, i))
               \o When(eol /\ ~(WordEnd(i) /\ ~Sep(i - 2) /\ Sep(i - 3)), <<c>>)

(* At every character the filters have put out what their task asks for of  *)
(* the text so far: lines 1 to max_lines, lines that begin with a blank,    *)
(* the first columns (one less in 5_28 than in 5_30), each line's first     *)
(* word (with an empty line after a line that has only one word), every     *)
(* second line, words in brackets, words of two letters (only in the first  *)
(* line: later ones start with a wrong count).  5_28 A adds a line's end.   *)
(* 2_53 has put out the length of each line that has ended, and the lines   *)
(* that begin with a space, or nothing at all.                              *)
FiltersAsAsked ==
  /\ prog \in Filters28 \cup Filters30 \cup {Brackets, TwoLetters, LineLengths}
  /\ prog = TwoLetters => \A i \in 1 .. Len(text) - 1 : text[i] # "\n"
  => out = FlattenSeq([i \in 1 .. Len(text) |-> Expected(i)])
            \o When(done /\ prog = "5_28A", <<"\n">>)

(* The words of the last line, as the intervals they take.                  *)
LineFrom == LineStart(Len(text))
Words == {w \in (LineFrom .. Len(text)) \X (LineFrom .. Len(text)) :
            /\ w[1] <= w[2] /\ \A k \in w[1] .. w[2] : ~Sep(k)
            /\ (w[1] = LineFrom \/ Sep(w[1] - 1)) /\ (w[2] = Len(text) \/ Sep(w[2] + 1))}
Size(w) == w[2] - w[1] + 1
HowMany(Test(_)) == Cardinality({w \in Words : Test(w)})
Chars(c, i) == Cardinality({k \in LineFrom .. i : text[k] = c})
Runs == {n \in 0 .. Len(text) : \E i \in LineFrom .. Len(text) :
           i + n - 1 <= Len(text) /\ \A k \in i .. i + n - 1 : text[k] = " "}

(* What 4_09 prints for a line is true of it: words, their lengths, words   *)
(* from A to z, balanced and adjacent brackets.  Three numbers are not what *)
(* they are called: the one after ">7" (4_09.c:210) takes in the words of   *)
(* exactly seven letters too; the shortest word is the shortest since two   *)
(* separators came together, 0 when the line ends with two; the longest run *)
(* of spaces is as long as printed or shorter, because shorter runs are     *)
(* added up.                                                                *)
GapAt(i) == Sep(i) /\ (i = LineFrom \/ Sep(i - 1))
SinceGap == {w \in Words : \A i \in w[2] + 1 .. Len(text) : ~GapAt(i)}
StatisticsAreTrue ==
  prog = Statistics /\ text # <<>> /\ text[Len(text)] = "\n" =>
    LET a == out[Len(out)] IN
      /\ a.words = Cardinality(Words)
      /\ a.odd = HowMany(LAMBDA w : Size(w) % 2 = 1) /\ a.even = a.words - a.odd
      /\ a.more = HowMany(LAMBDA w : Size(w) > LongWord)
                  + HowMany(LAMBDA w : Size(w) = LongWord)
      /\ a.less = HowMany(LAMBDA w : Size(w) <= 2)
      /\ a.Az = HowMany(LAMBDA w : text[w[1]] = "A" /\ text[w[2]] = "z")
      /\ a.longest = Max({0} \cup {Size(w) : w \in Words})
      /\ a.shortest = IF SinceGap = {} THEN 0 ELSE Min({Size(w) : w \in SinceGap})
      /\ a.yes <=> /\ Chars("(", Len(text)) = Chars(")", Len(text))
                   /\ \A i \in LineFrom .. Len(text) : Chars("(", i) >= Chars(")", i)
      /\ a.paired = Cardinality({i \in LineFrom .. Len(text) - 1 :
                                   text[i] = "(" /\ text[i + 1] = ")"})
      /\ Max(Runs) <= a.spaces /\ a.spaces <= Chars(" ", Len(text))

(* The number of words, one too many when the argument ends with a tab.     *)
WordsAreCounted ==
  prog = WordCount /\ done =>
    out = <<Cardinality({i \in 1 .. Len(text) : ~Sep(i) /\ Sep(i - 1)})
            + (IF text # <<>> /\ text[Len(text)] = "\t" THEN 1 ELSE 0)>>

(* What the programs that count say at a line's end or at the end.          *)
CountsAreTrue == StatisticsAreTrue /\ WordsAreCounted
=============================================================================
