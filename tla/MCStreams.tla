----------------------------- MODULE MCStreams -----------------------------
(* One of the programs that read or hand on a stream per behaviour, over    *)
(* either its processes and pipes or its characters: "system" says which.   *)
EXTENDS MCPipelines, SequencesExt

CONSTANTS
  Alphabet, MaxLength, max_lines, max_chars, Columns, LongWord,
  Read40, MaxRead, Tokens, MaxTokens, Width, Nearness,
  Arguments41, Arguments42, Arguments44, Arguments65,
  CharBits, start_buffer, LF, TAB, SPACE, DigitCodes, Typed, MaxLine,
  Secrets, Lines, buff, bufsize
VARIABLES
  system,
  prog, mem, text, put, done,
  list, cur, readed_number, stuck, turns, readed, printed,
  program, items, tmp, phase, seen, ended, shown,
  which, argv, stage, answers,
  solve, arr, counter, flag_eof, state, typed, output,
  asks, moment, secret, line, got, echo, result

T == INSTANCE TextFilters WITH out <- put
N == INSTANCE RepeatedNumbers WITH Numbers <- Read40, input <- readed
L == INSTANCE NumberLists
A == INSTANCE Arguments
C == INSTANCE CharArray
Q == INSTANCE Prompts

-----------------------------------------------------------------------------
MCAlphabet ==
  [p \in {"4_11_2"} |-> {"x", " ", "\t"}]
    @@ [p \in {"4_09"} |-> {"A", "z", "(", ")", " ", "\n"}]
MCMaxLength == [p \in {"4_11_2"} |-> 7] @@ [p \in {"4_09"} |-> 6]

MCTokens ==
  [p \in {"2_41"} |-> {7, 8, 9}] @@ [p \in {"4_19"} |-> -8 .. 7]
    @@ [p \in {"2_43"} |-> {"x", "y", " "}] @@ [p \in {"2_44"} |-> {"1", "2", "x"}]
MCMaxTokens == [p \in {"2_41", "2_43", "2_44"} |-> 6] @@ [p \in {"4_19"} |-> 3]

MCWords == {<<>>, <<"a">>, <<"m">>, <<"m", "m">>, <<"5", "7">>, <<"a", "@", ".">>,
            <<"@", "M", "@", ".">>, <<"Z", "5">>, <<"z", "5", "z">>}
MCArguments41 == UNION {[1 .. n -> MCWords] : n \in 1 .. 3}
MCArguments42 == {<<pat, s>> : pat \in SeqOf({"a", "m"}, 3), s \in SeqOf({"a", "m"}, 5)}
MCArguments44 == {<<s>> : s \in SeqOf({"a", " "}, 5)}
Dotted(a, b, c, d) == a \o <<-2>> \o b \o <<-2>> \o c \o <<-2>> \o d
MCArguments65 ==
  {<<Dotted(a, b, c, d)>> : a, c, d \in {<<>>, <<1, 9, 2>>, <<-1>>, <<2, 5, 6>>, <<7>>},
                            b \in {<<>>, <<0>>, <<2, 5, 5>>, <<0, 0, 1, 0>>}}
    \cup {<<<<1, -2, 2, -2, 3>>>>, <<<<1, -2, 2, -2, 3, -2, 4, -2>>>>}

MCSecrets == {<<>>, <<"a">>, <<"a", "\n">>, <<"\n", "a">>, <<"a", "b", "\n">>,
              <<"a", "b", "c", "\n">>, <<"a", "b", "c", "d", "\n">>}
MCLines == {<<>>} \cup UNION {{s, Append(s, "\n")} :
             s \in {<<"a">>, <<"b">>, <<"a", "b">>, <<"a", "b", "c">>, <<"a", "b", "c", "d">>}}
             \cup {<<"\n">>}

(* Codes of a small char: 1 line's end, 2 tab, 4 space, 5 and 6 digits.     *)
MCDigitCodes == {5, 6}
MCTyped ==
  [p \in {"2_42"} |-> {2, 4, 7}] @@ [p \in {"2_43"} |-> {4, 6, 7}]
    @@ [p \in {"2_44"} |-> {5, 6, 7}]

-----------------------------------------------------------------------------
filters == <<prog, mem, text, put, done>>
numbers == <<list, cur, readed_number, stuck, turns, readed, printed>>
lists == <<program, items, tmp, phase, seen, ended, shown>>
arguments == <<which, argv, stage, answers>>
arrays == <<solve, arr, counter, flag_eof, state, typed, output>>
prompts == <<asks, moment, secret, line, got, echo, result>>

PipelinesIdle ==
  /\ job = Job("5_12", <<"none">>)
  /\ image = [p \in Procs |-> "main"] /\ step = [p \in Procs |-> 1] /\ written = 0
  /\ life = [p \in Procs |-> "none"]
  /\ status = [p \in Procs |-> NoStatus] /\ fds = [p \in Procs |-> [s \in Slots |-> "closed"]]
  /\ deaf = {} /\ hold = {} /\ failed = FALSE /\ taken = 0
  /\ buffer = [p \in Procs |-> <<>>] /\ pipe = [k \in {"1", "2"} |-> 0]
  /\ input = 0 /\ out = <<>> /\ file = <<>> /\ at = 0
FiltersIdle == prog = "none" /\ mem = 0 /\ text = <<>> /\ put = <<>> /\ done = TRUE
NumbersIdle ==
  /\ list = <<>> /\ cur = 0 /\ readed_number = 0 /\ stuck = FALSE
  /\ turns = 0 /\ readed = <<>> /\ printed = <<>>
ListsIdle ==
  /\ program = "none" /\ items = <<>> /\ tmp = 0 /\ phase = "idle"
  /\ seen = <<>> /\ ended = "no" /\ shown = <<>>
ArgumentsIdle == which = "none" /\ argv = <<>> /\ stage = 0 /\ answers = <<>>
ArraysIdle ==
  /\ solve = "none" /\ arr = <<>> /\ counter = 0 /\ flag_eof = FALSE
  /\ state = "idle" /\ typed = <<>> /\ output = <<>>
PromptsIdle ==
  /\ asks = "none" /\ moment = "idle" /\ secret = <<>> /\ line = <<>>
  /\ got = <<>> /\ echo = TRUE /\ result = ""

Systems == {"pipelines", "filters", "numbers", "lists", "arguments", "arrays", "prompts"}
MCInit ==
  /\ system \in Systems
  /\ IF system = "pipelines" THEN Init ELSE PipelinesIdle
  /\ IF system = "filters" THEN T!Init ELSE FiltersIdle
  /\ IF system = "numbers" THEN N!Init ELSE NumbersIdle
  /\ IF system = "lists" THEN L!Init ELSE ListsIdle
  /\ IF system = "arguments" THEN A!Init ELSE ArgumentsIdle
  /\ IF system = "arrays" THEN C!Init ELSE ArraysIdle
  /\ IF system = "prompts" THEN Q!Init ELSE PromptsIdle

others == <<filters, numbers, lists, arguments, arrays>>
MCNext ==
  /\ UNCHANGED system
  /\ \/ system = "pipelines" /\ Next /\ UNCHANGED <<others, prompts>>
     \/ /\ UNCHANGED <<vars, prompts>>
        /\ \/ system = "filters" /\ T!Next /\ UNCHANGED <<numbers, lists, arguments, arrays>>
           \/ system = "numbers" /\ N!Next /\ UNCHANGED <<filters, lists, arguments, arrays>>
           \/ system = "lists" /\ L!Next /\ UNCHANGED <<filters, numbers, arguments, arrays>>
           \/ system = "arguments" /\ A!Next /\ UNCHANGED <<filters, numbers, lists, arrays>>
           \/ system = "arrays" /\ C!Next /\ UNCHANGED <<filters, numbers, lists, arguments>>
     \/ system = "prompts" /\ Q!Next /\ UNCHANGED <<vars, others>>

MCSpec ==
  /\ MCInit /\ [][MCNext]_<<system, vars, others, prompts>>
  /\ \A p \in Procs : WF_vars(Step(p))

-----------------------------------------------------------------------------
(* What is counted in a text, printed from a list, or for an argument or an *)
(* answer, is what was asked for: TextFilters.CountsAreTrue for 4_09 and    *)
(* 4_11_2, RepeatedNumbers.PrintsTheRepeated for 2_40,                      *)
(* NumberLists.ListsArePrinted for 2_41, 2_43, 2_44 and 4_19,               *)
(* Arguments.ArgumentsAsAsked for 4_11_1, 4_12, 4_14 and 6_05,              *)
(* CharArray.ArraysAsAsked for the three programs of 4_20, and              *)
(* Prompts.PromptsAsAsked for 5_33 and 6_09.                                *)
AnswersAsAsked ==
  /\ T!CountsAreTrue /\ N!PrintsTheRepeated /\ L!ListsArePrinted /\ A!ArgumentsAsAsked
  /\ C!ArraysAsAsked /\ Q!PromptsAsAsked
=============================================================================
