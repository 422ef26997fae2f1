------------------------------ MODULE Signals ------------------------------
(***************************************************************************)
(* The programs that live by signals: c/os/5_20 to 5_23, the daemon 5_37   *)
(* and c/networks/6_10.  A process is a stack of frames, main() at the     *)
(* bottom and above it the handlers that have interrupted each other; a    *)
(* frame is the sequence of the steps it still takes.  signal() is that of *)
(* the C library:                                                          *)
(* a handler's own signal waits until it returns, read() is restarted,     *)
(* pause() and select() are not.  A signal that is pending is not queued.  *)
(***************************************************************************)
EXTENDS Integers, Sequences, FiniteSets, SequencesExt

CONSTANTS
  Programs,    (* which of the programs are run                            *)
  LineLengths, (* how long the lines are that are typed                    *)
  MaxSignals,  (* bound: how many signals the user sends                   *)
  MaxReads,    (* bound: how often the program reads                       *)
  MaxTicks     (* bound: how often the time runs out                       *)

ASSUME ProgramAssumption == 
  Programs \subseteq {"5_20", "5_21", "5_22", "5_23", "5_37", "6_10"}
ASSUME BoundAssumption ==
  /\ LineLengths \subseteq Nat
  /\ MaxSignals \in Nat /\ MaxReads \in Nat /\ MaxTicks \in Nat

VARIABLES
  prog,        (* the program                                              *)
  stack,       (* the frames, the running one last: [of, todo, clean],     *)
               (* clean: no SIGINT was delivered since the frame began     *)
  handled,     (* the signals signal() has been called for                 *)
  pending,     (* the signals sent and not yet delivered                   *)
  alarmed,     (* an alarm is set                                          *)
  flag,        (* sig_caught, flag, exit_flag, sigint_flag                 *)
  char,        (* 5_22: the character written                              *)
  strs, chrs,  (* the counters of lines and characters; strs is also the n *)
               (* of 5_21 and the sigusr1_count of 5_37                    *)
  watched,     (* 6_10: standard input is in readfds                       *)
  ended,       (* "no" while it runs, then how it ended                    *)
  reads,       (* history: what was read, in 6_10 the lengths of lines     *)
  shown,       (* history: the counters shown, and after how many reads    *)
  sent, ticks, (* how many signals were sent, how often time ran out       *)
  calm,        (* history: the last SIGINT's handler has ended, and the    *)
               (* flag was cleared by somebody who began after that        *)
  entry        (* history: calm when the last SIGINT was delivered         *)

memory == <<flag, char, strs, chrs, watched, reads, shown>>
history == <<calm, entry>>
vars == <<prog, stack, handled, pending, alarmed, flag, char, strs, chrs, watched,
          ended, reads, shown, sent, ticks, calm, entry>>

-----------------------------------------------------------------------------
(* What a handler does, step by step.                                       *)
IntSteps == [p \in {"5_20", "5_21", "5_22", "5_23", "6_10"} |->
  CASE p = "5_20" -> <<"set">>
    [] p = "5_21" -> <<"count">>
    [] p = "5_22" -> <<"test", "minus", "alarm", "write">>
    [] p = "5_23" -> <<"test", "show", "alarm">>
    [] p = "6_10" -> <<"test", "show">>]
MutQuitSteps == <<"plus", "alarm", "write">>
QuitSteps == <<"plus", "alarm", "clear", "write">>
MutAlrmSteps == [p \in {"5_22", "5_23", "5_37"} |-> <<"clear", "write">>]
AlrmSteps == [p \in {"5_22", "5_23", "5_37"} |->
  CASE p = "5_22" -> <<"clear", "alarm", "write">>
    [] p = "5_23" -> <<"clear", "write", "alarm">>
    [] p = "5_37" -> <<"show", "alarm">>]
Usr1Steps == [p \in {"5_21", "5_37"} |->
  IF p = "5_21" THEN <<"set">> ELSE <<"count", "show", "alarm">>]
Handler(s) ==
  CASE s = "INT" -> IntSteps[prog]
    [] s = "QUIT" -> QuitSteps
    [] s = "ALRM" -> AlrmSteps[prog]
    [] s = "USR1" -> Usr1Steps[prog]

(* The signals main() calls signal() for, in its order; what it does then,  *)
(* and what it does over and over.                                          *)
Caught ==
  CASE prog \in {"5_20", "6_10"} -> <<"INT">>
    [] prog = "5_21" -> <<"INT", "USR1">>
    [] prog = "5_22" -> <<"INT", "QUIT", "ALRM">>
    [] prog = "5_23" -> <<"ALRM", "INT">>
    [] prog = "5_37" -> <<"USR1", "ALRM">>
Turn ==
  CASE prog = "5_20" -> <<"while">>
    [] prog = "5_21" -> <<"pause", "if">>
    [] prog \in {"5_22", "5_37"} -> <<"pause">>
    [] prog = "5_23" -> <<"alarm", "read">>
    [] prog = "6_10" -> <<"select">>
Main == Caught \o (IF prog \in {"5_22", "5_37"} THEN <<"alarm">> ELSE <<>>)

Init ==
  /\ prog \in Programs
  /\ stack = <<[of |-> "main", todo |-> Main, clean |-> TRUE]>>
  /\ handled = {} /\ pending = {} /\ alarmed = FALSE
  /\ flag = 0 /\ char = "+" /\ strs = 0 /\ chrs = 0 /\ watched = TRUE
  /\ ended = "no" /\ reads = <<>> /\ shown = {} /\ sent = 0 /\ ticks = 0
  /\ calm = TRUE /\ entry = TRUE

Top == stack[Len(stack)]
(* The step the running frame takes next; main() begins its next turn.      *)
Todo == IF Top.todo = <<>> /\ Top.of = "main" THEN Turn ELSE Top.todo
At(step) == ended = "no" /\ Todo # <<>> /\ Head(Todo) = step
Continue(todo) == stack' = [stack EXCEPT ![Len(stack)].todo = todo]
Advance == Continue(Tail(Todo))

(* pause() and select() return when a handler has returned.                 *)
Sleeping(frame) == frame.todo # <<>> /\ Head(frame.todo) \in {"asleep", "selecting"}
Waken(frame) == IF Sleeping(frame) THEN [frame EXCEPT !.todo = Tail(@)] ELSE frame

-----------------------------------------------------------------------------
(* signal(SIG..., ...) in main().                                           *)
Catch ==
  /\ \E s \in {"INT", "QUIT", "ALRM", "USR1"} : At(s) /\ handled' = handled \cup {s}
  /\ Advance
  /\ UNCHANGED <<prog, pending, alarmed, memory, ended, sent, ticks, history>>

Alarm ==
  /\ At("alarm") /\ Advance
  /\ alarmed' = TRUE
  /\ UNCHANGED <<prog, handled, pending, memory, ended, sent, ticks, history>>

Set ==
  /\ At("set") /\ Advance
  /\ flag' = 1
  /\ UNCHANGED <<prog, handled, pending, alarmed, char, strs, chrs, watched, ended,
                 reads, shown, sent, ticks, history>>

Count ==
  /\ At("count") /\ Advance
  /\ strs' = strs + 1
  /\ UNCHANGED <<prog, handled, pending, alarmed, flag, char, chrs, watched, ended,
                 reads, shown, sent, ticks, history>>

(* The first SIGINT sets the flag, one that finds it set ends the program.  *)
Test ==
  /\ At("test") /\ Advance
  /\ flag' = 1
  /\ ended' = IF flag = 1 THEN "exit" ELSE "no"
  /\ UNCHANGED <<prog, handled, pending, alarmed, char, strs, chrs, watched, reads,
                 shown, sent, ticks, history>>

(* The flag is cleared; in main() no handler of SIGINT is active then.      *)
Clear ==
  /\ At("clear") /\ Advance
  /\ flag' = 0
  /\ calm' = IF Top.of = "main" THEN TRUE ELSE calm
  /\ UNCHANGED <<prog, handled, pending, alarmed, char, strs, chrs, watched, ended,
                 reads, shown, sent, ticks, entry>>

Sign ==
  /\ At("minus") \/ At("plus")
  /\ char' = IF At("minus") THEN "-" ELSE "+"
  /\ Advance
  /\ UNCHANGED <<prog, handled, pending, alarmed, flag, strs, chrs, watched, ended,
                 reads, shown, sent, ticks, history>>

Write ==
  /\ At("write") /\ Advance
  /\ UNCHANGED <<prog, handled, pending, alarmed, memory, ended, sent, ticks, history>>

Show ==
  /\ At("show") /\ Advance
  /\ shown' = shown \cup {<<strs, chrs, Len(reads)>>}
  /\ UNCHANGED <<prog, handled, pending, alarmed, flag, char, strs, chrs, watched,
                 ended, reads, sent, ticks, history>>

-----------------------------------------------------------------------------
(* 5_20: the test of sig_caught, and pause() if it is not set.              *)
While ==
  /\ At("while")
  /\ IF flag = 1 THEN ended' = "bye" /\ Advance
     ELSE Continue(<<"pause", "while">>) /\ UNCHANGED ended
  /\ UNCHANGED <<prog, handled, pending, alarmed, memory, sent, ticks, history>>

Pause ==
  /\ At("pause") /\ Continue(<<"asleep">> \o Tail(Todo))
  /\ UNCHANGED <<prog, handled, pending, alarmed, memory, ended, sent, ticks, history>>

MutIf ==
  /\ At("if") /\ Continue(IF flag = 1 THEN <<"show">> ELSE <<>>)
  /\ UNCHANGED <<prog, handled, pending, alarmed, memory, ended, sent, ticks, history>>

(* 5_21: the count is printed if it was asked for, then the flag cleared.   *)
If ==
  /\ At("if") /\ Continue(IF flag = 1 THEN <<"show", "clear">> ELSE <<>>)
  /\ UNCHANGED <<prog, handled, pending, alarmed, memory, ended, sent, ticks, history>>

(* 5_23: read() of one character, a line's end (0) or another (1); at the   *)
(* end of the input the loop ends.  6_10 ends when select() or read()       *)
(* fails.                                                                   *)
Read ==
  /\ At("read") /\ Len(reads) < MaxReads
  /\ \E c \in {0, 1} : reads' = Append(reads, c)
  /\ Continue(<<"clear", IF reads'[Len(reads')] = 0 THEN "strs" ELSE "chrs">>)
  /\ UNCHANGED <<prog, handled, pending, alarmed, flag, char, strs, chrs, watched,
                 ended, shown, sent, ticks, history>>
ReadEnd ==
  /\ At("read") \/ At("selecting")
  /\ ended' = "eof" /\ Advance
  /\ UNCHANGED <<prog, handled, pending, alarmed, memory, sent, ticks, history>>

(* 6_10: select() begins to wait, and finds a line, or the end of the       *)
(* input, which it takes for a line, if standard input is watched.  A line  *)
(* is shorter than the buffer: the '\0' behind one that fills it, and that  *)
(* of a read() that fails, is stored outside of it.                         *)
Select ==
  /\ At("select") /\ Continue(<<"selecting">>)
  /\ UNCHANGED <<prog, handled, pending, alarmed, memory, ended, sent, ticks, history>>
MutSelectInput ==
  /\ At("selecting") /\ watched /\ Len(reads) < MaxReads
  /\ \E n \in LineLengths \cup {0} : reads' = Append(reads, n)
  /\ Continue(<<"clear", "chrs", "strs">>)
  /\ UNCHANGED <<prog, handled, pending, alarmed, flag, char, strs, chrs, watched,
                 ended, shown, sent, ticks, history>>
SelectInput ==
  /\ At("selecting") /\ watched /\ Len(reads) < MaxReads
  /\ \E n \in LineLengths \cup {0} : reads' = Append(reads, n)
  /\ Continue(<<"clear", "strs", "chrs">>)
  /\ UNCHANGED <<prog, handled, pending, alarmed, flag, char, strs, chrs, watched,
                 ended, shown, sent, ticks, history>>

(* The time runs out: readfds is empty, and nobody fills it again.          *)
SelectTimeout ==
  /\ At("selecting") /\ ticks < MaxTicks /\ ticks' = ticks + 1
  /\ watched' = FALSE
  /\ Continue(<<"clear", "write">>)
  /\ UNCHANGED <<prog, handled, pending, alarmed, flag, char, strs, chrs, ended,
                 reads, shown, sent, history>>

(* 5_23 counts one of the two; in 6_10 first the line, then its characters. *)
CountLine ==
  /\ At("strs") /\ Advance
  /\ strs' = strs + 1
  /\ UNCHANGED <<prog, handled, pending, alarmed, flag, char, chrs, watched, ended,
                 reads, shown, sent, ticks, history>>
CountChars ==
  /\ At("chrs") /\ Advance
  /\ chrs' = chrs + reads[Len(reads)]
  /\ UNCHANGED <<prog, handled, pending, alarmed, flag, char, strs, watched, ended,
                 reads, shown, sent, ticks, history>>

-----------------------------------------------------------------------------
(* The user and the clock.                                                  *)
Send(s) ==
  /\ ended = "no" /\ sent < MaxSignals /\ sent' = sent + 1
  /\ pending' = pending \cup {s}
  /\ UNCHANGED <<prog, stack, handled, alarmed, memory, ended, ticks, history>>
Tick ==
  /\ ended = "no" /\ alarmed /\ ticks < MaxTicks /\ ticks' = ticks + 1
  /\ alarmed' = FALSE /\ pending' = pending \cup {"ALRM"}
  /\ UNCHANGED <<prog, stack, handled, memory, ended, sent, history>>

(* A signal interrupts whatever runs, unless its own handler is active; one *)
(* that is not caught kills.                                                *)
Active(s) == \E i \in DOMAIN stack : stack[i].of = s
Below(s) == [i \in DOMAIN stack |-> IF s = "INT" THEN [stack[i] EXCEPT !.clean = FALSE]
                                    ELSE stack[i]]
Deliver(s) ==
  /\ ended = "no" /\ s \in pending /\ ~Active(s)
  /\ pending' = pending \ {s}
  /\ IF s \in handled
     THEN /\ stack' = Append(Below(s), [of |-> s, todo |-> Handler(s), clean |-> TRUE])
          /\ entry' = IF s = "INT" THEN calm ELSE entry
          /\ calm' = IF s = "INT" THEN FALSE ELSE calm
          /\ UNCHANGED ended
     ELSE ended' = "killed" /\ UNCHANGED <<stack, history>>
  /\ UNCHANGED <<prog, handled, alarmed, memory, sent, ticks>>

Return ==
  /\ ended = "no" /\ Top.of # "main" /\ Top.todo = <<>>
  /\ stack' = [Front(stack) EXCEPT ![Len(stack) - 1] = Waken(@)]
  /\ calm' = IF Top.of = "INT" THEN FALSE ELSE calm \/ Top.clean
  /\ UNCHANGED <<prog, handled, pending, alarmed, memory, ended, sent, ticks, entry>>

-----------------------------------------------------------------------------
Signs == {"INT", "QUIT", "ALRM", "USR1"}
Sendable ==
  CASE prog = "5_21" -> {"INT", "USR1"}
    [] prog = "5_22" -> {"INT", "QUIT"}
    [] prog = "5_37" -> {"USR1"}
    [] OTHER -> {"INT"}

(* What the process does by itself, the arrival of its signals included.    *)
Run ==
  \/ Catch \/ Alarm \/ Set \/ Count \/ Test \/ Clear \/ Sign \/ Write \/ Show
  \/ While \/ Pause \/ If \/ Select \/ CountLine \/ CountChars \/ Return
  \/ \E s \in Signs : Deliver(s)
Input == Read \/ ReadEnd \/ SelectInput \/ SelectTimeout

Next == Run \/ Input \/ Tick \/ \E s \in Sendable : Send(s)

(* The process is scheduled; nobody has to type anything.                   *)
Spec == Init /\ [][Next]_vars /\ WF_vars(Run)

-----------------------------------------------------------------------------
(* 5_22, 5_23 and 5_37 never fall silent: after the start an alarm always   *)
(* is set, has just gone off, or is about to be set by a frame that was     *)
(* interrupted, however the handlers interrupt each other and main().       *)
Starting == \E i \in DOMAIN stack[1].todo : stack[1].todo[i] \in Signs
WillSetAlarm(frame) ==
  \/ \E i \in DOMAIN frame.todo : frame.todo[i] = "alarm"
  \/ prog = "5_23" /\ frame.of = "main" /\ frame.todo \notin {<<"read">>}
NeverSilent ==
  prog \in {"5_22", "5_23", "5_37"} /\ ended = "no" /\ ~Starting =>
    alarmed \/ "ALRM" \in pending \/ \E i \in DOMAIN stack : WillSetAlarm(stack[i])

(* Ctrl-C ends 5_22, 5_23 and 6_10 only when it comes twice: not when, since *)
(* the handler of the previous one ended, a character was read, the time    *)
(* ran out or a SIGQUIT was handled from beginning to end.                  *)
ExitNeedsTwo == ended = "exit" => ~entry

(* The lines and characters that a handler shows are those of everything    *)
(* read so far, or miss what main() was counting when it was interrupted;   *)
(* in 6_10 that may be a line whose characters are missing.                 *)
LinesIn(k) == IF prog = "6_10" THEN k ELSE Cardinality({i \in 1 .. k : reads[i] = 0})
TotalLength(s) == FoldLeft(LAMBDA x, y : x + y, 0, s)
CharsIn(k) == TotalLength(SubSeq(reads, 1, k))
ShownCountsAreTrue ==
  prog \in {"5_23", "6_10"} =>
    \A c \in shown :
      LET k == c[3]
          before == IF k = 0 THEN 0 ELSE k - 1
      IN  /\ <<c[1], c[2]>> \in {LinesIn(before), LinesIn(k)} \X {CharsIn(before), CharsIn(k)}
          /\ c[1] < LinesIn(k) => c[2] = CharsIn(before)

(* A SIGINT (5_20) or SIGUSR1 (5_21) that finds the program asleep is not   *)
(* lost: the program ends, or shows the count and clears the flag.          *)
Woken == Len(stack) > 1 /\ stack[1].todo # <<>> /\ Head(stack[1].todo) = "asleep"
SleeperIsWoken ==
  (prog \in {"5_20", "5_21"} /\ Woken /\ flag = 1) ~> (ended # "no" \/ flag = 0)

(* "Press Ctrl-C to quit", says 5_20: a SIGINT that has come ends it.       *)
QuitsOnCtrlC ==
  (prog = "5_20" /\ "INT" \in pending /\ "INT" \in handled) ~> (ended # "no")
=============================================================================
