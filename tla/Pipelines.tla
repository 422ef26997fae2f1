----------------------------- MODULE Pipelines -----------------------------
(***************************************************************************)
(* The programs of c/os that start other programs (5_12, 5_13, 5_14, 5_18) *)
(* and join them with pipes (5_25 to 5_30), over the kernel they call.     *)
(*                                                                         *)
(* A process has a script, the calls its main() makes, and a place in it;  *)
(* main() forks at most the processes 2 and 3.  Descriptors are named by   *)
(* the variables that hold them: r1 and w1 are fd[0] and fd[1] of the      *)
(* first pipe, r2 and w2 those of the second.  No program opens anything   *)
(* after it has closed something, so that no number is used twice.  Data   *)
(* move in blocks, what one write() takes.                                 *)
(***************************************************************************)
EXTENDS Integers, Sequences, FiniteSets

CONSTANTS
  Jobs,        (* what may be run: records of JobAssumption                *)
  PipeSize,    (* how many blocks a pipe holds                             *)
  InBlocks,    (* how many blocks the standard input has                   *)
  Numbers      (* how many blocks the numbers of 5_27 and 5_29 take        *)

Programs == {"5_12", "5_13", "5_14", "5_18A", "5_18B", "5_18C", "5_18D",
             "5_25", "5_26", "5_27", "5_28", "5_29", "5_30"}

(* What a word of the command line may start: a copier, a command that ends *)
(* at once or one that is killed; execvp() does not find "none".            *)
Images == {"cat", "true", "abort"}
Commands == Images \cup {"none"}
Separator == ";;"

(* A program, its words, whether its standard output is a terminal, whether *)
(* the file 5_18 is given exists, and the child that fork() cannot make: 2  *)
(* or, where there are two, 3; 0 when no fork() fails.                      *)
ASSUME JobAssumption ==
  /\ Jobs \subseteq [prog : Programs, args : Seq(Commands \cup {Separator}),
                     tty : BOOLEAN, there : BOOLEAN, fails : {0, 2, 3}]
  /\ \A j \in Jobs : j.fails = 3 => j.prog \in {"5_13", "5_26", "5_29", "5_30"}
ASSUME SizeAssumption ==
  PipeSize \in Nat \ {0} /\ InBlocks \in Nat /\ Numbers \in Nat \ {0}

Procs == 1 .. 3
Slots == {"stdin", "stdout", "r1", "w1", "r2", "w2", "save"}
Objects == {"closed", "in", "out", "read", "over", "append", "r1", "w1", "r2", "w2"}
Signals == {"PIPE", "SEGV", "ABRT"}
NoStatus == "none"

VARIABLES
  job,         (* what was started                                         *)
  image,       (* the command a process runs since execvp(), or "main"     *)
  step,        (* the call of its script a process is at                   *)
  written,     (* how many blocks of a call to write many it has written   *)
  life,        (* "none", "run", "zombie" or "gone", that is, waited for   *)
  status,      (* how a process ended: exit code, signal, none             *)
  fds,         (* what each descriptor of a process stands for             *)
  deaf,        (* the processes that ignore SIGPIPE                        *)
  hold,        (* the processes with a block read and not yet written      *)
  failed,      (* write_result < 0                                         *)
  taken,       (* the blocks a program kept: counted, or left out          *)
  buffer,      (* the lines in each process's stdout stream                *)
  pipe,        (* how many blocks are in each pipe                         *)
  input,       (* how many blocks are left of the standard input           *)
  out,         (* what was written to the standard output of the program   *)
  file,        (* what the file holds: "old" blocks and new ones           *)
  at           (* how far the file was read or written                     *)

vars == <<job, image, step, written, life, status, fds, deaf, hold, failed, taken, buffer,
          pipe, input, out, file, at>>
control == <<image, step, written>>

-----------------------------------------------------------------------------
(* The words of the command line: fill_prog_info() skips one separator and  *)
(* takes the words up to the next; it must not be called at the end of the  *)
(* words, where strcmp() reads through NULL.                                *)
FirstSep(ws) ==
  LET seps == {i \in DOMAIN ws : ws[i] = Separator}
  IN  IF seps = {} THEN Len(ws) + 1 ELSE CHOOSE i \in seps : \A j \in seps : i <= j
SkipSep(ws) == IF Head(ws) = Separator THEN Tail(ws) ELSE ws
Taken(ws) == SubSeq(SkipSep(ws), 1, FirstSep(SkipSep(ws)) - 1)
Rest(ws) == SubSeq(SkipSep(ws), FirstSep(SkipSep(ws)), Len(SkipSep(ws)))

(* execvp() that is given no words at all is given NULL, and fails.         *)
Command(ws) == IF ws = <<>> THEN "none" ELSE Head(ws)

(* get_command(): 5_13's commands are the stretches between separators.     *)
Commands13(ws) ==
  LET starts == {i \in DOMAIN ws : ws[i] # Separator /\ (i = 1 \/ ws[i - 1] = Separator)}
      nth[k \in 1 .. Cardinality(starts)] ==
        CHOOSE i \in starts : Cardinality({j \in starts : j <= i}) = k
  IN  [k \in 1 .. Cardinality(starts) |-> ws[nth[k]]]

ASSUME CommandsAssumption ==
  \A j \in Jobs : j.prog = "5_13" => Len(Commands13(j.args)) <= 2

-----------------------------------------------------------------------------
(* The calls a script is made of.                                           *)
Close(s) == <<"close", s>>
Dup2(s, t) == <<"dup2", s, t>>
MakePipe(k) == <<"pipe", k>>
Fork(p) == <<"fork", p>>
Exec(c) == <<"exec", c>>
Put(line) == <<"put", line>>                  (* printf()                   *)
Copy(s, t) == <<"copy", s, t>>                (* read() and write() to EOF  *)
Filter(s, t) == <<"filter", s, t>>            (* the same, some of it       *)
Count(s) == <<"count", s>>                    (* analyze_input()            *)
Write(s, n) == <<"write", s, n>>
Exit(c) == <<"exit", c>>                      (* exit(): flushes stdout     *)
ExitNow(c) == <<"_exit", c>>
IgnorePipe == <<"ignore">>
PutFailure == <<"putfailure">>
Wait == <<"wait">>
WaitAll == <<"waitall">>
Die(signal) == <<"die", signal>>
Open(s, mode) == <<"open", s, mode>>

(* A child that runs a command calls execvp(), and after it, which happens  *)
(* only when the command is not found, perror() and exit(1) or _exit(1).    *)

(* 5_25: the child writes two lines into the pipe, the parent copies them.  *)
Parent25 == <<MakePipe(1), Put("header"), Fork(2), Close("w1"),
              Copy("r1", "stdout"), Close("r1"), Wait, Exit("0")>>
Child25 == <<Close("r1"), Write("w1", 1), Close("w1"), Exit("0")>>

(* 5_26: the two commands, the first one's output the second one's input.   *)
Parent26 ==
  IF Rest(job.args) = <<>> THEN <<Die("SEGV")>>
  ELSE <<MakePipe(1), Fork(2), Fork(3), Close("r1"), Close("w1"), WaitAll, Exit("0")>>
MutChild26(p) ==
  IF p = 2
  THEN <<Close("r1"), Close("w1"), Exec(Command(Taken(job.args))), Exit("1")>>
  ELSE <<Dup2("r1", "stdin"), Close("r1"), Close("w1"),
         Exec(Command(Taken(Rest(job.args)))), Exit("1")>>
Child26(p) ==
  IF p = 2
  THEN <<Dup2("w1", "stdout"), Close("r1"), Close("w1"),
         Exec(Command(Taken(job.args))), Exit("1")>>
  ELSE <<Dup2("r1", "stdin"), Close("r1"), Close("w1"),
         Exec(Command(Taken(Rest(job.args)))), Exit("1")>>

(* 5_27: the numbers go to the command's input.  fclose() has closed the    *)
(* descriptor when close() is called.                                       *)
Parent27 ==
  <<MakePipe(1), Fork(2), Close("r1"), IgnorePipe, Write("w1", Numbers), Close("w1"),
    PutFailure, Close("w1"), Wait, Exit("0")>>
Child27 ==
  <<Dup2("r1", "stdin"), Close("r1"), Close("w1"), Exec(job.args[1]), Exit("1")>>

(* 5_28: the command's output goes through update_info().                   *)
Parent28 == <<MakePipe(1), Fork(2), Close("w1"), Filter("r1", "stdout"),
              Close("r1"), Close("r1"), Wait, Exit("0")>>
Child28 ==
  <<Dup2("w1", "stdout"), Close("w1"), Close("r1"), Exec(job.args[1]), ExitNow("1")>>

(* 5_29: the numbers go through the command to a child that counts.         *)
Parent29 ==
  <<MakePipe(1), MakePipe(2), Fork(2), Fork(3), Close("r1"), Close("r2"),
    Close("w2"), IgnorePipe, Write("w1", Numbers), Close("w1"),
    PutFailure, Close("w1"), WaitAll, Exit("0")>>
KeptChild29 ==
  <<Close("r1"), Dup2("r2", "stdin"), Close("r2"), Close("w2"),
    Count("stdin"), Put("count"), ExitNow("0")>>
FlushedChild29 ==
  <<Close("r1"), Close("w1"), Dup2("r2", "stdin"), Close("r2"), Close("w2"),
    Count("stdin"), Put("count"), Exit("0")>>
First29 ==
  <<Dup2("r1", "stdin"), Close("r1"), Close("w1"), Dup2("w2", "stdout"),
    Close("r2"), Close("w2"), Exec(job.args[1]), ExitNow("1")>>
MutEndsChild29(p) == IF p = 2 THEN First29 ELSE KeptChild29
MutLinesChild29(p) == IF p = 2 THEN First29 ELSE FlushedChild29
Child29(p) ==
  IF p = 2 THEN First29
  ELSE <<Close("r1"), Close("w1"), Dup2("r2", "stdin"), Close("r2"), Close("w2"),
         Count("stdin"), Put("count"), ExitNow("0")>>

(* 5_30: filter_io() stands between the two commands.                       *)
Parent30 ==
  IF Rest(job.args) = <<>> THEN <<Die("SEGV")>>
  ELSE <<MakePipe(1), MakePipe(2), Fork(2), Fork(3), Close("w1"), Close("r2"),
         Filter("r1", "w2"), Close("r1"), Close("w2"), Close("r1"), Close("w2"),
         WaitAll, Exit("0")>>
Child30(p) ==
  IF p = 2
  THEN <<Close("r2"), Close("w2"), Close("r1"), Dup2("w1", "stdout"), Close("w1"),
         Exec(Command(Taken(job.args))), ExitNow("1")>>
  ELSE <<Close("r1"), Close("w1"), Close("w2"), Dup2("r2", "stdin"), Close("r2"),
         Exec(Command(Taken(Rest(job.args)))), ExitNow("1")>>

Parent12 == <<Fork(2), Wait, Exit("0")>>
Parent13 ==
  LET n == Len(Commands13(job.args))
  IN  [k \in 1 .. n + 2 |->
         IF k <= n THEN Fork(k + 1) ELSE IF k = n + 1 THEN WaitAll ELSE Exit("0")]
Child13(p) == <<Exec(Commands13(job.args)[p - 1]), Exit("1")>>
Parent14 == <<Fork(2), WaitAll, Exit("0")>>
Child14 == <<Put("child"), Exit("0")>>

(* 5_18: the file takes the place of stdout (of stdin in B) for the child.  *)
(* It does not look whether fork() failed; wait() then finds no child and   *)
(* nothing is printed.                                                      *)
Parent18(slot, mode, creates) ==
  IF ~creates /\ ~job.there THEN <<Exit("2")>>
  ELSE IF job.fails = 2
       THEN <<Dup2(slot, "save"), Open(slot, mode), Dup2("save", slot), Close("save"), Exit("0")>>
       ELSE <<Dup2(slot, "save"), Open(slot, mode), Fork(2), Dup2("save", slot),
              Close("save"), Wait, Exit("0")>>

FullScript ==
  CASE job.prog = "5_12" -> Parent12
    [] job.prog = "5_13" -> Parent13
    [] job.prog = "5_14" -> Parent14
    [] job.prog = "5_18A" -> Parent18("stdout", "over", TRUE)
    [] job.prog = "5_18B" -> Parent18("stdin", "read", FALSE)
    [] job.prog = "5_18C" -> Parent18("stdout", "append", TRUE)
    [] job.prog = "5_18D" -> Parent18("stdout", "append", FALSE)
    [] job.prog = "5_25" -> Parent25
    [] job.prog = "5_26" -> Parent26
    [] job.prog = "5_27" -> Parent27
    [] job.prog = "5_28" -> Parent28
    [] job.prog = "5_29" -> Parent29
    [] job.prog = "5_30" -> Parent30

(* The others leave main() when a fork() fails, without a wait() for the    *)
(* child they may have.                                                     *)
GiveUp ==
  CASE job.prog \in {"5_12", "5_27"} -> Exit("2")
    [] job.prog = "5_28" -> Exit("3")
    [] job.prog \in {"5_29", "5_30"} -> Exit(IF job.fails = 2 THEN "2" ELSE "3")
    [] OTHER -> Exit("1")
ParentScript ==
  LET failing == {k \in DOMAIN FullScript : FullScript[k] = Fork(job.fails)}
      last == CHOOSE k \in failing : TRUE
  IN  IF job.fails = 0 \/ failing = {} THEN FullScript
      ELSE [k \in 1 .. last |-> IF k = last THEN GiveUp ELSE FullScript[k]]

ChildScript(p) ==
  CASE job.prog = "5_13" -> Child13(p)
    [] job.prog = "5_14" -> Child14
    [] job.prog = "5_25" -> Child25
    [] job.prog = "5_26" -> Child26(p)
    [] job.prog = "5_27" -> Child27
    [] job.prog = "5_28" -> Child28
    [] job.prog = "5_29" -> Child29(p)
    [] job.prog = "5_30" -> Child30(p)
    [] OTHER -> <<Exec(job.args[1]), Exit("1")>>

-----------------------------------------------------------------------------
(* What a command does once it runs.                                        *)
CommandScript(c) ==
  CASE c = "cat" -> <<Copy("stdin", "stdout"), ExitNow("0")>>
    [] c = "true" -> <<ExitNow("0")>>
    [] c = "abort" -> <<Die("ABRT")>>

Script(p) ==
  IF image[p] # "main" THEN CommandScript(image[p])
  ELSE IF p = 1 THEN ParentScript ELSE ChildScript(p)

Line(text) == [line |-> text, of |-> 0, st |-> NoStatus]
Report(text, p, st) == [line |-> text, of |-> p, st |-> st]

(* What the parent prints of a child it has waited for.                     *)
MutExited(st) == st # NoStatus
Exited(st) == st \notin Signals
Reports(p, st) ==
  CASE job.prog \in {"5_12", "5_27", "5_28", "5_29"} ->
         <<Report(IF Exited(st) THEN "exited" ELSE "killed", p, st)>>
    [] job.prog = "5_13" -> IF Exited(st) THEN <<Report("done", p, NoStatus)>> ELSE <<>>
    [] job.prog \in {"5_14", "5_18A", "5_18B", "5_18C", "5_18D"} ->
         <<Report("done", p, NoStatus)>>
    [] OTHER -> <<>>

Init ==
  /\ job \in Jobs
  /\ image = [p \in Procs |-> "main"] /\ step = [p \in Procs |-> 1] /\ written = 0
  /\ life = [p \in Procs |-> IF p = 1 THEN "run" ELSE "none"]
  /\ status = [p \in Procs |-> NoStatus]
  /\ fds = [p \in Procs |-> [s \in Slots |->
              IF p # 1 THEN "closed"
              ELSE CASE s = "stdin" -> "in" [] s = "stdout" -> "out" [] OTHER -> "closed"]]
  /\ deaf = {} /\ hold = {} /\ failed = FALSE /\ taken = 0
  /\ buffer = [p \in Procs |-> <<>>]
  /\ pipe = [k \in {"1", "2"} |-> 0]
  /\ input = InBlocks /\ out = <<>> /\ at = 0
  /\ file = IF job.there THEN <<"old", "old">> ELSE <<>>

(* The kernel.  A pipe can be read while an end to write into it is open    *)
(* somewhere, and written while an end to read from it is.                  *)
IsOpen(o) == \E p \in Procs : \E s \in Slots : fds[p][s] = o
PipeOf(o) == IF o \in {"r1", "w1"} THEN "1" ELSE "2"
ReadEnd(o) == IF o \in {"r1", "w1"} THEN "r1" ELSE "r2"
WriteEnd(o) == IF o \in {"r1", "w1"} THEN "w1" ELSE "w2"
IsPipe(o) == o \in {"r1", "w1", "r2", "w2"}

Call(p) == Script(p)[step[p]]
Calls(p, name) == life[p] = "run" /\ Call(p)[1] = name
Arg(p) == Call(p)[2]
Goes(p) == step' = [step EXCEPT ![p] = @ + 1] /\ UNCHANGED <<image, written>>

DoClose(p) ==
  /\ Calls(p, "close") /\ Goes(p)
  /\ fds' = [fds EXCEPT ![p][Arg(p)] = "closed"]
  /\ UNCHANGED <<job, life, status, deaf, hold, failed, taken, buffer, pipe, input,
                 out, file, at>>

DoDup2(p) ==
  /\ Calls(p, "dup2") /\ Goes(p)
  /\ fds' = [fds EXCEPT ![p][Call(p)[3]] = fds[p][Arg(p)]]
  /\ UNCHANGED <<job, life, status, deaf, hold, failed, taken, buffer, pipe, input,
                 out, file, at>>

DoPipe(p) ==
  /\ Calls(p, "pipe") /\ Goes(p)
  /\ fds' = [fds EXCEPT ![p] =
       IF Arg(p) = 1 THEN [@ EXCEPT !["r1"] = "r1", !["w1"] = "w1"]
                     ELSE [@ EXCEPT !["r2"] = "r2", !["w2"] = "w2"]]
  /\ UNCHANGED <<job, life, status, deaf, hold, failed, taken, buffer, pipe, input,
                 out, file, at>>

DoOpen(p) ==
  /\ Calls(p, "open") /\ Goes(p)
  /\ fds' = [fds EXCEPT ![p][Arg(p)] = Call(p)[3]]
  /\ at' = IF Call(p)[3] = "append" THEN Len(file) ELSE 0
  /\ UNCHANGED <<job, life, status, deaf, hold, failed, taken, buffer, pipe, input,
                 out, file>>

(* The child gets a copy of everything, the unwritten lines included.       *)
DoFork(p) ==
  /\ Calls(p, "fork")
  /\ LET q == Arg(p) IN
       /\ Goes(p)
       /\ life' = [life EXCEPT ![q] = "run"]
       /\ fds' = [fds EXCEPT ![q] = fds[p]]
       /\ buffer' = [buffer EXCEPT ![q] = buffer[p]]
  /\ UNCHANGED <<job, status, deaf, hold, failed, taken, pipe, input, out, file, at>>

(* perror() and the exit follow an execvp() that returns.                   *)
DoExec(p) ==
  /\ Calls(p, "exec")
  /\ IF Arg(p) \notin Images THEN Goes(p) /\ UNCHANGED buffer
     ELSE /\ image' = [image EXCEPT ![p] = Arg(p)] /\ step' = [step EXCEPT ![p] = 1]
          /\ UNCHANGED written
          /\ buffer' = [buffer EXCEPT ![p] = <<>>]
  /\ UNCHANGED <<job, life, status, fds, deaf, hold, failed, taken, pipe, input,
                 out, file, at>>

DoIgnore(p) ==
  /\ Calls(p, "ignore") /\ Goes(p)
  /\ deaf' = deaf \cup {p}
  /\ UNCHANGED <<job, life, status, fds, hold, failed, taken, buffer, pipe, input,
                 out, file, at>>

(* printf(): at once to a terminal, into the stream's buffer otherwise.     *)
Prints(p, lines) ==
  IF job.tty THEN out' = out \o lines /\ UNCHANGED buffer
  ELSE buffer' = [buffer EXCEPT ![p] = @ \o lines] /\ UNCHANGED out

DoPut(p) ==
  /\ Calls(p, "put") /\ Goes(p)
  /\ Prints(p, <<IF Arg(p) = "count" THEN Report("count", taken, NoStatus) ELSE Line(Arg(p))>>)
  /\ UNCHANGED <<job, life, status, fds, deaf, hold, failed, taken, pipe, input,
                 file, at>>

DoPutFailure(p) ==
  /\ Calls(p, "putfailure") /\ Goes(p)
  /\ IF failed THEN Prints(p, <<Line("failure")>>) ELSE UNCHANGED <<buffer, out>>
  /\ UNCHANGED <<job, life, status, fds, deaf, hold, failed, taken, pipe, input,
                 file, at>>

(* A process ends: its descriptors are closed.                              *)
Ends(p, st) ==
  /\ UNCHANGED control
  /\ life' = [life EXCEPT ![p] = "zombie"]
  /\ status' = [status EXCEPT ![p] = st]
  /\ fds' = [fds EXCEPT ![p] = [s \in Slots |-> "closed"]]
  /\ hold' = hold \ {p}

DoExit(p) ==
  /\ Calls(p, "exit") \/ Calls(p, "_exit")
  /\ Ends(p, Arg(p))
  /\ out' = IF Calls(p, "exit") THEN out \o buffer[p] ELSE out
  /\ buffer' = [buffer EXCEPT ![p] = <<>>]
  /\ UNCHANGED <<job, deaf, failed, taken, pipe, input, file, at>>

DoDie(p) ==
  /\ Calls(p, "die")
  /\ Ends(p, Arg(p))
  /\ buffer' = [buffer EXCEPT ![p] = <<>>]
  /\ UNCHANGED <<job, deaf, failed, taken, pipe, input, out, file, at>>

Children == {q \in Procs \ {1} : life[q] \in {"run", "zombie"}}

(* wait(): once, or until no child is left.                                 *)
DoWait(p) ==
  /\ Calls(p, "wait") \/ Calls(p, "waitall")
  /\ \E q \in Children :
       /\ life[q] = "zombie"
       /\ life' = [life EXCEPT ![q] = "gone"]
       /\ Prints(p, Reports(q, status[q]))
  /\ IF Calls(p, "wait") THEN Goes(p) ELSE UNCHANGED control
  /\ UNCHANGED <<job, status, fds, deaf, hold, failed, taken, pipe, input, file, at>>

NoChildLeft(p) ==
  /\ Calls(p, "waitall") /\ Children = {} /\ Goes(p)
  /\ UNCHANGED <<job, life, status, fds, deaf, hold, failed, taken, buffer, pipe,
                 input, out, file, at>>

-----------------------------------------------------------------------------
(* read() of the object o finds a block, or the end.                        *)
Reading(p) == Calls(p, "copy") \/ Calls(p, "filter") \/ Calls(p, "count")
HasBlock(o) ==
  \/ o = "in" /\ input > 0
  \/ o = "read" /\ at < Len(file)
  \/ IsPipe(o) /\ pipe[PipeOf(o)] > 0
AtEnd(o) == ~HasBlock(o) /\ (IsPipe(o) => ~IsOpen(WriteEnd(o)))

TakesBlock(o) ==
  /\ input' = IF o = "in" THEN input - 1 ELSE input
  /\ at' = IF o = "read" THEN at + 1 ELSE at
  /\ pipe' = IF IsPipe(o) THEN [pipe EXCEPT ![PipeOf(o)] = @ - 1] ELSE pipe

(* A filter passes a block on or leaves it out: which one is the matter of  *)
(* the module Streams.                                                      *)
DoRead(p) ==
  /\ Reading(p) /\ p \notin hold
  /\ HasBlock(fds[p][Arg(p)]) /\ TakesBlock(fds[p][Arg(p)])
  /\ \/ ~Calls(p, "count") /\ hold' = hold \cup {p} /\ UNCHANGED taken
     \/ ~Calls(p, "copy") /\ taken' = taken + 1 /\ UNCHANGED hold
  /\ UNCHANGED <<job, control, life, status, fds, deaf, failed, buffer, out, file>>

DoReadEnd(p) ==
  /\ Reading(p) /\ p \notin hold
  /\ AtEnd(fds[p][Arg(p)]) /\ Goes(p)
  /\ UNCHANGED <<job, life, status, fds, deaf, hold, failed, taken, buffer, pipe,
                 input, out, file, at>>

(* write(): what comes next to do, and where the block goes.                *)
Target(p) == fds[p][IF Calls(p, "write") THEN Arg(p) ELSE Call(p)[3]]
Writing(p) == Calls(p, "write") \/ p \in hold
WritesLeft(p) == Call(p)[3] - written
GoesOn(p) == step' = [step EXCEPT ![p] = @ + 1] /\ written' = 0 /\ UNCHANGED image

Written(p) ==
  /\ hold' = hold \ {p}
  /\ IF ~Calls(p, "write") THEN UNCHANGED control
     ELSE IF WritesLeft(p) = 1 THEN GoesOn(p)
     ELSE written' = written + 1 /\ UNCHANGED <<image, step>>

DoWrite(p) ==
  /\ Writing(p) /\ Target(p) \in {"out", "over", "append"} /\ Written(p)
  /\ IF Target(p) = "out"
     THEN out' = Append(out, Report("block", p, NoStatus)) /\ UNCHANGED <<file, at>>
     ELSE /\ at' = at + 1
          /\ file' = IF at < Len(file) THEN [file EXCEPT ![at + 1] = "new"]
                     ELSE Append(file, "new")
          /\ UNCHANGED out
  /\ UNCHANGED <<job, life, status, fds, deaf, failed, taken, buffer, pipe, input>>

DoWritePipe(p) ==
  /\ Writing(p) /\ IsPipe(Target(p)) /\ IsOpen(ReadEnd(Target(p)))
  /\ pipe[PipeOf(Target(p))] < PipeSize
  /\ pipe' = [pipe EXCEPT ![PipeOf(Target(p))] = @ + 1]
  /\ Written(p)
  /\ UNCHANGED <<job, life, status, fds, deaf, failed, taken, buffer, input, out,
                 file, at>>

(* Nobody can read it: the signal kills, unless it is ignored; then the     *)
(* block is not written.  What fprintf() cannot write ends the loop and is  *)
(* its result; the last block is written by fclose(), whose result is lost. *)
DoBrokenPipe(p) ==
  /\ Writing(p) /\ IsPipe(Target(p)) /\ ~IsOpen(ReadEnd(Target(p)))
  /\ IF p \in deaf
     THEN /\ failed' = (WritesLeft(p) > 1)
          /\ GoesOn(p) /\ UNCHANGED <<life, status, fds, hold, buffer>>
     ELSE /\ Ends(p, "PIPE") /\ UNCHANGED failed
          /\ buffer' = [buffer EXCEPT ![p] = <<>>]
  /\ UNCHANGED <<job, deaf, taken, pipe, input, out, file, at>>

Step(p) ==
  \/ DoClose(p) \/ DoDup2(p) \/ DoPipe(p) \/ DoOpen(p) \/ DoFork(p) \/ DoExec(p)
  \/ DoIgnore(p) \/ DoPut(p) \/ DoPutFailure(p) \/ DoExit(p) \/ DoDie(p)
  \/ DoWait(p) \/ NoChildLeft(p) \/ DoRead(p) \/ DoReadEnd(p)
  \/ DoWrite(p) \/ DoWritePipe(p) \/ DoBrokenPipe(p)

Next == \E p \in Procs : Step(p)

(* The kernel runs every process that can go on.                            *)
Spec == Init /\ [][Next]_vars /\ \A p \in Procs : WF_vars(Step(p))

-----------------------------------------------------------------------------
Finished == \A p \in Procs : life[p] # "run"
OutLines(text) == Cardinality({i \in DOMAIN out : out[i].line = text})

(* When every fork() succeeds and every command copies its input to its     *)
(* output, every block that was sent into the pipeline is on the terminal,  *)
(* where only the last stage writes, in the file, or was counted or left    *)
(* out by the program; nothing stays in a pipe and nobody fails or is       *)
(* killed: the descriptors each process closes, and those it does not,      *)
(* neither cut a transfer short nor lead it past a stage.                   *)
AllCopy ==
  /\ job.fails = 0
  /\ CASE job.prog \in {"5_26", "5_30"} ->
            job.args \in {<<"cat", Separator, "cat">>, <<Separator, "cat", Separator, "cat">>}
       [] job.prog = "5_13" ->
            /\ \A i \in DOMAIN job.args : job.args[i] \in {"cat", Separator}
            /\ Commands13(job.args) # <<>>
       [] job.prog \in {"5_14", "5_25"} -> TRUE
       [] OTHER -> job.args = <<"cat">>
  /\ job.prog \in {"5_18B", "5_18D"} => job.there
Sent ==
  CASE job.prog = "5_14" -> 0
    [] job.prog = "5_25" -> 1
    [] job.prog = "5_18B" -> 2
    [] job.prog \in {"5_27", "5_29"} -> Numbers
    [] OTHER -> InBlocks
Arrived ==
  OutLines("block") + Cardinality({i \in DOMAIN file : file[i] = "new"}) + taken
LastStage ==
  CASE job.prog \in {"5_25", "5_28"} -> {1}
    [] job.prog \in {"5_26", "5_30"} -> {3}
    [] job.prog \in {"5_18A", "5_18C", "5_18D", "5_29"} -> {}
    [] OTHER -> {2, 3}
BlocksArrive ==
  Finished /\ AllCopy =>
    /\ Arrived = Sent
    /\ \A i \in DOMAIN out : out[i].line = "block" => out[i].of \in LastStage
    /\ pipe = [k \in {"1", "2"} |-> 0]
    /\ \A p \in Procs : status[p] \in {NoStatus, "0"}

(* A line given to printf() appears once, unless stdout is no terminal:     *)
(* then the header that 5_25 prints before it forks appears twice, because  *)
(* the child leaves with exit(), and the result 5_29's child counted never  *)
(* appears, because it leaves with _exit().  When a fork() fails there is   *)
(* one header, and neither a line of 5_14 nor a count.                      *)
LinesOnce ==
  Finished =>
    /\ job.prog = "5_25" =>
         /\ OutLines("header") = IF job.tty \/ job.fails = 2 THEN 1 ELSE 2
         /\ job.tty => out[1] = Line("header")
    /\ job.prog = "5_14" =>
         IF job.fails = 2 THEN out = <<>>
         ELSE \E i, j \in DOMAIN out : i < j /\ Len(out) = 2
                /\ out[i] = Line("child") /\ out[j].line = "done"
    /\ job.prog = "5_29" =>
         /\ OutLines("count") = IF job.tty /\ job.fails = 0 THEN 1 ELSE 0
         /\ job.tty /\ job.fails = 0 =>
              \E i \in DOMAIN out : out[i] = Report("count", taken, NoStatus)

(* What a parent that has ended says of its children: each of them once, as *)
(* it ended, and 5_13 of those only that exited, with whatever status.  It  *)
(* complains of numbers it could not hand over only when the command ended  *)
(* before it had read them.                                                 *)
Told(q) == {i \in DOMAIN out : out[i].line \in {"exited", "killed", "done"} /\ out[i].of = q}
ReportsAreTrue ==
  Finished /\ status[1] = "0" =>
    /\ \A q \in Procs \ {1} :
         /\ job.prog \in {"5_12", "5_27", "5_28", "5_29"} /\ life[q] # "none" =>
              /\ Cardinality(Told(q)) = 1
              /\ \A i \in Told(q) : /\ out[i].st = status[q]
                                    /\ out[i].line = "killed" <=> status[q] \in Signals
         /\ job.prog = "5_13" =>
              Cardinality(Told(q)) = IF status[q] \in {"0", "1"} THEN 1 ELSE 0
    /\ OutLines("failure") > 0 => job.args[1] # "cat"

(* No program hangs: once the standard input ends, everybody ends, even the *)
(* child left behind by a fork() that failed, and a parent that was not     *)
(* killed and did not give up has waited for all of its children.           *)
EverybodyEnds ==
  <>[](Finished /\ (status[1] = "0" => \A q \in Procs : life[q] # "zombie" \/ q = 1))
=============================================================================
