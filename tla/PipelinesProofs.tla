------------------------- MODULE PipelinesProofs ---------------------------
(***************************************************************************)
(* Proofs about Pipelines, for every set of jobs that JobAssumption and    *)
(* CommandsAssumption admit and every size of the pipes.                   *)
(*                                                                         *)
(* What is known of every state:                                           *)
(*   CInv  where each process is in its script;                            *)
(*   FInv  how the parent's place and the lives of its children agree;     *)
(*   OInv, RInv, PInv  which lines are written or wait in a stream;        *)
(*   HInv, GInv  when every command copies (Smooth): what each descriptor  *)
(*         stands for at each place, so that no pipe breaks and whoever    *)
(*         has read to the end of a pipe leaves it empty;                  *)
(*   DInv  then: where each of the blocks is;                              *)
(*   LineInv  the header of 5_25, the two lines of 5_14, the count of 5_29.*)
(*                                                                         *)
(* A step of the program means one of a few things for the control of the  *)
(* processes (Alone, Births, Burials) and one of a few things for the      *)
(* lines that are written (Silent, Says, Sends and so on); what is known   *)
(* is kept by each of them.  With every command cat, each process goes one *)
(* straight course: then no pipe breaks, and every block is somewhere.     *)
(***************************************************************************)
EXTENDS Pipelines, SequenceTheorems, FiniteSetTheorems, TLAPS

-----------------------------------------------------------------------------
(* The scripts.                                                             *)

(* The calls that end a process, and the children.                          *)
EndingCalls == {"exit", "_exit", "die"}
Kids == {2, 3}

(* The arguments of a call.                                                 *)
WellFormed(c) ==
  /\ c[1] \in {"close", "copy", "filter", "count", "write", "dup2", "open"} => c[2] \in Slots
  /\ c[1] \in {"copy", "filter", "dup2"} => c[3] \in Slots
  /\ c[1] = "pipe" => c[2] \in {1, 2}
  /\ c[1] = "open" => c[3] \in {"read", "over", "append"}
  /\ c[1] = "write" => c[3] \in Nat \ {0}
  /\ c[1] = "put" => c[2] \in {"header", "count", "child"}
  /\ c[1] \in {"exit", "_exit"} => c[2] \in {"0", "1", "2", "3"}
  /\ c[1] = "die" => c[2] \in Signals

(* A script begins with a call, and a call that does not end the process is *)
(* followed by another one.                                                 *)
Runs(s) ==
  /\ 1 \in DOMAIN s
  /\ \A k \in DOMAIN s : s[k][1] \notin EndingCalls => k + 1 \in DOMAIN s
  /\ DOMAIN s \subseteq Nat \ {0} /\ \A k \in DOMAIN s : 1 .. k \subseteq DOMAIN s
  /\ \A k \in DOMAIN s : WellFormed(s[k])

ParentCalls ==
  {"pipe", "put", "fork", "close", "copy", "wait", "waitall", "exit", "die", "filter",
   "ignore", "write", "putfailure", "dup2", "open"}

(* A parent forks each child at most once, before it waits; when it has     *)
(* children it waits before it leaves with 0; when it waits for one child   *)
(* only, it has one only.                                                   *)
Raises(s) ==
  /\ \A k \in DOMAIN s : s[k][1] \in ParentCalls
  /\ \A k \in DOMAIN s : s[k][1] = "fork" => s[k][2] \in Kids
  /\ \A j, k \in DOMAIN s :
       s[j][1] = "fork" /\ s[k][1] = "fork" /\ s[k][2] = s[j][2] => j = k
  /\ \A j, k \in DOMAIN s : s[j][1] = "fork" /\ s[k][1] \in {"wait", "waitall"} => j < k
  /\ \A k \in DOMAIN s : s[k][1] = "exit" /\ s[k][2] = "0" =>
        \/ \E j \in DOMAIN s : j < k /\ s[j][1] \in {"wait", "waitall"}
        \/ \A j \in DOMAIN s : s[j][1] # "fork"
  /\ \A j, k \in DOMAIN s : s[k][1] = "wait" /\ s[j][1] = "fork" => s[j][2] = 2
  /\ \A k \in DOMAIN s : s[k][1] = "put" => s[k][2] = "header"

ChildCalls == {"close", "write", "exit", "_exit", "dup2", "exec", "count", "put"}

Grows(s) ==
  /\ \A k \in DOMAIN s : s[k][1] \in ChildCalls
  /\ \A k \in DOMAIN s : s[k][1] \in {"exit", "_exit"} => s[k][2] \in {"0", "1"}

(* A parent that ignores SIGPIPE copies nothing.                            *)
Ignores(s) == \E j \in DOMAIN s : s[j][1] = "ignore"
TakesIn(s) == \E k \in DOMAIN s : s[k][1] \in {"copy", "filter"}

-----------------------------------------------------------------------------
(* Control: where every process is in its script, and what its descriptors  *)
(* stand for.                                                               *)

Lives == {"none", "run", "zombie", "gone"}
DeafInv == deaf \subseteq {1} /\ (1 \in deaf => Ignores(ParentScript))

CInv ==
  /\ job \in Jobs /\ DeafInv
  /\ image \in [Procs -> Images \cup {"main"}] /\ image[1] = "main"
  /\ step \in [Procs -> Nat]
  /\ \A p \in Procs : step[p] \in DOMAIN Script(p)
  /\ life \in [Procs -> Lives] /\ life[1] \in {"run", "zombie"}
  /\ fds \in [Procs -> [Slots -> Objects]]
  /\ \A q \in Kids : life[q] = "none" => image[q] = "main" /\ step[q] = 1
  /\ \A p \in hold : p \in Procs /\ life[p] = "run" /\ Call(p)[1] \in {"copy", "filter"}

(* What a call does to the descriptors of its process.                      *)
After(f, c) ==
  IF c[1] = "close" THEN [f EXCEPT ![c[2]] = "closed"]
  ELSE IF c[1] = "dup2" THEN [f EXCEPT ![c[3]] = f[c[2]]]
  ELSE IF c[1] = "open" THEN [f EXCEPT ![c[2]] = c[3]]
  ELSE IF c[1] = "pipe"
       THEN IF c[2] = 1 THEN [f EXCEPT !["r1"] = "r1", !["w1"] = "w1"]
                        ELSE [f EXCEPT !["r2"] = "r2", !["w2"] = "w2"]
  ELSE f

Closed == [s \in Slots |-> "closed"]

(* What one step may mean for one process: it stays where it is, goes to    *)
(* its next call, becomes a command or ends; it is born or waited for.      *)
Stays(p) ==
  image'[p] = image[p] /\ step'[p] = step[p] /\ life'[p] = life[p] /\ fds'[p] = fds[p]
Advances(p) ==
  /\ life[p] = "run" /\ life'[p] = "run"
  /\ image'[p] = image[p] /\ step'[p] = step[p] + 1
  /\ fds'[p] = After(fds[p], Call(p))
  /\ Call(p)[1] \notin EndingCalls
  /\ Call(p)[1] = "exec" => Call(p)[2] \notin Images
Becomes(p) ==
  /\ life[p] = "run" /\ life'[p] = "run"
  /\ Call(p)[1] = "exec" /\ Call(p)[2] \in Images
  /\ image'[p] = Call(p)[2] /\ step'[p] = 1
  /\ fds'[p] = fds[p]
Stops(p) ==
  /\ life[p] = "run" /\ life'[p] = "zombie"
  /\ image'[p] = image[p] /\ step'[p] = step[p]
  /\ fds'[p] = Closed
IsBorn(q) ==
  /\ Call(1)[1] = "fork" /\ Call(1)[2] = q /\ life[1] = "run"
  /\ life'[q] = "run"
  /\ image'[q] = image[q] /\ step'[q] = step[q]
  /\ fds'[q] = fds[1]
IsReaped(q) ==
  /\ Call(1)[1] \in {"wait", "waitall"} /\ life[1] = "run"
  /\ life[q] = "zombie" /\ life'[q] = "gone"
  /\ image'[q] = image[q] /\ step'[q] = step[q]
  /\ fds'[q] = fds[q]

(* A step is that of one process, a fork or a wait of the parent.           *)
Alone(p) ==
  /\ Stays(p) \/ Advances(p) \/ Becomes(p) \/ Stops(p)
  /\ \A q \in Procs \ {p} : Stays(q)
  /\ Call(p)[1] # "fork"
Births ==
  /\ Advances(1)
  /\ \E q \in Kids : Call(1)[1] = "fork" /\ Call(1)[2] = q
                     /\ IsBorn(q) /\ \A o \in Kids \ {q} : Stays(o)
Burials ==
  /\ \/ Stays(1) /\ Call(1)[1] = "waitall"
     \/ Advances(1) /\ Call(1)[1] = "wait"
  /\ \E q \in Kids : IsReaped(q) /\ \A o \in Kids \ {q} : Stays(o)

-----------------------------------------------------------------------------
(* Counting the members of a sequence that are in a set.                    *)
Places(seq, L) == {i \in DOMAIN seq : seq[i] \in L}
HowMany(seq, L) == Cardinality(Places(seq, L))

-----------------------------------------------------------------------------
(* The family: the parent forks each child once, before it waits, and when  *)
(* it has waited every child it has forked is gone.                         *)

Codes == {NoStatus, "0", "1", "2", "3"} \cup Signals
Waits(j) == ParentScript[j][1] \in {"wait", "waitall"}
Forks(j) == ParentScript[j][1] = "fork"

FInv ==
  /\ status \in [Procs -> Codes]
  /\ \A p \in Procs : status[p] = NoStatus <=> life[p] \in {"none", "run"}
  /\ \A j \in DOMAIN ParentScript :
       Forks(j) => (life[ParentScript[j][2]] = "none" <=> step[1] <= j)
  /\ \A q \in Kids : life[q] # "none" =>
       \E j \in DOMAIN ParentScript : Forks(j) /\ ParentScript[j][2] = q /\ j < step[1]
  /\ \A j \in DOMAIN ParentScript : Waits(j) /\ j < step[1] =>
       \A q \in Kids : life[q] \in {"none", "gone"}
  /\ \A q \in Kids : life[q] = "gone" =>
       \A j \in DOMAIN ParentScript : Forks(j) => j < step[1]
  /\ status[1] = "0" => Call(1)[1] = "exit" /\ Call(1)[2] = "0"
  /\ \A q \in Kids : status[q] \notin {"2", "3"}

-----------------------------------------------------------------------------
(* What is written: the lines of each process's stream and of the standard  *)
(* output, and what a step does to them.                                    *)

Texts == {"header", "child", "count", "failure", "block", "exited", "killed", "done"}
Entries == [line : Texts, of : Nat, st : Codes]
Tell == {"exited", "killed", "done"}

Silent(p) ==
  /\ UNCHANGED <<out, buffer>>
  /\ Alone(p) /\ (Stays(p) \/ Advances(p))
  /\ Call(p)[1] # "put"
Copies(q) ==
  /\ out' = out /\ buffer' = [buffer EXCEPT ![q] = buffer[1]]
  /\ Births /\ IsBorn(q)
Forgets(p) ==
  /\ out' = out /\ buffer' = [buffer EXCEPT ![p] = <<>>]
  /\ Alone(p) /\ (Becomes(p) \/ (Stops(p) /\ Call(p)[1] # "exit"))
Flushes(p) ==
  /\ out' = out \o buffer[p] /\ buffer' = [buffer EXCEPT ![p] = <<>>]
  /\ Alone(p) /\ Stops(p) /\ Call(p)[1] = "exit"
Says(p, l) ==
  /\ Prints(p, <<l>>)
  /\ Alone(p) /\ Advances(p)
  /\ \/ Call(p)[1] = "put" /\ Call(p)[2] # "count" /\ l = Line(Call(p)[2])
     \/ Call(p)[1] = "put" /\ Call(p)[2] = "count" /\ l = Report("count", taken, NoStatus)
     \/ Call(p)[1] = "putfailure" /\ failed /\ l = Line("failure")
Sends(p) ==
  /\ out' = Append(out, Report("block", p, NoStatus)) /\ buffer' = buffer
  /\ Alone(p) /\ (Stays(p) \/ Advances(p))
  /\ Call(p)[1] \in {"copy", "filter", "write"} /\ Target(p) = "out"
Announces(q) ==
  /\ Prints(1, Reports(q, status[q]))
  /\ Burials /\ IsReaped(q)

(* The streams: a process that has ended has nothing left in its own.       *)
OInv ==
  /\ out \in Seq(Entries) /\ buffer \in [Procs -> Seq(Entries)] /\ taken \in Nat
  /\ \A p \in Procs : life[p] # "run" => buffer[p] = <<>>

-----------------------------------------------------------------------------
(* The reports: every line about a child says how that child ended, and a   *)
(* parent that was not killed has said of each child that it has waited for *)
(* what it says of such a child, once.                                      *)

TellsOf(q) == [line : Tell, of : {q}, st : Codes]
Truthful(l) ==
  l.line \in Tell => l.of \in Kids /\ life[l.of] = "gone" /\ Reports(l.of, status[l.of]) = <<l>>
TrueEntries == {l \in Entries : Truthful(l)}
PlainEntries == {l \in Entries : l.line \notin Tell}
Due(q) == IF life[q] = "gone" THEN Len(Reports(q, status[q])) ELSE 0
Said(q) == HowMany(out, TellsOf(q)) + HowMany(buffer[1], TellsOf(q))

RInv ==
  /\ out \in Seq(TrueEntries) /\ buffer[1] \in Seq(TrueEntries)
  /\ \A q \in Kids : buffer[q] \in Seq(PlainEntries)
  /\ status[1] \in {NoStatus, "0"} => \A q \in Kids : Said(q) = Due(q)

-----------------------------------------------------------------------------
(* When everybody copies: the whole course of each process, what its        *)
(* descriptors stand for at each place of it, and where it moves data.      *)

Smooth ==
  AllCopy \/ (job.fails = 0 /\ job.prog \in {"5_27", "5_29"} /\ job.args[1] = "cat")

(* The processes of the job, and the script that each of them starts with.  *)
Plain18 == {"5_18A", "5_18B", "5_18C", "5_18D"}
Crew ==
  CASE job.prog \in {"5_26", "5_29", "5_30"} -> {1, 2, 3}
    [] job.prog = "5_13" -> IF Len(Commands13(job.args)) = 1 THEN {1, 2} ELSE {1, 2, 3}
    [] OTHER -> {1, 2}
Cat == CommandScript("cat")
Base(p) == IF p = 1 THEN FullScript ELSE ChildScript(p)

(* The place where a child becomes cat, or else its last.                   *)
Turn(p) ==
  IF p = 1 THEN Len(FullScript)
  ELSE CASE job.prog \in {"5_12", "5_13"} \cup Plain18 -> 1
         [] job.prog = "5_14" -> 2
         [] job.prog \in {"5_25", "5_26", "5_27", "5_28"} -> 4
         [] job.prog = "5_29" -> IF p = 2 THEN 7 ELSE 8
         [] job.prog = "5_30" -> 6

Course(p) ==
  IF p = 1 THEN FullScript
  ELSE CASE job.prog \in {"5_12", "5_13"} \cup Plain18 ->
              <<Exec("cat"), Copy("stdin", "stdout"), ExitNow("0")>>
         [] job.prog = "5_14" -> Child14
         [] job.prog = "5_25" -> Child25
         [] job.prog = "5_26" ->
              IF p = 2
              THEN <<Dup2("w1", "stdout"), Close("r1"), Close("w1"), Exec("cat"),
                     Copy("stdin", "stdout"), ExitNow("0")>>
              ELSE <<Dup2("r1", "stdin"), Close("r1"), Close("w1"), Exec("cat"),
                     Copy("stdin", "stdout"), ExitNow("0")>>
         [] job.prog = "5_27" ->
              <<Dup2("r1", "stdin"), Close("r1"), Close("w1"), Exec("cat"),
                Copy("stdin", "stdout"), ExitNow("0")>>
         [] job.prog = "5_28" ->
              <<Dup2("w1", "stdout"), Close("w1"), Close("r1"), Exec("cat"),
                Copy("stdin", "stdout"), ExitNow("0")>>
         [] job.prog = "5_29" ->
              IF p = 2
              THEN <<Dup2("r1", "stdin"), Close("r1"), Close("w1"), Dup2("w2", "stdout"),
                     Close("r2"), Close("w2"), Exec("cat"), Copy("stdin", "stdout"),
                     ExitNow("0")>>
              ELSE Child29(3)
         [] job.prog = "5_30" ->
              IF p = 2
              THEN <<Close("r2"), Close("w2"), Close("r1"), Dup2("w1", "stdout"), Close("w1"),
                     Exec("cat"), Copy("stdin", "stdout"), ExitNow("0")>>
              ELSE <<Close("r1"), Close("w1"), Close("w2"), Dup2("r2", "stdin"), Close("r2"),
                     Exec("cat"), Copy("stdin", "stdout"), ExitNow("0")>>

Place(p) == IF image[p] = "main" THEN step[p] ELSE Turn(p) + step[p]

(* The place where a process moves data; 0 when it never does.              *)
Work(p) ==
  CASE job.prog \in {"5_12", "5_13"} \cup Plain18 -> IF p = 1 THEN 0 ELSE 2
    [] job.prog = "5_14" -> 0
    [] job.prog = "5_25" -> IF p = 1 THEN 5 ELSE 2
    [] job.prog = "5_26" -> IF p = 1 THEN 0 ELSE 5
    [] job.prog = "5_27" -> 5
    [] job.prog = "5_28" -> IF p = 1 THEN 4 ELSE 5
    [] job.prog = "5_29" -> IF p = 1 THEN 9 ELSE IF p = 2 THEN 8 ELSE 6
    [] job.prog = "5_30" -> 7

(* What stdin, stdout and the other descriptors of p stand for at place k.  *)
Table(i, o, r1, w1, r2, w2, save) ==
  [s \in Slots |-> IF s = "stdin" THEN i ELSE IF s = "stdout" THEN o ELSE IF s = "r1" THEN r1
                   ELSE IF s = "w1" THEN w1 ELSE IF s = "r2" THEN r2 ELSE IF s = "w2" THEN w2
                   ELSE save]
On(o, b) == IF b THEN o ELSE "closed"
No == "closed"
Mode18 == CASE job.prog = "5_18A" -> "over" [] job.prog = "5_18B" -> "read"
            [] OTHER -> "append"

Holds(p, k) ==
  CASE job.prog \in {"5_12", "5_13", "5_14"} -> Table("in", "out", No, No, No, No, No)
    [] job.prog = "5_18B" ->
         IF p = 1
         THEN Table(IF k \in 3 .. 4 THEN "read" ELSE "in", "out", No, No, No, No,
                    On("in", k \in 2 .. 5))
         ELSE Table("read", "out", No, No, No, No, "in")
    [] job.prog \in {"5_18A", "5_18C", "5_18D"} ->
         IF p = 1
         THEN Table("in", IF k \in 3 .. 4 THEN Mode18 ELSE "out", No, No, No, No,
                    On("out", k \in 2 .. 5))
         ELSE Table("in", Mode18, No, No, No, No, "out")
    [] job.prog = "5_25" ->
         IF p = 1
         THEN Table("in", "out", On("r1", k \in 2 .. 6), On("w1", k \in 2 .. 4), No, No, No)
         ELSE Table("in", "out", On("r1", k <= 1), On("w1", k <= 3), No, No, No)
    [] job.prog = "5_26" ->
         IF p = 1
         THEN Table("in", "out", On("r1", k \in 2 .. 4), On("w1", k \in 2 .. 5), No, No, No)
         ELSE IF p = 2
         THEN Table("in", IF k <= 1 THEN "out" ELSE "w1", On("r1", k <= 2), On("w1", k <= 3),
                    No, No, No)
         ELSE Table(IF k <= 1 THEN "in" ELSE "r1", "out", On("r1", k <= 2), On("w1", k <= 3),
                    No, No, No)
    [] job.prog = "5_27" ->
         IF p = 1
         THEN Table("in", "out", On("r1", k \in 2 .. 3), On("w1", k \in 2 .. 6), No, No, No)
         ELSE Table(IF k <= 1 THEN "in" ELSE "r1", "out", On("r1", k <= 2), On("w1", k <= 3),
                    No, No, No)
    [] job.prog = "5_28" ->
         IF p = 1
         THEN Table("in", "out", On("r1", k \in 2 .. 5), On("w1", k \in 2 .. 3), No, No, No)
         ELSE Table("in", IF k <= 1 THEN "out" ELSE "w1", On("r1", k <= 3), On("w1", k <= 2),
                    No, No, No)
    [] job.prog = "5_29" ->
         IF p = 1
         THEN Table("in", "out", On("r1", k \in 2 .. 5), On("w1", k \in 2 .. 10),
                    On("r2", k \in 3 .. 6), On("w2", k \in 3 .. 7), No)
         ELSE IF p = 2
         THEN Table(IF k <= 1 THEN "in" ELSE "r1", IF k <= 4 THEN "out" ELSE "w2",
                    On("r1", k <= 2), On("w1", k <= 3), On("r2", k <= 5), On("w2", k <= 6), No)
         ELSE Table(IF k <= 3 THEN "in" ELSE "r2", "out",
                    On("r1", k <= 1), On("w1", k <= 2), On("r2", k <= 4), On("w2", k <= 5), No)
    [] job.prog = "5_30" ->
         IF p = 1
         THEN Table("in", "out", On("r1", k \in 2 .. 8), On("w1", k \in 2 .. 5),
                    On("r2", k \in 3 .. 6), On("w2", k \in 3 .. 9), No)
         ELSE IF p = 2
         THEN Table("in", IF k <= 4 THEN "out" ELSE "w1",
                    On("r1", k <= 3), On("w1", k <= 5), On("r2", k <= 1), On("w2", k <= 2), No)
         ELSE Table(IF k <= 4 THEN "in" ELSE "r2", "out",
                    On("r1", k <= 1), On("w1", k <= 2), On("r2", k <= 5), On("w2", k <= 3), No)

(* Who reads a pipe, and where it is made; 0 when it is not.                *)
WEnds == {"w1", "w2"}
Eater(w) ==
  IF w = "w1"
  THEN CASE job.prog \in {"5_25", "5_28", "5_30"} -> 1
         [] job.prog \in {"5_27", "5_29"} -> 2
         [] job.prog = "5_26" -> 3
         [] OTHER -> 0
  ELSE IF job.prog \in {"5_29", "5_30"} THEN 3 ELSE 0

Made(w) == IF w = "w1" THEN 1 ELSE 2

(* What the one moving call of p reads and writes.                          *)
Moves == {"copy", "filter", "count", "write"}
From(p) == Holds(p, Work(p))[Course(p)[Work(p)][2]]
Into(p) == IF Course(p)[Work(p)][1] = "write" THEN Holds(p, Work(p))[Course(p)[Work(p)][2]]
           ELSE Holds(p, Work(p))[Course(p)[Work(p)][3]]

(* The course of a process: it goes its script up to the place where it     *)
(* becomes cat, and then that of cat; it moves data in one place, ends at   *)
(* the last, and its descriptors are those of the table all the way.        *)
WellRun(p) ==
  LET c == Course(p) IN
    /\ Len(c) \in Nat /\ DOMAIN c = 1 .. Len(c)
    /\ Work(p) \in 0 .. Len(c) - 1 /\ Turn(p) \in 1 .. Len(c)
    /\ \A k \in DOMAIN c :
         /\ c[k][1] \in EndingCalls <=> k = Len(c)
         /\ k = Len(c) => c[k][1] \in {"exit", "_exit"} /\ c[k][2] = "0"
         /\ c[k][1] \in Moves <=> k = Work(p)
         /\ k <= Turn(p) => k \in DOMAIN Base(p) /\ Base(p)[k] = c[k]
         /\ c[k][1] = "exec" => k = Turn(p) /\ Turn(p) # Len(c) /\ c[k][2] = "cat"
         /\ k # Len(c) => After(Holds(p, k), c[k]) = Holds(p, k + 1)
    /\ Turn(p) # Len(c) =>
         /\ Len(c) = Turn(p) + 2 /\ c[Turn(p)][1] = "exec"
         /\ c[Turn(p) + 1] = Cat[1] /\ c[Turn(p) + 2] = Cat[2]

(* The children are born with what the parent holds.                        *)
Routed ==
  /\ \A p \in Crew : WellRun(p)
  /\ Turn(1) = Len(Course(1))
  /\ Holds(1, 1) = Table("in", "out", No, No, No, No, No)
  /\ \A k \in DOMAIN Course(1) : Course(1)[k][1] = "fork" =>
       Course(1)[k][2] \in Crew /\ Holds(Course(1)[k][2], 1) = Holds(1, k)
  /\ \A q \in Crew \ {1} : \E k \in DOMAIN Course(1) : Course(1)[k] = Fork(q)

(* A reader keeps its end until it has read everything, and the parent has  *)
(* one for the reader it has not forked yet; a process reads from the pipe  *)
(* it is to read, and only from that.                                       *)
PipedBy(w) ==
  /\ \A p \in Crew : \A k \in DOMAIN Course(p) : \A s \in Slots :
       Holds(p, k)[s] = w => Eater(w) # 0 /\ (p = 1 => k > Made(w))
  /\ \A k \in DOMAIN Course(1) : Course(1)[k][1] = "fork" => k > Made(w) \/ Eater(w) = 0
  /\ Eater(w) # 0 =>
       /\ Eater(w) \in Crew /\ Work(Eater(w)) > 0 /\ From(Eater(w)) = ReadEnd(w)
       /\ Course(Eater(w))[Work(Eater(w))][1] # "write"
       /\ \A k \in DOMAIN Course(Eater(w)) :
            k <= Work(Eater(w)) /\ (Eater(w) = 1 => k > Made(w)) =>
              \E s \in Slots : Holds(Eater(w), k)[s] = ReadEnd(w)
       /\ \A j, k \in DOMAIN Course(1) :
            Course(1)[j] = Fork(Eater(w)) /\ k \in Made(w) + 1 .. j =>
              \E s \in Slots : Holds(1, k)[s] = ReadEnd(w)
       /\ Eater(w) = 1 => Work(1) > Made(w)

Piped ==
  /\ \A w \in WEnds : PipedBy(w)
  /\ \A k \in DOMAIN Course(1) : Course(1)[k][1] = "pipe" =>
       Course(1)[k][2] = (IF k = 1 THEN 1 ELSE 2) /\ k \in {1, 2}

(* Where a process is, it has the descriptors of the table; one that has    *)
(* ended did so at the last place, with status 0.                           *)
OnPath(p) ==
  /\ image[p] \in {"main", "cat"} /\ (image[p] = "cat" => Turn(p) # Len(Course(p)))
  /\ Place(p) \in DOMAIN Course(p) /\ (image[p] = "main" => step[p] <= Turn(p))
  /\ Call(p) = Course(p)[Place(p)]
  /\ life[p] = "run" => fds[p] = Holds(p, Place(p))
  /\ life[p] \in {"zombie", "gone"} =>
       Place(p) = Len(Course(p)) /\ fds[p] = Closed /\ status[p] = "0"

HInv ==
  /\ \A p \in Procs : p \notin Crew => life[p] = "none"
  /\ \A p \in Procs : life[p] = "none" => fds[p] = Closed
  /\ \A p \in Crew : life[p] # "none" => OnPath(p)
  /\ failed = FALSE

(* A pipe whose reader has gone on is empty and can no longer be written.   *)
GInv ==
  /\ pipe \in [{"1", "2"} -> Nat]
  /\ \A w \in WEnds : Eater(w) # 0 /\ Place(Eater(w)) > Work(Eater(w)) =>
       pipe[PipeOf(w)] = 0 /\ ~IsOpen(w)

(* Where the blocks come from, and who writes them.                         *)
Fed == {"5_12", "5_13", "5_18A", "5_18C", "5_18D", "5_26", "5_28", "5_30"}
Writer ==
  CASE job.prog = "5_25" -> 2
    [] job.prog \in {"5_27", "5_29"} -> 1
    [] OTHER -> 0

(* The moving call of each process fits the job.                            *)
Task(p) == Course(p)[Work(p)]
Tasked(p) ==
  Work(p) # 0 =>
    /\ Task(p)[1] = "write" => p = Writer /\ Task(p)[3] = Sent /\ Into(p) \in WEnds
    /\ Task(p)[1] # "write" =>
         /\ p # Writer /\ From(p) \in {"in", "read", "r1", "r2"}
         /\ From(p) = "in" => job.prog \in Fed
         /\ From(p) = "read" => job.prog = "5_18B"
         /\ IsPipe(From(p)) => Eater(WriteEnd(From(p))) = p
    /\ Task(p)[1] \in {"copy", "filter"} =>
         /\ Into(p) \in {"out", "over", "append", "w1", "w2"}
         /\ Into(p) = "out" => p \in LastStage
         /\ Into(p) \in {"over", "append"} => job.prog \in {"5_18A", "5_18C", "5_18D"}

Tasks ==
  /\ \A p \in Crew : Tasked(p)
  /\ Writer # 0 => Writer \in Crew /\ Work(Writer) # 0 /\ Task(Writer)[1] = "write"
  /\ job.prog \in Fed =>
       \E p \in Crew : Work(p) # 0 /\ Task(p)[1] # "write" /\ From(p) = "in"
  /\ job.prog = "5_18B" =>
       \E p \in Crew : Work(p) # 0 /\ Task(p)[1] # "write" /\ From(p) = "read"
  /\ \A j, k \in DOMAIN Course(1) : Course(1)[j][1] = "open" =>
       /\ Work(1) = 0
       /\ Course(1)[k][1] = "fork" => j < k

(* A course c of n calls that moves data at the place w and becomes cat at  *)
(* the place t.                                                             *)
Leads(p, c, n, w, t) ==
  /\ c = Course(p) /\ Turn(p) = t /\ Work(p) = w /\ Len(c) = n /\ DOMAIN c = 1 .. n
  /\ n \in Nat /\ w \in 0 .. n - 1 /\ t \in 1 .. n
  /\ \A k \in DOMAIN c :
       /\ c[k][1] \in EndingCalls <=> k = n
       /\ k = n => c[k][1] \in {"exit", "_exit"} /\ c[k][2] = "0"
       /\ c[k][1] \in Moves <=> k = w
       /\ c[k][1] = "exec" => k = t /\ t # n /\ c[k][2] = "cat"
  /\ \A k \in DOMAIN c : k <= t => k \in DOMAIN Base(p) /\ Base(p)[k] = c[k]
  /\ \A k \in DOMAIN c : k # n => After(Holds(p, k), c[k]) = Holds(p, k + 1)
  /\ t # n => n = t + 2 /\ c[t][1] = "exec" /\ c[t + 1] = Cat[1] /\ c[t + 2] = Cat[2]

-----------------------------------------------------------------------------
(* What a step adds to the lines written and to those that wait.            *)
LinesIn(S, B) == out \in Seq(S) /\ \A p \in Procs : buffer[p] \in Seq(B)

(* Only 5_27 and 5_29 complain, and not when their command copies.          *)
Uncomplaining == {l \in Entries : l.line # "failure"}
PInv ==
  job.prog \notin {"5_27", "5_29"} \/ job.fails # 0 \/ Smooth =>
    LinesIn(Uncomplaining, Uncomplaining)

-----------------------------------------------------------------------------
(* Everything that is known of every state the program reaches.             *)
Known ==
  /\ CInv /\ FInv /\ OInv /\ RInv /\ PInv
  /\ Smooth => HInv /\ GInv

-----------------------------------------------------------------------------
(* Where the blocks are.                                                    *)

BlockLines == {l \in Entries : l.line = "block"}

(* The blocks still to be written or read.                                  *)
Left ==
  IF Writer # 0
  THEN IF Place(Writer) < Work(Writer) THEN Sent
       ELSE IF Place(Writer) = Work(Writer) THEN Sent - written ELSE 0
  ELSE IF job.prog \in Fed THEN input
  ELSE IF job.prog = "5_18B" THEN 2 - at ELSE 0

OnScreen == HowMany(out, BlockLines)
InFile == HowMany(file, {"new"})
Shown == {l \in Entries : l.line = "block" => l.of \in LastStage}
Unshown == {l \in Entries : l.line # "block"}

FileInv ==
  /\ file \in Seq({"old", "new"}) /\ at \in 0 .. Len(file)
  /\ \A i \in DOMAIN file : i > at => file[i] = "old"
  /\ job.prog = "5_18B" => Len(file) = 2
  /\ job.prog \notin Plain18 \/ step[1] <= 2 => at = 0

SourceInv ==
  /\ input \in Nat /\ written \in Nat
  /\ \A p \in Crew : Work(p) # 0 /\ Task(p)[1] # "write" /\ Place(p) > Work(p) =>
       /\ From(p) = "in" => input = 0
       /\ From(p) = "read" => at = 2
  /\ Writer # 0 => /\ Place(Writer) < Work(Writer) => written = 0
                   /\ Place(Writer) = Work(Writer) => written < Sent
  /\ \A w \in WEnds : Eater(w) = 0 => pipe[PipeOf(w)] = 0

(* Every block is in one of these places.                                   *)
DInv ==
  /\ LinesIn(Shown, Unshown) /\ FileInv /\ SourceInv
  /\ Left + pipe["1"] + pipe["2"] + Cardinality(hold) + OnScreen + InFile + taken = Sent

InPipes == pipe["1"] + pipe["2"]

-----------------------------------------------------------------------------
(* The lines that are written once.                                         *)

(* 5_25: the header is written before the fork when stdout is a terminal,   *)
(* and by both processes when it is not.                                    *)
Headers == {l \in Entries : l.line = "header"}
Heads == HowMany(out, Headers) + HowMany(buffer[1], Headers) + HowMany(buffer[2], Headers)

TtyInv == job.tty => \A p \in Procs : buffer[p] = <<>>

HeadInv ==
  job.prog = "5_25" /\ job.fails = 0 =>
    /\ Heads = IF step[1] <= 2 THEN 0 ELSE IF job.tty \/ step[1] = 3 THEN 1 ELSE 2
    /\ step[1] <= 2 \/ (step[1] = 3 /\ ~job.tty) => out = <<>>
    /\ step[1] <= 3 => buffer[2] = <<>>
    /\ job.tty /\ step[1] > 2 => out # <<>> /\ out[1] = Line("header")

(* 5_14: the child's line, and then the parent's.                           *)
TheDone == Report("done", 2, NoStatus)
OrderInv ==
  job.prog = "5_14" /\ job.fails = 0 =>
    /\ life[2] # "gone" => buffer[1] = <<>>
    /\ step[2] = 1 => out = <<>> /\ buffer[2] = <<>>
    /\ step[2] = 2 /\ life[2] \in {"none", "run"} => out \o buffer[2] = <<Line("child")>>
    /\ life[2] = "zombie" => out = <<Line("child")>>
    /\ life[2] = "gone" => out \o buffer[1] = <<Line("child"), TheDone>>
    /\ life[2] \in {"zombie", "gone"} => step[2] = 2

(* When fork() fails, 5_25 has printed its header and 5_14 nothing.         *)
ShortInv ==
  job.fails # 0 =>
    /\ job.prog = "5_14" => out = <<>> /\ buffer[1] = <<>>
    /\ job.prog = "5_25" =>
         /\ step[1] \in 1 .. 3 /\ (life[1] # "run" => step[1] = 3)
         /\ step[1] < 3 => out = <<>> /\ buffer[1] = <<>>
         /\ step[1] = 3 => out \o buffer[1] = <<Line("header")>>

(* 5_29: the count is written once, by the counting child.                  *)
CountLines == {l \in Entries : l.line = "count"}
Uncounted == {l \in Entries : l.line # "count"}

CountInv ==
  job.prog = "5_29" =>
    /\ image[3] = "main"
    /\ life[1] # "run" /\ job.fails = 0 => step[1] > 4
    /\ life[3] \in {"zombie", "gone"} => step[3] = 8
    /\ ~job.tty => out \in Seq(Uncounted) /\ buffer[1] \in Seq(Uncounted)
                   /\ buffer[2] \in Seq(Uncounted)
    /\ job.tty => HowMany(out, CountLines) = IF step[3] = 8 THEN 1 ELSE 0
    /\ job.tty /\ step[3] = 8 =>
         \E i \in DOMAIN out : out[i] = Report("count", taken, NoStatus)

(* A step of 5_29 adds lines that are no counts, or is the counter's line.  *)
Plainly ==
  /\ \E s \in Seq(Uncounted) : out' = out \o s
  /\ step'[3] = 8 <=> step[3] = 8
  /\ ~job.tty => buffer'[1] \in Seq(Uncounted) /\ buffer'[2] \in Seq(Uncounted)
Counts ==
  /\ step[3] = 7 /\ step'[3] = 8
  /\ job.tty => out' = out \o <<Report("count", taken, NoStatus)>>
  /\ ~job.tty => out' = out /\ buffer'[1] \in Seq(Uncounted) /\ buffer'[2] \in Seq(Uncounted)

LineInv == TtyInv /\ HeadInv /\ OrderInv /\ ShortInv /\ CountInv

-----------------------------------------------------------------------------
(* The calls of the scripts. *)
USE DEF Close, Dup2, MakePipe, Fork, Exec, Put, Copy, Filter, Count, Write, Exit,
        ExitNow, IgnorePipe, PutFailure, Wait, WaitAll, Die, Open

-----------------------------------------------------------------------------
(* The scripts: what calls a parent, a child and a command make.            *)

(* The parents' scripts, one program after the other.                       *)
LEMMA Raises12 == Runs(Parent12) /\ Raises(Parent12)
<1>1. Runs(Parent12) BY DEF Parent12, Runs, WellFormed, Slots, Signals, EndingCalls
<1>2. Raises(Parent12) BY DEF Parent12, Raises, ParentCalls, Kids
<1> QED BY <1>1, <1>2

LEMMA Raises14 == Runs(Parent14) /\ Raises(Parent14)
<1>1. Runs(Parent14) BY DEF Parent14, Runs, WellFormed, Slots, Signals, EndingCalls
<1>2. Raises(Parent14) BY DEF Parent14, Raises, ParentCalls, Kids
<1> QED BY <1>1, <1>2

LEMMA Raises25 == Runs(Parent25) /\ Raises(Parent25)
<1>1. Runs(Parent25) BY DEF Parent25, Runs, WellFormed, Slots, Signals, EndingCalls
<1>2. Raises(Parent25) BY DEF Parent25, Raises, ParentCalls, Kids
<1> QED BY <1>1, <1>2

LEMMA Raises26 == Runs(Parent26) /\ Raises(Parent26)
<1>1. Runs(Parent26) BY DEF Parent26, Runs, WellFormed, Slots, Signals, EndingCalls
<1>2. Raises(Parent26) BY DEF Parent26, Raises, ParentCalls, Kids
<1> QED BY <1>1, <1>2

LEMMA Raises27 == Runs(Parent27) /\ Raises(Parent27)
<1>1. Runs(Parent27) BY SizeAssumption DEF Parent27, Runs, WellFormed, Slots, Signals, EndingCalls
<1>2. Raises(Parent27) BY DEF Parent27, Raises, ParentCalls, Kids
<1> QED BY <1>1, <1>2

LEMMA Raises28 == Runs(Parent28) /\ Raises(Parent28)
<1>1. Runs(Parent28) BY DEF Parent28, Runs, WellFormed, Slots, Signals, EndingCalls
<1>2. Raises(Parent28) BY DEF Parent28, Raises, ParentCalls, Kids
<1> QED BY <1>1, <1>2

LEMMA Raises29 == Runs(Parent29) /\ Raises(Parent29)
<1>1. Runs(Parent29) BY SizeAssumption DEF Parent29, Runs, WellFormed, Slots, Signals, EndingCalls
<1>2. Raises(Parent29) BY SMTT(30) DEF Parent29, Raises, ParentCalls, Kids
<1> QED BY <1>1, <1>2

LEMMA Raises30 == Runs(Parent30) /\ Raises(Parent30)
<1>1. CASE Rest(job.args) = <<>>
  <2>1. Parent30 = <<Die("SEGV")>> BY <1>1 DEF Parent30
  <2> QED BY <2>1 DEF Runs, WellFormed, Slots, Signals, EndingCalls, Raises, ParentCalls, Kids
<1>2. CASE Rest(job.args) # <<>>
  <2>1. PICK s : s = Parent30 OBVIOUS
  <2>2. s = <<MakePipe(1), MakePipe(2), Fork(2), Fork(3), Close("w1"), Close("r2"),
         Filter("r1", "w2"), Close("r1"), Close("w2"), Close("r1"), Close("w2"),
         WaitAll, Exit("0")>>
    BY <1>2, <2>1 DEF Parent30
  <2>3. Runs(s) BY <2>2 DEF Runs, WellFormed, Slots, Signals, EndingCalls
  <2>4. /\ DOMAIN s = 1 .. 13
        /\ \A k \in DOMAIN s : s[k][1] = "fork" <=> k \in {3, 4}
        /\ s[3] = Fork(2) /\ s[4] = Fork(3)
        /\ \A k \in DOMAIN s : s[k][1] \in {"wait", "waitall"} <=> k = 12
        /\ s[12] = WaitAll
        /\ \A k \in DOMAIN s : s[k][1] = "exit" => k = 13 /\ s[k][2] = "0"
        /\ \A k \in DOMAIN s : s[k][1] \in ParentCalls /\ s[k][1] # "put"
    BY <2>2 DEF ParentCalls
  <2>5. Raises(s) BY <2>4 DEF Raises, Kids
  <2> QED BY <2>1, <2>3, <2>5
<1> QED BY <1>1, <1>2

(* 5_13 runs no more than two commands.                                     *)
LEMMA Some13 ==
  ASSUME job \in Jobs, job.prog = "5_13" PROVE Len(Commands13(job.args)) \in 0 .. 2
<1> DEFINE ws == job.args
           starts == {i \in DOMAIN ws : ws[i] # Separator /\ (i = 1 \/ ws[i - 1] = Separator)}
           nth == [k \in 1 .. Cardinality(starts) |->
                     CHOOSE i \in starts : Cardinality({h \in starts : h <= i}) = k]
<1>1. ws \in Seq(Commands \cup {Separator})
  <2>1. job \in [prog : Programs, args : Seq(Commands \cup {Separator}), tty : BOOLEAN, there : BOOLEAN,
               fails : {0, 2, 3}]
    BY JobAssumption
  <2> QED BY <2>1
<1>2. IsFiniteSet(DOMAIN ws) BY <1>1, FS_Interval, LenProperties
<1>3. IsFiniteSet(starts)
  <2>1. starts \subseteq DOMAIN ws OBVIOUS
  <2> QED BY <2>1, <1>2, FS_Subset
<1>4. Cardinality(starts) \in Nat BY <1>3, FS_CardinalityType
<1>5. Commands13(ws) = [k \in 1 .. Cardinality(starts) |-> ws[nth[k]]] BY DEF Commands13
<1>6. Len(Commands13(ws)) = Cardinality(starts)
  <2> HIDE DEF starts, nth
  <2> QED BY <1>4, <1>5
<1>7. Len(Commands13(job.args)) <= 2 BY ONLY CommandsAssumption, job \in Jobs, job.prog = "5_13"
<1> QED BY <1>4, <1>6, <1>7

LEMMA Raises13 == ASSUME job \in Jobs, job.prog = "5_13" PROVE Runs(Parent13) /\ Raises(Parent13)
<1> DEFINE n == Len(Commands13(job.args))
<1>1. n \in 0 .. 2 BY Some13
<1>2. /\ DOMAIN Parent13 = 1 .. n + 2
      /\ \A k \in DOMAIN Parent13 : Parent13[k] = IF k <= n THEN Fork(k + 1)
                                   ELSE IF k = n + 1 THEN WaitAll ELSE Exit("0")
  BY DEF Parent13
<1> HIDE DEF n
<1>3. Runs(Parent13) BY <1>1, <1>2 DEF Runs, WellFormed, EndingCalls
<1>4. /\ \A k \in DOMAIN Parent13 : Parent13[k][1] = "fork" => k <= n /\ Parent13[k][2] = k + 1
      /\ \A k \in DOMAIN Parent13 : Parent13[k][1] \in {"wait", "waitall"} <=> k = n + 1
      /\ \A k \in DOMAIN Parent13 : Parent13[k][1] \in {"fork", "waitall", "exit"}
      /\ \A k \in DOMAIN Parent13 : Parent13[k][1] = "exit" => k = n + 2 /\ Parent13[k][2] = "0"
  BY <1>1, <1>2
<1>5. n + 1 \in DOMAIN Parent13 /\ Parent13[n + 1][1] = "waitall" BY <1>1, <1>2
<1>6. \A k \in DOMAIN Parent13 : k \in Int BY <1>1, <1>2
<1>7. Raises(Parent13)
  <2> PICK s : s = Parent13 OBVIOUS
  <2>1. \A k \in DOMAIN s : s[k][1] = "exit" => \E j \in DOMAIN s : j < k /\ s[j][1] \in {"wait", "waitall"}
    BY <1>1, <1>4, <1>5
  <2>2. \A j, k \in DOMAIN s : s[j][1] = "fork" /\ s[k][1] \in {"wait", "waitall"} => j < k
    BY <1>1, <1>4, <1>6
  <2>3. \A k \in DOMAIN s : s[k][1] = "fork" => s[k][2] \in Kids
    BY <1>1, <1>2 DEF Kids
  <2>4. \A j, k \in DOMAIN s :
          s[j][1] = "fork" /\ s[k][1] = "fork" /\ s[k][2] = s[j][2] => j = k
    BY <1>1, <1>4, <1>6
  <2> QED BY <2>1, <2>2, <2>3, <2>4, <1>4 DEF Raises, ParentCalls
<1> QED BY <1>3, <1>7

LEMMA Raises18 ==
  ASSUME NEW slot \in {"stdin", "stdout"}, NEW mode \in {"read", "over", "append"},
         NEW creates \in BOOLEAN
  PROVE  Runs(Parent18(slot, mode, creates)) /\ Raises(Parent18(slot, mode, creates))
<1> DEFINE s == Parent18(slot, mode, creates)
<1>1. \/ s = <<Exit("2")>>
      \/ s = <<Dup2(slot, "save"), Open(slot, mode), Fork(2), Dup2("save", slot), Close("save"),
               Wait, Exit("0")>>
      \/ s = <<Dup2(slot, "save"), Open(slot, mode), Dup2("save", slot), Close("save"), Exit("0")>>
  BY DEF Parent18
<1> HIDE DEF s
<1>2. Runs(s) BY <1>1 DEF Runs, WellFormed, Slots, EndingCalls
<1>3. Raises(s) BY <1>1 DEF Raises, ParentCalls, Kids
<1> QED BY <1>2, <1>3 DEF s

(* The children's scripts.                                                  *)
LEMMA Grows13 == ASSUME NEW p \in Kids PROVE Runs(Child13(p)) /\ Grows(Child13(p))
<1>1. Runs(Child13(p)) BY DEF Child13, Kids, Runs, WellFormed, Slots, Signals, EndingCalls
<1>2. Grows(Child13(p)) BY DEF Child13, Kids, Grows, ChildCalls
<1> QED BY <1>1, <1>2

LEMMA Grows14 == Runs(Child14) /\ Grows(Child14)
<1>1. Runs(Child14) BY DEF Child14, Kids, Runs, WellFormed, Slots, Signals, EndingCalls
<1>2. Grows(Child14) BY DEF Child14, Kids, Grows, ChildCalls
<1> QED BY <1>1, <1>2

LEMMA Grows25 == Runs(Child25) /\ Grows(Child25)
<1>1. Runs(Child25) BY DEF Child25, Kids, Runs, WellFormed, Slots, Signals, EndingCalls
<1>2. Grows(Child25) BY DEF Child25, Kids, Grows, ChildCalls
<1> QED BY <1>1, <1>2

LEMMA Grows26 == ASSUME NEW p \in Kids PROVE Runs(Child26(p)) /\ Grows(Child26(p))
<1>1. Runs(Child26(p)) BY DEF Child26, Kids, Runs, WellFormed, Slots, Signals, EndingCalls
<1>2. Grows(Child26(p)) BY DEF Child26, Kids, Grows, ChildCalls
<1> QED BY <1>1, <1>2

LEMMA Grows27 == Runs(Child27) /\ Grows(Child27)
<1>1. Runs(Child27) BY DEF Child27, Kids, Runs, WellFormed, Slots, Signals, EndingCalls
<1>2. Grows(Child27) BY DEF Child27, Kids, Grows, ChildCalls
<1> QED BY <1>1, <1>2

LEMMA Grows28 == Runs(Child28) /\ Grows(Child28)
<1>1. Runs(Child28) BY DEF Child28, Kids, Runs, WellFormed, Slots, Signals, EndingCalls
<1>2. Grows(Child28) BY DEF Child28, Kids, Grows, ChildCalls
<1> QED BY <1>1, <1>2

LEMMA Grows29 == ASSUME NEW p \in Kids PROVE Runs(Child29(p)) /\ Grows(Child29(p))
<1>1. Runs(Child29(p)) BY DEF Child29, First29, Kids, Runs, WellFormed, Slots, Signals, EndingCalls
<1>2. Grows(Child29(p)) BY DEF Child29, First29, Kids, Grows, ChildCalls
<1> QED BY <1>1, <1>2

LEMMA Grows30 == ASSUME NEW p \in Kids PROVE Runs(Child30(p)) /\ Grows(Child30(p))
<1>1. Runs(Child30(p)) BY DEF Child30, Kids, Runs, WellFormed, Slots, Signals, EndingCalls
<1>2. Grows(Child30(p)) BY DEF Child30, Kids, Grows, ChildCalls
<1> QED BY <1>1, <1>2

LEMMA GrowsOther ==
  ASSUME NEW c PROVE Runs(<<Exec(c), Exit("1")>>) /\ Grows(<<Exec(c), Exit("1")>>)
BY DEF Runs, WellFormed, EndingCalls, Grows, ChildCalls

(* Of every program, of each of its children, and of every command.         *)
LEMMA FullScripts == ASSUME job \in Jobs PROVE Runs(FullScript) /\ Raises(FullScript)
<1>1. job.prog \in Programs BY JobAssumption
<1>2. /\ job.prog = "5_12" => FullScript = Parent12
      /\ job.prog = "5_13" => FullScript = Parent13
      /\ job.prog = "5_14" => FullScript = Parent14
      /\ job.prog = "5_18A" => FullScript = Parent18("stdout", "over", TRUE)
      /\ job.prog = "5_18B" => FullScript = Parent18("stdin", "read", FALSE)
      /\ job.prog = "5_18C" => FullScript = Parent18("stdout", "append", TRUE)
      /\ job.prog = "5_18D" => FullScript = Parent18("stdout", "append", FALSE)
      /\ job.prog = "5_25" => FullScript = Parent25
      /\ job.prog = "5_26" => FullScript = Parent26
      /\ job.prog = "5_27" => FullScript = Parent27
      /\ job.prog = "5_28" => FullScript = Parent28
      /\ job.prog = "5_29" => FullScript = Parent29
      /\ job.prog = "5_30" => FullScript = Parent30
  BY DEF FullScript
<1> QED
  BY <1>1, <1>2, Raises12, Raises13, Raises14, Raises18, Raises25, Raises26, Raises27,
     Raises28, Raises29, Raises30 DEF Programs

(* A parent one of whose forks fails leaves main() there.                   *)
LEMMA GivesUp == \E c \in {"1", "2", "3"} : GiveUp = Exit(c)
BY DEF GiveUp

LEMMA Shortened ==
  ASSUME job \in Jobs
  PROVE  \/ /\ ParentScript = FullScript
            /\ job.fails = 0 \/ \A n \in DOMAIN FullScript : FullScript[n] # Fork(job.fails)
         \/ \E n \in DOMAIN FullScript :
              /\ job.fails # 0 /\ FullScript[n][1] = "fork" /\ FullScript[n][2] = job.fails
              /\ ParentScript = [k \in 1 .. n |-> IF k = n THEN GiveUp ELSE FullScript[k]]
<1> DEFINE failing == {k \in DOMAIN FullScript : FullScript[k] = Fork(job.fails)}
           last == CHOOSE k \in failing : TRUE
<1>1. CASE job.fails = 0 \/ failing = {}
  BY <1>1 DEF ParentScript
<1>2. CASE ~(job.fails = 0 \/ failing = {})
  <2>1. ParentScript = [k \in 1 .. last |-> IF k = last THEN GiveUp ELSE FullScript[k]]
    BY <1>2 DEF ParentScript
  <2>2. last \in failing BY <1>2
  <2>3. last \in DOMAIN FullScript /\ FullScript[last] = Fork(job.fails) BY <2>2
  <2>4. FullScript[last][1] = "fork" /\ FullScript[last][2] = job.fails BY <2>3
  <2> QED BY <1>2, <2>1, <2>3, <2>4
<1> QED BY <1>1, <1>2

LEMMA ParentWhole == ASSUME job.fails = 0 PROVE ParentScript = FullScript
BY DEF ParentScript

LEMMA SmoothWhole == ASSUME Smooth PROVE job.fails = 0 /\ ParentScript = FullScript
BY ParentWhole DEF Smooth, AllCopy

LEMMA ParentScripts == ASSUME job \in Jobs PROVE Runs(ParentScript) /\ Raises(ParentScript)
<1> DEFINE f == FullScript
           s == ParentScript
<1>1. Runs(f) /\ Raises(f) BY FullScripts
<1>2. CASE s = f BY <1>1, <1>2
<1>3. ASSUME NEW n \in DOMAIN f, f[n][1] = "fork",
             s = [k \in 1 .. n |-> IF k = n THEN GiveUp ELSE f[k]]
      PROVE  Runs(s) /\ Raises(s)
  <2>1. n \in Nat \ {0} /\ DOMAIN s = 1 .. n /\ 1 .. n \subseteq DOMAIN f
    BY <1>1, <1>3 DEF Runs
  <2>2. PICK c \in {"1", "2", "3"} : GiveUp = Exit(c) BY GivesUp
  <2>3. s[n][1] = "exit" /\ s[n][2] = c BY <1>3, <2>1, <2>2
  <2>4. \A k \in DOMAIN s : k \in DOMAIN f /\ k <= n /\ (k # n => s[k] = f[k])
    BY <1>3, <2>1
  <2> HIDE DEF s, f
  <2>5. Runs(s)
    <3>1. 1 \in DOMAIN s /\ \A k \in DOMAIN s : k \in Nat \ {0} /\ 1 .. k \subseteq DOMAIN s
      BY <2>1
    <3>2. \A k \in DOMAIN s : s[k][1] \notin EndingCalls => k + 1 \in DOMAIN s
      BY <2>1, <2>3 DEF EndingCalls
    <3>3. \A k \in DOMAIN s : WellFormed(s[k])
      <4>1. WellFormed(s[n]) BY <2>3 DEF WellFormed
      <4> QED BY <1>1, <2>4, <4>1 DEF Runs
    <3> QED BY <3>1, <3>2, <3>3 DEF Runs
  <2>6. Raises(s)
    <3>1. \A k \in DOMAIN s : s[k][1] = "exit" /\ s[k][2] = "0" =>
            \/ \E j \in DOMAIN s : j < k /\ s[j][1] \in {"wait", "waitall"}
            \/ \A j \in DOMAIN s : s[j][1] # "fork"
      <4> SUFFICES ASSUME NEW k \in DOMAIN s, s[k][1] = "exit", s[k][2] = "0"
                   PROVE  \E j \in DOMAIN s : j < k /\ s[j][1] \in {"wait", "waitall"}
        OBVIOUS
      <4>1. k # n /\ k \in DOMAIN f /\ f[k] = s[k] /\ k < n BY <2>1, <2>3, <2>4
      <4>2. PICK j \in DOMAIN f : j < k /\ f[j][1] \in {"wait", "waitall"}
        BY <1>1, <1>3, <4>1 DEF Raises
      <4>3. j \in DOMAIN s /\ j # n BY <1>1, <2>1, <4>1, <4>2 DEF Runs
      <4> QED BY <2>4, <4>2, <4>3
    <3>2. /\ \A k \in DOMAIN s : s[k][1] \in ParentCalls
          /\ \A k \in DOMAIN s : s[k][1] = "put" => s[k][2] = "header"
      BY <1>1, <2>3, <2>4 DEF Raises, ParentCalls
    <3>3. \A k \in DOMAIN s : s[k][1] \in {"fork", "wait", "waitall"} =>
            k # n /\ k \in DOMAIN f /\ s[k] = f[k]
      BY <2>3, <2>4
    <3>4. /\ \A k \in DOMAIN s : s[k][1] = "fork" => s[k][2] \in Kids
          /\ \A j, k \in DOMAIN s :
               s[j][1] = "fork" /\ s[k][1] = "fork" /\ s[k][2] = s[j][2] => j = k
      BY <1>1, <3>3 DEF Raises
    <3>5. /\ \A j, k \in DOMAIN s :
               s[j][1] = "fork" /\ s[k][1] \in {"wait", "waitall"} => j < k
          /\ \A j, k \in DOMAIN s : s[k][1] = "wait" /\ s[j][1] = "fork" => s[j][2] = 2
      BY <1>1, <3>3 DEF Raises
    <3> QED BY <3>1, <3>2, <3>4, <3>5 DEF Raises
  <2> QED BY <2>5, <2>6
<1> QED BY <1>2, <1>3, Shortened

(* What a parent calls is what it would call if no fork() failed, or exit(). *)
LEMMA ParentCall ==
  ASSUME job \in Jobs, NEW k \in DOMAIN ParentScript
  PROVE  \/ k \in DOMAIN FullScript /\ ParentScript[k] = FullScript[k]
         \/ ParentScript[k][1] = "exit"
<1>1. CASE ParentScript = FullScript BY <1>1
<1>2. ASSUME NEW n \in DOMAIN FullScript,
             ParentScript = [h \in 1 .. n |-> IF h = n THEN GiveUp ELSE FullScript[h]]
      PROVE  \/ k \in DOMAIN FullScript /\ ParentScript[k] = FullScript[k]
             \/ ParentScript[k][1] = "exit"
  <2>1. k \in 1 .. n /\ k \in DOMAIN FullScript
    BY <1>2, FullScripts DEF Runs
  <2>2. ParentScript[k] = IF k = n THEN GiveUp ELSE FullScript[k] BY <1>2, <2>1
  <2>3. GiveUp[1] = "exit" BY GivesUp
  <2> QED BY <2>1, <2>2, <2>3
<1> QED BY <1>1, <1>2, Shortened

LEMMA ChildScripts ==
  ASSUME job \in Jobs, NEW p \in Kids PROVE Runs(ChildScript(p)) /\ Grows(ChildScript(p))
<1>1. job.prog \in Programs BY JobAssumption
<1>2. /\ job.prog = "5_13" => ChildScript(p) = Child13(p)
      /\ job.prog = "5_14" => ChildScript(p) = Child14
      /\ job.prog = "5_25" => ChildScript(p) = Child25
      /\ job.prog = "5_26" => ChildScript(p) = Child26(p)
      /\ job.prog = "5_27" => ChildScript(p) = Child27
      /\ job.prog = "5_28" => ChildScript(p) = Child28
      /\ job.prog = "5_29" => ChildScript(p) = Child29(p)
      /\ job.prog = "5_30" => ChildScript(p) = Child30(p)
  BY DEF ChildScript
<1>3. job.prog \in {"5_12", "5_18A", "5_18B", "5_18C", "5_18D"} =>
         ChildScript(p) = <<Exec(job.args[1]), Exit("1")>>
  BY DEF ChildScript
<1> QED
  BY <1>1, <1>2, <1>3, Grows13, Grows14, Grows25, Grows26, Grows27, Grows28, Grows29,
     Grows30, GrowsOther DEF Programs

LEMMA CommandScripts ==
  ASSUME NEW c \in Images
  PROVE  /\ Runs(CommandScript(c))
         /\ \A k \in DOMAIN CommandScript(c) :
              /\ CommandScript(c)[k][1] \in {"copy", "_exit", "die"}
              /\ CommandScript(c)[k][1] = "_exit" => CommandScript(c)[k][2] = "0"
<1>1. /\ c = "cat" => CommandScript(c) = <<Copy("stdin", "stdout"), ExitNow("0")>>
      /\ c = "true" => CommandScript(c) = <<ExitNow("0")>>
      /\ c = "abort" => CommandScript(c) = <<Die("ABRT")>>
  BY DEF CommandScript
<1>2. PICK s : s = CommandScript(c) OBVIOUS
<1>3. Runs(s) BY <1>1, <1>2 DEF Images, Runs, WellFormed, EndingCalls, Slots, Signals
<1>4. \A k \in DOMAIN s : s[k][1] \in {"copy", "_exit", "die"} /\ (s[k][1] = "_exit" => s[k][2] = "0")
  BY <1>1, <1>2 DEF Images
<1> QED BY <1>2, <1>3, <1>4

(* The parents that ignore SIGPIPE are those of 5_27 and 5_29.              *)
LEMMA FullOneOf == ASSUME job \in Jobs PROVE ~(Ignores(FullScript) /\ TakesIn(FullScript))
<1>1. job.prog \in Programs BY JobAssumption
<1>2. CASE job.prog = "5_29"
  <2>1. ~TakesIn(Parent29) BY DEF Parent29, TakesIn
  <2> QED BY <1>2, <2>1 DEF FullScript
<1>3. CASE job.prog = "5_13"
  <2>1. DOMAIN Parent13 = 1 .. Len(Commands13(job.args)) + 2 BY DEF Parent13
  <2>2. \A k \in DOMAIN Parent13 : Parent13[k][1] \in {"fork", "waitall", "exit"}
    <3>1. PICK n : n = Len(Commands13(job.args)) OBVIOUS
    <3>2. Parent13 = [k \in 1 .. n + 2 |->
                        IF k <= n THEN Fork(k + 1) ELSE IF k = n + 1 THEN WaitAll ELSE Exit("0")]
      BY <3>1 DEF Parent13
    <3> QED BY <3>2
  <2>3. ~Ignores(Parent13) BY <2>2 DEF Ignores
  <2> QED BY <1>3, <2>3 DEF FullScript
<1>4. CASE job.prog = "5_30"
  <2>1. PICK s : s = Parent30 OBVIOUS
  <2>2. \/ s = <<Die("SEGV")>>
        \/ s = <<MakePipe(1), MakePipe(2), Fork(2), Fork(3), Close("w1"), Close("r2"),
                 Filter("r1", "w2"), Close("r1"), Close("w2"), Close("r1"), Close("w2"),
                 WaitAll, Exit("0")>>
    BY <2>1 DEF Parent30
  <2>3. ~Ignores(s) BY <2>2 DEF Ignores
  <2> QED BY <1>4, <2>1, <2>3 DEF FullScript
<1>5. CASE job.prog \in {"5_12", "5_14", "5_25", "5_26", "5_27", "5_28"}
  <2>1. ~Ignores(Parent12) /\ ~Ignores(Parent14) BY DEF Ignores, Parent12, Parent14
  <2>2. ~Ignores(Parent25) BY DEF Ignores, Parent25
  <2>3. ~Ignores(Parent26) BY DEF Ignores, Parent26
  <2>4. ~TakesIn(Parent27) BY DEF TakesIn, Parent27
  <2>5. ~Ignores(Parent28) BY DEF Ignores, Parent28
  <2> QED BY <1>5, <2>1, <2>2, <2>3, <2>4, <2>5 DEF FullScript
<1>6. CASE job.prog \in {"5_18A", "5_18B", "5_18C", "5_18D"}
  <2>1. \A slot, mode, creates : ~Ignores(Parent18(slot, mode, creates))
    BY DEF Ignores, Parent18
  <2> QED BY <1>6, <2>1 DEF FullScript
<1> QED BY <1>1, <1>2, <1>3, <1>4, <1>5, <1>6 DEF Programs

LEMMA IgnoresOrTakesIn == ASSUME job \in Jobs PROVE ~(Ignores(ParentScript) /\ TakesIn(ParentScript))
<1>1. Ignores(ParentScript) => Ignores(FullScript) BY ParentCall DEF Ignores
<1>2. TakesIn(ParentScript) => TakesIn(FullScript) BY ParentCall DEF TakesIn
<1> QED BY <1>1, <1>2, FullOneOf

-----------------------------------------------------------------------------
(* Control: a step keeps every process in its script.                       *)

(* Every process is in a script that runs.                                  *)
LEMMA ScriptRuns == ASSUME CInv, NEW p \in Procs PROVE Runs(Script(p))
<1>1. CASE image[p] # "main"
  <2>1. image[p] \in Images BY <1>1 DEF CInv
  <2> QED BY <1>1, <2>1, CommandScripts DEF Script
<1>2. CASE image[p] = "main" /\ p = 1 BY <1>2, ParentScripts DEF Script, CInv
<1>3. CASE image[p] = "main" /\ p # 1
  <2>1. p \in Kids
    <3>1. p \in Procs /\ p # 1 BY <1>3
    <3> QED BY <3>1 DEF Procs, Kids
  <2>2. Script(p) = ChildScript(p) BY <1>3 DEF Script
  <2> QED BY <2>1, <2>2, ChildScripts DEF CInv
<1> QED BY <1>1, <1>2, <1>3

(* Scripts depend on the job alone, which never changes.                    *)
LEMMA ScriptsStay ==
  ASSUME job' = job
  PROVE  /\ ParentScript' = ParentScript /\ FullScript' = FullScript
         /\ \A p \in Procs : ChildScript(p)' = ChildScript(p)
<1>1. /\ Parent26' = Parent26 /\ Parent30' = Parent30 /\ Parent27' = Parent27
      /\ Parent12' = Parent12 /\ Parent14' = Parent14 /\ Parent25' = Parent25
      /\ Parent28' = Parent28 /\ Parent29' = Parent29
  BY DEF Parent26, Parent30, Parent27, Parent12, Parent14, Parent25, Parent28, Parent29
<1>2. Parent13' = Parent13 BY DEF Parent13
<1>3. ASSUME NEW slot, NEW mode, NEW c
      PROVE Parent18(slot, mode, c)' = Parent18(slot, mode, c)
  BY DEF Parent18
<1>4. FullScript' = FullScript BY <1>1, <1>2, <1>3 DEF FullScript
<1>6. ParentScript' = ParentScript BY <1>4 DEF ParentScript, GiveUp
<1>5. ASSUME NEW p \in Procs PROVE ChildScript(p)' = ChildScript(p)
  <2>1. /\ Child13(p)' = Child13(p) /\ Child26(p)' = Child26(p) /\ Child27' = Child27
        /\ Child28' = Child28 /\ Child29(p)' = Child29(p) /\ Child30(p)' = Child30(p)
        /\ Child14' = Child14 /\ Child25' = Child25
    BY DEF Child13, Child26, Child27, Child28, Child29, First29, Child30, Child14, Child25
  <2> QED BY <2>1 DEF ChildScript
<1> QED BY <1>4, <1>5, <1>6

LEMMA ScriptStays ==
  ASSUME job' = job, NEW p \in Procs, image'[p] = image[p]
  PROVE  Script(p)' = Script(p)
BY ScriptsStay DEF Script

(* What a process calls: the parent never becomes a command.                *)
LEMMA ParentIs ==
  ASSUME CInv PROVE Script(1) = ParentScript /\ step[1] \in DOMAIN ParentScript
<1>1. image[1] = "main" BY DEF CInv
<1>2. Script(1) = ParentScript BY <1>1 DEF Script
<1>3. step[1] \in DOMAIN Script(1) BY DEF CInv, Procs
<1> QED BY <1>2, <1>3

LEMMA CallIs ==
  ASSUME CInv, NEW p \in Procs
  PROVE  /\ WellFormed(Call(p))
         /\ Call(p)[1] \notin EndingCalls => step[p] + 1 \in DOMAIN Script(p)
         /\ p = 1 => Call(p)[1] \in ParentCalls
         /\ p # 1 => Call(p)[1] \in ChildCalls \cup {"copy", "die"}
<1>1. step[p] \in DOMAIN Script(p) BY DEF CInv
<1>2. WellFormed(Call(p)) /\ (Call(p)[1] \notin EndingCalls => step[p] + 1 \in DOMAIN Script(p))
  BY <1>1, ScriptRuns DEF Runs, Call
<1>3. ASSUME p = 1 PROVE Call(p)[1] \in ParentCalls
  <2>1. Script(p) = ParentScript BY <1>3 DEF CInv, Script
  <2> QED BY <2>1, <1>1, ParentScripts DEF Raises, Call, CInv
<1>4. ASSUME p # 1 PROVE Call(p)[1] \in ChildCalls \cup {"copy", "die"}
  <2>1. p \in Kids BY <1>4 DEF Procs, Kids
  <2>2. CASE image[p] = "main"
    <3>1. Script(p) = ChildScript(p) BY <1>4, <2>2 DEF Script
    <3> QED BY <3>1, <2>1, <1>1, ChildScripts DEF Grows, Call, CInv
  <2>3. CASE image[p] # "main"
    <3>1. image[p] \in Images BY <2>3 DEF CInv
    <3> QED BY <3>1, <2>3, <1>1, CommandScripts DEF Script, Call, ChildCalls
  <2> QED BY <2>2, <2>3
<1> QED BY <1>2, <1>3, <1>4

(* Every action is one of the kinds of step.                                *)
LEMMA Kinds ==
  ASSUME CInv, NEW p \in Procs, Step(p)
  PROVE  /\ DoFork(p) => p = 1 /\ Births
         /\ DoWait(p) => p = 1 /\ Burials
         /\ ~DoFork(p) /\ ~DoWait(p) => Alone(p)
<1> USE DEF Calls, Goes, Arg
<1>1. /\ image \in [Procs -> Images \cup {"main"}] /\ step \in [Procs -> Nat]
      /\ life \in [Procs -> Lives] /\ fds \in [Procs -> [Slots -> Objects]]
  BY DEF CInv
<1>2. WellFormed(Call(p)) /\ Call(p)[1] \in ParentCalls \cup ChildCalls \cup {"copy", "die"}
  BY CallIs
<1>3. ASSUME DoClose(p) \/ DoDup2(p) \/ DoPipe(p) \/ DoOpen(p) PROVE Alone(p)
  BY <1>1, <1>2, <1>3
     DEF DoClose, DoDup2, DoPipe, DoOpen, Alone, Stays, Advances, After, WellFormed, EndingCalls
<1>4. ASSUME DoIgnore(p) \/ DoPut(p) \/ DoPutFailure(p) \/ NoChildLeft(p) \/ DoReadEnd(p)
      PROVE  Alone(p)
  BY <1>1, <1>2, <1>4
     DEF DoIgnore, DoPut, DoPutFailure, NoChildLeft, DoReadEnd, Reading, Alone, Stays,
         Advances, After, EndingCalls
<1>5. ASSUME DoExec(p) PROVE Alone(p)
  BY <1>1, <1>2, <1>5
     DEF DoExec, Alone, Stays, Advances, Becomes, After, EndingCalls
<1>6. ASSUME DoExit(p) \/ DoDie(p) PROVE Alone(p)
  BY <1>1, <1>2, <1>6
     DEF DoExit, DoDie, Ends, control, Alone, Stays, Stops, Closed
<1>7. ASSUME DoRead(p) PROVE Alone(p)
  BY <1>1, <1>2, <1>7 DEF DoRead, Reading, control, Alone, Stays
<1>8. ASSUME Writing(p) PROVE life[p] = "run" /\ Call(p)[1] \in {"copy", "filter", "write"}
  BY <1>8 DEF Writing, CInv
<1>9. ASSUME DoWrite(p) \/ DoWritePipe(p) PROVE Alone(p)
  <2>1. life[p] = "run" /\ Call(p)[1] \in {"copy", "filter", "write"}
    BY <1>8, <1>9 DEF DoWrite, DoWritePipe
  <2>2. Written(p) /\ UNCHANGED <<life, fds>> BY <1>9 DEF DoWrite, DoWritePipe
  <2> QED
    BY <1>1, <2>1, <2>2 DEF Written, GoesOn, control, Alone, Stays, Advances, After, EndingCalls
<1>10. ASSUME DoBrokenPipe(p) PROVE Alone(p)
  <2>1. life[p] = "run" /\ Call(p)[1] \in {"copy", "filter", "write"}
    BY <1>8, <1>10 DEF DoBrokenPipe
  <2>2. (GoesOn(p) /\ UNCHANGED <<life, fds>>) \/ Ends(p, "PIPE")
    BY <1>10 DEF DoBrokenPipe
  <2> QED
    BY <1>1, <2>1, <2>2
       DEF GoesOn, Ends, control, Alone, Stays, Advances, Stops, Closed, After, EndingCalls
<1>11. ASSUME DoFork(p) PROVE p = 1 /\ Births
  <2>1. p = 1 BY <1>11, CallIs DEF DoFork, ChildCalls
  <2>2. Call(1)[2] \in Kids
    <3>1. Call(1) = ParentScript[step[1]] /\ step[1] \in DOMAIN ParentScript
      BY ParentIs DEF Call
    <3>2. Call(1)[1] = "fork" BY <1>11, <2>1 DEF DoFork
    <3>3. Raises(ParentScript) BY ParentScripts DEF CInv
    <3> QED BY <3>1, <3>2, <3>3 DEF Raises
  <2>3. PICK q \in Kids : q = Call(1)[2] BY <2>2
  <2>4. /\ step' = [step EXCEPT ![1] = @ + 1] /\ image' = image
        /\ life' = [life EXCEPT ![q] = "run"] /\ fds' = [fds EXCEPT ![q] = fds[1]]
        /\ life[1] = "run" /\ Call(1)[1] = "fork"
    BY <1>11, <2>1, <2>3 DEF DoFork
  <2>5. q \in Procs /\ q # 1 /\ 1 \in Procs BY DEF Kids, Procs
  <2> HIDE DEF Calls, Goes, Arg
  <2>6. Advances(1) BY <1>1, <2>4, <2>5 DEF Advances, After, EndingCalls
  <2>7. IsBorn(q) BY <1>1, <2>3, <2>4, <2>5 DEF IsBorn
  <2>8. \A o \in Kids \ {q} : Stays(o) BY <1>1, <2>4, <2>5 DEF Stays, Kids, Procs
  <2> QED BY <2>1, <2>3, <2>4, <2>6, <2>7, <2>8 DEF Births
<1>12. ASSUME DoWait(p) PROVE p = 1 /\ Burials
  <2>1. p = 1 BY <1>12, CallIs DEF DoWait, ChildCalls
  <2>2. PICK q \in Children : life[q] = "zombie" /\ life' = [life EXCEPT ![q] = "gone"]
    BY <1>12 DEF DoWait
  <2> HIDE DEF Calls, Goes, Arg
  <2>3. q \in Kids /\ q \in Procs /\ q # 1 /\ 1 \in Procs BY DEF Children, Kids, Procs
  <2> USE DEF Calls, Goes, Arg
  <2>4. /\ life[1] = "run" /\ fds' = fds /\ image' = image
        /\ \/ Call(1)[1] = "wait" /\ step' = [step EXCEPT ![1] = @ + 1]
           \/ Call(1)[1] = "waitall" /\ step' = step
    BY <1>12, <2>1 DEF DoWait, control
  <2> HIDE DEF Calls, Goes, Arg
  <2>5. IsReaped(q) BY <1>1, <2>2, <2>3, <2>4 DEF IsReaped
  <2>6. \A o \in Kids \ {q} : Stays(o) BY <1>1, <2>2, <2>3, <2>4 DEF Stays, Kids, Procs
  <2>7. \/ Stays(1) /\ Call(1)[1] = "waitall"
        \/ Advances(1) /\ Call(1)[1] = "wait"
    <3>1. life'[1] = "run" /\ fds'[1] = fds[1] /\ image'[1] = image[1]
      <4>1. life'[1] = life[1] BY <1>1, <2>2, <2>3
      <4> QED BY <2>4, <4>1
    <3>2. CASE Call(1)[1] = "waitall" /\ step' = step BY <2>4, <3>1, <3>2 DEF Stays
    <3>3. CASE Call(1)[1] = "wait" /\ step' = [step EXCEPT ![1] = @ + 1]
      <4>1. step'[1] = step[1] + 1 BY <1>1, <2>3, <3>3
      <4>2. After(fds[1], Call(1)) = fds[1] BY <3>3 DEF After
      <4> QED BY <2>4, <3>1, <3>3, <4>1, <4>2 DEF Advances, EndingCalls
    <3> QED BY <2>4, <3>2, <3>3
  <2> QED BY <2>1, <2>3, <2>5, <2>6, <2>7 DEF Burials
<1> QED
  BY <1>3, <1>4, <1>5, <1>6, <1>7, <1>9, <1>10, <1>11, <1>12 DEF Step

LEMMA CInit == Init => CInv
<1> SUFFICES ASSUME Init PROVE CInv OBVIOUS
<1>1. /\ job \in Jobs
      /\ image \in [Procs -> Images \cup {"main"}] /\ image[1] = "main"
      /\ step \in [Procs -> Nat] /\ \A p \in Procs : step[p] = 1 /\ image[p] = "main"
      /\ life \in [Procs -> Lives] /\ life[1] \in {"run", "zombie"}
      /\ hold = {}
  BY DEF Init, Procs, Lives
<1>2. fds \in [Procs -> [Slots -> Objects]]
  <2>1. \A p \in Procs, s \in Slots :
          (IF p # 1 THEN "closed"
           ELSE CASE s = "stdin" -> "in" [] s = "stdout" -> "out" [] OTHER -> "closed") \in Objects
    <3>1. \A s : (CASE s = "stdin" -> "in" [] s = "stdout" -> "out" [] OTHER -> "closed")
                  \in {"in", "out", "closed"}
      BY Zenon
    <3> QED BY <3>1 DEF Objects
  <2> QED BY <2>1 DEF Init
<1>3. ASSUME NEW p \in Procs PROVE step[p] \in DOMAIN Script(p)
  <2>1. Script(p) = IF p = 1 THEN ParentScript ELSE ChildScript(p) BY <1>1 DEF Script
  <2>2. p # 1 => p \in Kids BY DEF Procs, Kids
  <2>3. step[p] = 1 /\ job \in Jobs BY <1>1
  <2>4. Runs(Script(p)) BY <2>1, <2>2, <2>3, ParentScripts, ChildScripts
  <2> QED BY <2>3, <2>4 DEF Runs
<1>4. \A q \in Kids : image[q] = "main" /\ step[q] = 1 BY <1>1 DEF Kids, Procs
<1>5. DeafInv BY DEF Init, DeafInv
<1> QED BY <1>1, <1>2, <1>3, <1>4, <1>5 DEF CInv

LEMMA AfterType ==
  ASSUME NEW f \in [Slots -> Objects], NEW c, WellFormed(c)
  PROVE  After(f, c) \in [Slots -> Objects]
BY DEF After, WellFormed, Slots, Objects

(* Nobody but the parent ignores SIGPIPE.                                   *)
LEMMA DeafKept == ASSUME CInv, NEW p \in Procs, Step(p), job' = job PROVE DeafInv'
<1>1. DeafInv /\ ParentScript' = ParentScript BY ScriptsStay DEF CInv
<1>2. CASE DoIgnore(p)
  <2>1. deaf' = deaf \cup {p} /\ Call(p)[1] = "ignore" BY <1>2 DEF DoIgnore, Calls
  <2>2. p = 1 BY <2>1, CallIs DEF ChildCalls
  <2>3. Ignores(ParentScript) BY <2>1, <2>2, ParentIs DEF Ignores, Call
  <2> QED BY <1>1, <2>1, <2>2, <2>3 DEF DeafInv, Ignores
<1>3. CASE ~DoIgnore(p)
  <2>1. deaf' = deaf
    BY <1>3 DEF Step, DoClose, DoDup2, DoPipe, DoOpen, DoFork, DoExec, DoPut, DoPutFailure,
       DoExit, DoDie, DoWait, NoChildLeft, DoRead, DoReadEnd, DoWrite, DoWritePipe, DoBrokenPipe
  <2> QED BY <1>1, <2>1 DEF DeafInv, Ignores
<1> QED BY <1>2, <1>3

(* Who has a block in hand.                                                 *)
LEMMA HoldKept ==
  ASSUME CInv, NEW p \in Procs, Step(p)
  PROVE  \A q \in hold' : /\ q \in Procs
                          /\ q = p \/ q \in hold
                          /\ life'[q] = "run" /\ step'[q] = step[q] /\ image'[q] = image[q]
                          /\ Call(q)[1] \in {"copy", "filter"}
<1>1. ASSUME NEW q \in hold
      PROVE  q \in Procs /\ life[q] = "run" /\ Call(q)[1] \in {"copy", "filter"}
  BY <1>1 DEF CInv
<1>2. /\ image \in [Procs -> Images \cup {"main"}] /\ step \in [Procs -> Nat]
      /\ life \in [Procs -> Lives]
  BY DEF CInv
<1>3. CASE /\ hold' = hold /\ ~Reading(p) /\ Call(p)[1] # "write"
           /\ \A q \in Procs \ {p} : life[q] = "run" =>
                image'[q] = image[q] /\ step'[q] = step[q] /\ life'[q] = life[q]
  BY <1>1, <1>3 DEF Reading, Calls
<1>4. CASE /\ hold' = hold \ {p}
           /\ \A q \in Procs \ {p} :
                image'[q] = image[q] /\ step'[q] = step[q] /\ life'[q] = life[q]
  BY <1>1, <1>4
<1>5. CASE DoRead(p)
  <2>1. /\ UNCHANGED <<image, step, life>> /\ life[p] = "run"
        /\ hold' = hold \/ (hold' = hold \cup {p} /\ Call(p)[1] \in {"copy", "filter"})
    BY <1>5 DEF DoRead, Reading, Calls, control
  <2> QED BY <1>1, <2>1
<1>6. CASE DoReadEnd(p)
  <2>1. hold' = hold /\ p \notin hold /\ life' = life /\ Goes(p) BY <1>6 DEF DoReadEnd
  <2> QED BY <1>1, <1>2, <2>1 DEF Goes
<1>7. CASE DoWrite(p) \/ DoWritePipe(p)
  <2>1. Written(p) /\ life' = life BY <1>7 DEF DoWrite, DoWritePipe
  <2> QED BY <1>2, <1>4, <2>1 DEF Written, GoesOn, control
<1>8. CASE DoBrokenPipe(p)
  <2>1. CASE Ends(p, "PIPE")
    BY <1>2, <1>4, <2>1 DEF Ends, control
  <2>2. CASE GoesOn(p) /\ life' = life /\ hold' = hold /\ p \in deaf
    <3>1. p = 1 /\ Ignores(ParentScript) BY <2>2 DEF CInv, DeafInv
    <3>2. Call(1) = ParentScript[step[1]] /\ step[1] \in DOMAIN ParentScript
      BY ParentIs DEF Call
    <3>3. Call(1)[1] \notin {"copy", "filter"}
      BY <3>1, <3>2, IgnoresOrTakesIn DEF CInv, TakesIn
    <3>4. p \notin hold BY <1>1, <3>1, <3>3
    <3> QED BY <1>1, <1>2, <2>2, <3>4 DEF GoesOn
  <2> QED BY <1>8, <2>1, <2>2 DEF DoBrokenPipe
<1>9. CASE DoExit(p) \/ DoDie(p)
  BY <1>2, <1>4, <1>9 DEF DoExit, DoDie, Ends, control
<1>10. CASE \/ DoClose(p) \/ DoDup2(p) \/ DoPipe(p) \/ DoOpen(p) \/ DoIgnore(p) \/ DoPut(p)
            \/ DoPutFailure(p) \/ NoChildLeft(p)
  <2>1. Goes(p) /\ life' = life /\ hold' = hold
    BY <1>10 DEF DoClose, DoDup2, DoPipe, DoOpen, DoIgnore, DoPut, DoPutFailure, NoChildLeft
  <2>2. Call(p)[1] \in {"close", "dup2", "pipe", "open", "ignore", "put", "putfailure", "waitall"}
    BY <1>10
       DEF DoClose, DoDup2, DoPipe, DoOpen, DoIgnore, DoPut, DoPutFailure, NoChildLeft, Calls
  <2> QED BY <1>2, <1>3, <2>1, <2>2 DEF Goes, Reading, Calls
<1>11. CASE DoExec(p)
  BY <1>2, <1>3, <1>11 DEF DoExec, Calls, Goes, Reading
<1>12. CASE DoWait(p)
  <2>1. /\ hold' = hold /\ image' = image
        /\ step' = step \/ step' = [step EXCEPT ![p] = @ + 1]
        /\ \E q \in Procs : life[q] = "zombie" /\ life' = [life EXCEPT ![q] = "gone"]
        /\ Call(p)[1] \in {"wait", "waitall"}
    BY <1>12 DEF DoWait, Goes, control, Calls, Children
  <2> QED BY <1>2, <1>3, <2>1 DEF Reading, Calls
<1>13. CASE DoFork(p)
  <2>1. /\ hold' = hold /\ image' = image /\ step' = [step EXCEPT ![p] = @ + 1]
        /\ life' = [life EXCEPT ![Call(p)[2]] = "run"]
        /\ Call(p)[1] = "fork"
    BY <1>13 DEF DoFork, Goes, Calls, Arg
  <2> QED BY <1>2, <1>3, <2>1 DEF Reading, Calls
<1> QED
  BY <1>5, <1>6, <1>7, <1>8, <1>9, <1>10, <1>11, <1>12, <1>13 DEF Step

(* The functions stay functions, and the job stays.                         *)
LEMMA Shapes ==
  ASSUME CInv, NEW p \in Procs, Step(p)
  PROVE  /\ image' = [q \in Procs |-> image'[q]] /\ step' = [q \in Procs |-> step'[q]]
         /\ life' = [q \in Procs |-> life'[q]] /\ fds' = [q \in Procs |-> fds'[q]]
         /\ job' = job
<1>1. /\ image = [q \in Procs |-> image[q]] /\ step = [q \in Procs |-> step[q]]
      /\ life = [q \in Procs |-> life[q]] /\ fds = [q \in Procs |-> fds[q]]
  BY DEF CInv
<1>2. CASE \/ DoClose(p) \/ DoDup2(p) \/ DoPipe(p) \/ DoOpen(p) \/ DoIgnore(p) \/ DoPut(p)
           \/ DoPutFailure(p) \/ NoChildLeft(p) \/ DoReadEnd(p) \/ DoRead(p)
  <2>1. UNCHANGED control \/ Goes(p)
    BY <1>2 DEF DoClose, DoDup2, DoPipe, DoOpen, DoIgnore, DoPut, DoPutFailure, NoChildLeft,
       DoReadEnd, DoRead
  <2>2. job' = job /\ life' = life /\ (fds' = fds \/ \E f : fds' = [fds EXCEPT ![p] = f])
    BY <1>2 DEF DoClose, DoDup2, DoPipe, DoOpen, DoIgnore, DoPut, DoPutFailure, NoChildLeft,
       DoReadEnd, DoRead
  <2> QED BY <1>1, <2>1, <2>2 DEF Goes, control
<1>3. CASE DoExec(p) BY <1>1, <1>3 DEF DoExec, Goes
<1>4. CASE DoFork(p) BY <1>1, <1>4 DEF DoFork, Goes
<1>5. CASE DoWait(p) BY <1>1, <1>5 DEF DoWait, Goes, control
<1>6. CASE DoExit(p) \/ DoDie(p) BY <1>1, <1>6 DEF DoExit, DoDie, Ends, control
<1>7. CASE DoWrite(p) \/ DoWritePipe(p) \/ DoBrokenPipe(p)
  <2>1. UNCHANGED control \/ GoesOn(p) \/ UNCHANGED <<image, step>>
    BY <1>7 DEF DoWrite, DoWritePipe, DoBrokenPipe, Written, Ends, control
  <2>2. job' = job /\ (UNCHANGED <<life, fds>> \/ Ends(p, "PIPE"))
    BY <1>7 DEF DoWrite, DoWritePipe, DoBrokenPipe
  <2> QED BY <1>1, <2>1, <2>2 DEF GoesOn, control, Ends
<1> QED BY <1>2, <1>3, <1>4, <1>5, <1>6, <1>7 DEF Step

(* What a step may mean for a process keeps it in its script.               *)
LEMMA StaysIn ==
  ASSUME CInv, job' = job, NEW p \in Procs,
         \/ Stays(p) \/ Advances(p) \/ Becomes(p) \/ Stops(p)
         \/ p # 1 /\ IsBorn(p)
         \/ p # 1 /\ IsReaped(p)
  PROVE  /\ image'[p] \in Images \cup {"main"} /\ (p = 1 => image'[p] = "main")
         /\ step'[p] \in Nat /\ step'[p] \in DOMAIN Script(p)'
         /\ life'[p] \in Lives /\ (p = 1 => life'[p] \in {"run", "zombie"})
         /\ fds'[p] \in [Slots -> Objects]
         /\ life'[p] = "none" => (image'[p] = "main" /\ step'[p] = 1) \/ p = 1
<1>1. /\ image[p] \in Images \cup {"main"} /\ (p = 1 => image[p] = "main")
      /\ step[p] \in Nat /\ step[p] \in DOMAIN Script(p)
      /\ life[p] \in Lives /\ (p = 1 => life[p] \in {"run", "zombie"})
      /\ fds[p] \in [Slots -> Objects] /\ fds[1] \in [Slots -> Objects]
  BY DEF CInv, Procs
<1>2. p # 1 /\ life[p] = "none" => image[p] = "main" /\ step[p] = 1
  <2>1. p # 1 => p \in Kids BY DEF Procs, Kids
  <2> QED BY <2>1 DEF CInv
<1>3. CASE Stays(p)
  <2>1. Script(p)' = Script(p) BY <1>3, ScriptStays DEF Stays
  <2> QED BY <1>1, <1>2, <1>3, <2>1 DEF Stays
<1>4. CASE Advances(p)
  <2>1. Script(p)' = Script(p) BY <1>4, ScriptStays DEF Advances
  <2>2. step[p] + 1 \in DOMAIN Script(p) /\ WellFormed(Call(p)) BY <1>4, CallIs DEF Advances
  <2>3. After(fds[p], Call(p)) \in [Slots -> Objects] BY <1>1, <2>2, AfterType
  <2> QED BY <1>1, <1>4, <2>1, <2>2, <2>3 DEF Advances, Lives
<1>5. CASE Becomes(p)
  <2>1. image'[p] \in Images /\ step'[p] = 1 /\ p # 1
    BY <1>5, CallIs DEF Becomes, ParentCalls
  <2>2. image'[p] # "main" BY <2>1 DEF Images
  <2>3. Script(p)' = CommandScript(image'[p]) BY <2>2 DEF Script
  <2>4. 1 \in DOMAIN CommandScript(image'[p]) BY <2>1, CommandScripts DEF Runs
  <2> QED BY <1>1, <1>5, <2>1, <2>3, <2>4 DEF Becomes, Lives
<1>6. CASE Stops(p)
  <2>1. Script(p)' = Script(p) BY <1>6, ScriptStays DEF Stops
  <2>2. Closed \in [Slots -> Objects] BY DEF Closed, Objects
  <2> QED BY <1>1, <1>6, <2>1, <2>2 DEF Stops, Lives
<1>7. CASE p # 1 /\ IsBorn(p)
  <2>1. Script(p)' = Script(p) BY <1>7, ScriptStays DEF IsBorn
  <2> QED BY <1>1, <1>7, <2>1 DEF IsBorn, Lives
<1>8. CASE p # 1 /\ IsReaped(p)
  <2>1. Script(p)' = Script(p) BY <1>8, ScriptStays DEF IsReaped
  <2> QED BY <1>1, <1>8, <2>1 DEF IsReaped, Lives
<1> QED BY <1>3, <1>4, <1>5, <1>6, <1>7, <1>8

(* A step means one of these things for every process.                      *)
LEMMA Everyone ==
  ASSUME CInv, NEW p \in Procs, Step(p), NEW q \in Procs
  PROVE  \/ Stays(q) \/ Advances(q) \/ Becomes(q) \/ Stops(q)
         \/ q # 1 /\ IsBorn(q)
         \/ q # 1 /\ IsReaped(q)
<1>1. Alone(p) \/ Births \/ Burials BY Kinds
<1>2. q = 1 \/ q \in Kids BY DEF Procs, Kids
<1>3. 1 \notin Kids BY DEF Kids
<1> QED BY <1>1, <1>2, <1>3 DEF Alone, Births, Burials

(* Control is kept.                                                         *)
LEMMA CStep == ASSUME CInv, [Next]_vars PROVE CInv'
<1>1. CASE UNCHANGED vars
  <2>1. \A p \in Procs : Script(p)' = Script(p) BY <1>1, ScriptStays DEF vars
  <2>2. \A p \in Procs : Call(p)' = Call(p) BY <1>1, <2>1 DEF vars, Call
  <2>3. DeafInv' BY <1>1, ScriptsStay DEF vars, CInv, DeafInv, Ignores
  <2> QED BY <1>1, <2>1, <2>2, <2>3 DEF vars, CInv
<1>2. ASSUME NEW p \in Procs, Step(p) PROVE CInv'
  <2>1. /\ image' = [q \in Procs |-> image'[q]] /\ step' = [q \in Procs |-> step'[q]]
        /\ life' = [q \in Procs |-> life'[q]] /\ fds' = [q \in Procs |-> fds'[q]]
        /\ job' = job
    BY <1>2, Shapes
  <2>2. ASSUME NEW q \in Procs
        PROVE  /\ image'[q] \in Images \cup {"main"} /\ (q = 1 => image'[q] = "main")
               /\ step'[q] \in Nat /\ step'[q] \in DOMAIN Script(q)'
               /\ life'[q] \in Lives /\ (q = 1 => life'[q] \in {"run", "zombie"})
               /\ fds'[q] \in [Slots -> Objects]
               /\ life'[q] = "none" => (image'[q] = "main" /\ step'[q] = 1) \/ q = 1
    BY <1>2, <2>1, Everyone, StaysIn
  <2>3. \A q \in hold' : q \in Procs /\ life'[q] = "run" /\ Call(q)'[1] \in {"copy", "filter"}
    <3>1. ASSUME NEW q \in hold'
          PROVE  /\ q \in Procs /\ life'[q] = "run" /\ step'[q] = step[q] /\ image'[q] = image[q]
                 /\ Call(q)[1] \in {"copy", "filter"}
      BY <1>2, HoldKept
    <3>2. ASSUME NEW q \in hold' PROVE Call(q)' = Call(q)
      BY <2>1, <3>1, ScriptStays DEF Call
    <3> QED BY <3>1, <3>2
  <2>4. 1 \in Procs /\ \A q \in Kids : q \in Procs /\ q # 1 BY DEF Procs, Kids
  <2>5. /\ job' \in Jobs
        /\ image' \in [Procs -> Images \cup {"main"}] /\ image'[1] = "main"
        /\ step' \in [Procs -> Nat] /\ \A q \in Procs : step'[q] \in DOMAIN Script(q)'
        /\ life' \in [Procs -> Lives] /\ life'[1] \in {"run", "zombie"}
        /\ fds' \in [Procs -> [Slots -> Objects]]
    BY <2>1, <2>2, <2>4 DEF CInv
  <2>6. DeafInv' BY <1>2, <2>1, DeafKept
  <2> QED BY <2>2, <2>3, <2>4, <2>5, <2>6 DEF CInv
<1> QED BY <1>1, <1>2 DEF Next

-----------------------------------------------------------------------------
(* Counting the members of a sequence that are in a set.                    *)

LEMMA PlacesFinite ==
  ASSUME NEW S, NEW s \in Seq(S), NEW L
  PROVE  IsFiniteSet(Places(s, L)) /\ HowMany(s, L) \in Nat
<1>1. DOMAIN s = 1 .. Len(s) /\ Len(s) \in Nat BY LenProperties
<1>2. IsFiniteSet(DOMAIN s) BY <1>1, FS_Interval
<1>3. Places(s, L) \subseteq DOMAIN s BY DEF Places
<1>4. IsFiniteSet(Places(s, L)) BY <1>2, <1>3, FS_Subset
<1> QED BY <1>4, FS_CardinalityType DEF HowMany

LEMMA HowManyZero ==
  ASSUME NEW S, NEW s \in Seq(S), NEW L
  PROVE  HowMany(s, L) = 0 <=> \A i \in DOMAIN s : s[i] \notin L
<1>1. IsFiniteSet(Places(s, L)) BY PlacesFinite
<1>2. HowMany(s, L) = 0 <=> Places(s, L) = {} BY <1>1, FS_EmptySet DEF HowMany
<1> QED BY <1>2 DEF Places

LEMMA HowManyNone == ASSUME NEW L PROVE HowMany(<<>>, L) = 0
<1>1. Places(<<>>, L) = {} BY DEF Places
<1> QED BY <1>1, FS_EmptySet DEF HowMany

LEMMA HowManyOne ==
  ASSUME NEW l, NEW L PROVE HowMany(<<l>>, L) = IF l \in L THEN 1 ELSE 0
<1>1. CASE l \in L
  <2>1. Places(<<l>>, L) = {1} BY <1>1 DEF Places
  <2> QED BY <1>1, <2>1, FS_Singleton DEF HowMany
<1>2. CASE l \notin L
  <2>1. Places(<<l>>, L) = {} BY <1>2 DEF Places
  <2> QED BY <1>2, <2>1, FS_EmptySet DEF HowMany
<1> QED BY <1>1, <1>2

(* What is appended is counted beside what is there.                        *)
LEMMA HowManyMore ==
  ASSUME NEW S, NEW s \in Seq(S), NEW t \in Seq(S), NEW L
  PROVE  HowMany(s \o t, L) = HowMany(s, L) + HowMany(t, L)
<1> DEFINE n == Len(s)
           A == Places(s, L)
           B == Places(t, L)
           C == {n + j : j \in B}
<1>1. /\ n \in Nat /\ Len(t) \in Nat /\ DOMAIN s = 1 .. n /\ DOMAIN t = 1 .. Len(t)
      /\ s \o t \in Seq(S) /\ DOMAIN (s \o t) = 1 .. n + Len(t)
      /\ \A i \in 1 .. n : (s \o t)[i] = s[i]
      /\ \A j \in 1 .. Len(t) : (s \o t)[n + j] = t[j]
  BY ConcatProperties, LenProperties
<1>2. IsFiniteSet(A) /\ IsFiniteSet(B) BY PlacesFinite
<1>3. Places(s \o t, L) = A \cup C
  <2>1. ASSUME NEW i \in Places(s \o t, L) PROVE i \in A \cup C
    <3>1. i \in 1 .. n + Len(t) /\ (s \o t)[i] \in L BY <1>1 DEF Places
    <3>2. CASE i <= n BY <1>1, <3>1, <3>2 DEF Places
    <3>3. CASE i > n
      <4>1. PICK j \in 1 .. Len(t) : i = n + j
        <5>1. i - n \in 1 .. Len(t) /\ i = n + (i - n) BY <1>1, <3>1, <3>3
        <5> QED BY <5>1
      <4>2. j \in B BY <1>1, <3>1, <4>1 DEF Places
      <4> QED BY <4>1, <4>2
    <3>4. i <= n \/ i > n BY <1>1, <3>1
    <3> HIDE DEF A, C, n
    <3> QED BY <3>2, <3>3, <3>4
  <2>2. ASSUME NEW i \in A PROVE i \in Places(s \o t, L)
    BY <1>1 DEF Places
  <2>3. ASSUME NEW j \in B PROVE n + j \in Places(s \o t, L)
    BY <1>1 DEF Places
  <2> HIDE DEF A, B, n
  <2> QED BY <2>1, <2>2, <2>3
<1>4. IsFiniteSet(C) /\ Cardinality(C) = Cardinality(B)
  <2> DEFINE f == [j \in B |-> n + j]
  <2>1. \A j \in B : j \in Nat BY <1>1 DEF Places
  <2>2. f \in Bijection(B, C)
    <3> HIDE DEF B
    <3>1. f \in [B -> C] /\ \A i, j \in B : f[i] = f[j] => i = j BY <1>1, <2>1
    <3>2. \A c \in C : \E j \in B : f[j] = c OBVIOUS
    <3> HIDE DEF f, C
    <3> QED BY <3>1, <3>2 DEF Bijection, Injection, Surjection, IsInjective
  <2> HIDE DEF B, C, f
  <2>3. ExistsBijection(B, C) BY <2>2 DEF ExistsBijection
  <2> QED BY <1>2, <2>3, FS_Bijection
<1>5. A \cap C = {}
  BY <1>1 DEF Places
<1>6. Cardinality(A \cup C) = Cardinality(A) + Cardinality(C) - Cardinality(A \cap C)
  <2> HIDE DEF A, C
  <2> QED BY <1>2, <1>4, FS_Union
<1>7. Cardinality(A) \in Nat /\ Cardinality(B) \in Nat
  <2> HIDE DEF A, B
  <2> QED BY <1>2, FS_CardinalityType
<1>8. Cardinality({}) = 0 BY FS_EmptySet
<1> HIDE DEF A, B, C, n
<1>9. Cardinality(A \cup C) = Cardinality(A) + Cardinality(B)
  <2>1. Cardinality(A \cap C) = 0 BY ONLY <1>5, <1>8
  <2>2. Cardinality(C) = Cardinality(B) BY <1>4
  <2> QED BY ONLY <1>6, <1>7, <2>1, <2>2
<1> QED BY <1>3, <1>9 DEF HowMany, A, B

-----------------------------------------------------------------------------
(* The family.                                                              *)

(* Only the end of a process changes a status.                              *)
LEMMA StatusStep ==
  ASSUME CInv, NEW p \in Procs, Step(p)
  PROVE  \/ status' = status /\ ~Stops(p)
         \/ /\ Stops(p)
            /\ \E st : status' = [status EXCEPT ![p] = st]
                       /\ \/ st = Call(p)[2] /\ Call(p)[1] \in {"exit", "_exit", "die"}
                          \/ st = "PIPE" /\ Call(p)[1] \in {"copy", "filter", "write"}
<1>1. /\ life \in [Procs -> Lives] /\ image \in [Procs -> Images \cup {"main"}]
      /\ step \in [Procs -> Nat] /\ fds \in [Procs -> [Slots -> Objects]]
  BY DEF CInv
<1>2. CASE \/ DoClose(p) \/ DoDup2(p) \/ DoPipe(p) \/ DoOpen(p) \/ DoIgnore(p) \/ DoPut(p)
           \/ DoPutFailure(p) \/ NoChildLeft(p) \/ DoReadEnd(p) \/ DoRead(p) \/ DoExec(p)
           \/ DoWrite(p) \/ DoWritePipe(p)
  <2>1. status' = status /\ life' = life
    BY <1>2 DEF DoClose, DoDup2, DoPipe, DoOpen, DoIgnore, DoPut, DoPutFailure, NoChildLeft,
       DoReadEnd, DoRead, DoExec, DoWrite, DoWritePipe
  <2> QED BY <1>1, <2>1 DEF Stops, Lives
<1>3. CASE DoFork(p)
  <2>1. status' = status /\ life' = [life EXCEPT ![Call(p)[2]] = "run"] BY <1>3 DEF DoFork, Arg
  <2> QED BY <1>1, <2>1 DEF Stops
<1>4. CASE DoWait(p)
  <2>1. status' = status /\ \E q \in Procs : life' = [life EXCEPT ![q] = "gone"]
    BY <1>4 DEF DoWait, Children
  <2> QED BY <1>1, <2>1 DEF Stops
<1>5. CASE DoExit(p) \/ DoDie(p)
  <2>1. /\ Ends(p, Call(p)[2]) /\ life[p] = "run" /\ Call(p)[1] \in {"exit", "_exit", "die"}
    BY <1>5 DEF DoExit, DoDie, Calls, Arg
  <2> QED BY <1>1, <2>1 DEF Ends, Stops, control, Closed
<1>6. CASE DoBrokenPipe(p)
  <2>1. life[p] = "run" /\ Call(p)[1] \in {"copy", "filter", "write"}
    BY <1>6 DEF DoBrokenPipe, Writing, Calls, CInv
  <2>2. CASE status' = status /\ life' = life BY <1>1, <2>1, <2>2 DEF Stops
  <2>3. CASE Ends(p, "PIPE") BY <1>1, <2>1, <2>3 DEF Ends, Stops, control, Closed
  <2> QED BY <1>6, <2>2, <2>3 DEF DoBrokenPipe
<1> QED BY <1>2, <1>3, <1>4, <1>5, <1>6 DEF Step

(* In the beginning there is the parent alone.                              *)
LEMMA FInit == Init => FInv
<1> SUFFICES ASSUME Init PROVE FInv OBVIOUS
<1>1. CInv BY CInit
<1>2. /\ life \in [Procs -> Lives] /\ life[1] = "run" /\ \A q \in Kids : life[q] = "none"
      /\ \A p \in Procs : life[p] \in {"none", "run"}
      /\ status = [p \in Procs |-> NoStatus] /\ step[1] = 1
  BY DEF Init, Kids, Procs, Lives
<1>3. Runs(ParentScript) /\ Raises(ParentScript) BY <1>1, ParentScripts DEF CInv
<1>4. \A j \in DOMAIN ParentScript : j >= 1 /\ ~(j < 1) BY <1>3 DEF Runs
<1>5. \A j \in DOMAIN ParentScript : Forks(j) => ParentScript[j][2] \in Kids
  BY <1>3 DEF Raises, Forks
<1>6. 1 \in Procs /\ Kids \subseteq Procs BY DEF Procs, Kids
<1>7. status \in [Procs -> Codes] /\ \A p \in Procs : status[p] = NoStatus
  BY <1>2 DEF Codes
<1>8. NoStatus \notin {"0", "1", "2", "3"} BY DEF NoStatus
<1> QED BY <1>2, <1>4, <1>5, <1>6, <1>7, <1>8 DEF FInv

(* A parent leaves a wait for all only when nobody is left.                 *)
LEMMA LeavesWait ==
  ASSUME CInv, NEW p \in Procs, Step(p), Alone(p), p = 1, Advances(p),
         Call(p)[1] \in {"wait", "waitall"}
  PROVE  \A q \in Kids : life[q] \in {"none", "gone"}
<1>1. CASE DoWait(p)
  <2>1. PICK q \in Procs \ {1} : life[q] = "zombie" /\ life' = [life EXCEPT ![q] = "gone"]
    BY <1>1 DEF DoWait, Children
  <2>2. life'[q] = life[q] BY <2>1 DEF Alone, Stays
  <2> QED BY <2>1, <2>2 DEF CInv
<1>2. CASE NoChildLeft(p)
  BY <1>2 DEF NoChildLeft, Children, CInv, Lives, Kids, Procs
<1>3. DoWait(p) \/ NoChildLeft(p)
  <2>1. p \notin hold BY DEF CInv
  <2>2. ~Writing(p) /\ ~Reading(p) BY <2>1 DEF Writing, Reading, Calls
  <2> QED
    BY <2>2 DEF Step, DoClose, DoDup2, DoPipe, DoOpen, DoIgnore, DoPut, DoPutFailure, DoReadEnd,
       DoRead, DoExec, DoWrite, DoWritePipe, DoBrokenPipe, DoFork, DoExit, DoDie, Calls
<1> QED BY <1>1, <1>2, <1>3

(* A fork, an end and a wait keep the family in order.                      *)
LEMMA FStep == ASSUME CInv, FInv, [Next]_vars PROVE FInv'
<1> DEFINE s == ParentScript
<1>1. job' = job
  BY Shapes DEF Next, vars
<1>2. s' = s BY <1>1, ScriptsStay
<1>3. CASE UNCHANGED vars
  <2>1. Call(1)' = Call(1) BY <1>1, <1>3, ScriptStays DEF vars, Call, Procs
  <2>2. \A j : Forks(j)' = Forks(j) /\ Waits(j)' = Waits(j) BY <1>2 DEF Forks, Waits
  <2> QED BY <1>2, <1>3, <2>1, <2>2 DEF vars, FInv
<1>4. ASSUME NEW p \in Procs, Step(p) PROVE FInv'
  <2>1. \A j : Forks(j)' = Forks(j) /\ Waits(j)' = Waits(j) BY <1>2 DEF Forks, Waits
  <2>2. Runs(s) /\ Raises(s) BY ParentScripts DEF CInv
  <2>3. /\ Call(1) = s[step[1]] /\ step[1] \in DOMAIN s /\ step[1] \in Nat
        /\ DOMAIN s \subseteq Nat
    BY <2>2, ParentIs DEF Call, CInv, Procs, Runs
  <2>4. 1 \in Procs /\ 1 \notin Kids /\ Kids \subseteq Procs /\ \A q \in Procs : q = 1 \/ q \in Kids
    BY DEF Procs, Kids
  <2>5. \A q \in Procs : \/ Stays(q) \/ Advances(q) \/ Becomes(q) \/ Stops(q)
                         \/ q # 1 /\ IsBorn(q)
                         \/ q # 1 /\ IsReaped(q)
    BY <1>4, Everyone
  <2>6. Alone(p) \/ Births \/ Burials BY <1>4, Kinds
  <2> HIDE DEF s
  <2> USE <1>1
  <2>a. /\ status \in [Procs -> Codes]
        /\ \A q \in Procs : status[q] = NoStatus <=> life[q] \in {"none", "run"}
        /\ \A q \in Kids : status[q] \notin {"2", "3"}
        /\ status[1] = "0" => Call(1)[1] = "exit" /\ Call(1)[2] = "0"
    BY DEF FInv
  <2>b. /\ \A j \in DOMAIN s : Forks(j) => (life[s[j][2]] = "none" <=> step[1] <= j)
        /\ \A q \in Kids : life[q] # "none" =>
             \E j \in DOMAIN s : Forks(j) /\ s[j][2] = q /\ j < step[1]
        /\ \A j \in DOMAIN s : Waits(j) /\ j < step[1] => \A q \in Kids : life[q] \in {"none", "gone"}
        /\ \A q \in Kids : life[q] = "gone" => \A j \in DOMAIN s : Forks(j) => j < step[1]
    BY DEF FInv, s
  <2>c. \A j \in DOMAIN s : Forks(j) <=> s[j][1] = "fork" BY DEF Forks, s
  <2>d. \A j \in DOMAIN s : Waits(j) <=> s[j][1] \in {"wait", "waitall"} BY DEF Waits, s
  <2>e. \A q \in Procs : Stops(q) => q = p /\ Alone(p)
    BY <2>4, <2>6 DEF Stops, Alone, Births, Burials, Stays, Advances, IsBorn, IsReaped
  <2>8. step'[1] = step[1] \/ step'[1] = step[1] + 1
    <3>1. ~Becomes(1) BY CallIs, <2>4 DEF Becomes, ParentCalls
    <3> QED BY <2>4, <2>5, <3>1 DEF Stays, Advances, Stops
  <2>f. \A j \in DOMAIN s : Forks(j) => s[j][2] \in Kids BY <2>2, <2>c DEF Raises
  <2>g. \A q \in Procs : life'[q] = "none" <=> life[q] = "none" /\ ~(q # 1 /\ IsBorn(q))
    BY <2>5 DEF Stays, Advances, Becomes, Stops, IsBorn, IsReaped
  <2>h. \A j \in DOMAIN s : Forks(j) /\ j = step[1] /\ step'[1] = step[1] + 1 => IsBorn(s[j][2])
    <3>1. ASSUME NEW j \in DOMAIN s, Forks(j), j = step[1], step'[1] = step[1] + 1
          PROVE  IsBorn(s[j][2])
      <4>1. Call(1)[1] = "fork" /\ Call(1)[2] = s[j][2] BY <2>3, <2>c, <3>1
      <4>2. Births
        <5>1. step'[1] # step[1] BY <2>3, <3>1
        <5>2. ~(Stays(1)) BY <5>1 DEF Stays
        <5> QED BY <2>4, <2>6, <4>1, <5>2 DEF Alone, Burials
      <4> QED BY <4>1, <4>2 DEF Births
    <3> QED BY <3>1
  <2>i. \A q \in Kids : IsBorn(q) =>
          /\ step'[1] = step[1] + 1 /\ Forks(step[1]) /\ s[step[1]][2] = q
          /\ life[q] = "none"
    <3>1. ASSUME NEW q \in Kids, IsBorn(q)
          PROVE  /\ step'[1] = step[1] + 1 /\ Forks(step[1]) /\ s[step[1]][2] = q
                 /\ life[q] = "none"
      <4>1. Call(1)[1] = "fork" /\ Call(1)[2] = q /\ life'[q] = "run" BY <3>1 DEF IsBorn
      <4>2. Forks(step[1]) /\ s[step[1]][2] = q BY <2>3, <2>c, <4>1
      <4>3. life[q] = "none" BY <2>3, <2>b, <4>2
      <4>4. Births BY <2>4, <2>6, <4>1, <4>3 DEF Alone, Burials, Stays, Stops, Advances, Becomes
      <4> QED BY <4>2, <4>3, <4>4 DEF Births, Advances
    <3> QED BY <3>1
  <2>7. /\ status' \in [Procs -> Codes]
        /\ \A q \in Procs : status'[q] = NoStatus <=> life'[q] \in {"none", "run"}
    <3>1. CASE status' = status /\ ~Stops(p)
      <4>1. ASSUME NEW q \in Procs
            PROVE  life[q] \in {"none", "run"} <=> life'[q] \in {"none", "run"}
        <5>1. ~Stops(q) BY <2>e, <3>1
        <5>2. CASE IsBorn(q) /\ q # 1 BY <2>4, <2>i, <5>2 DEF IsBorn
        <5> QED BY <2>5, <5>1, <5>2 DEF Stays, Advances, Becomes, IsReaped
      <4> QED BY <2>a, <3>1, <4>1
    <3>2. CASE Stops(p)
      <4>1. PICK st : status' = [status EXCEPT ![p] = st]
                      /\ \/ st = Call(p)[2] /\ Call(p)[1] \in {"exit", "_exit", "die"}
                         \/ st = "PIPE" /\ Call(p)[1] \in {"copy", "filter", "write"}
        BY <1>4, <3>2, StatusStep
      <4>2. WellFormed(Call(p)) BY CallIs
      <4>3. st \in Codes /\ st # NoStatus
        BY <4>1, <4>2 DEF WellFormed, Codes, NoStatus, Signals
      <4>4. \A q \in Procs \ {p} : Stays(q) BY <2>e, <3>2 DEF Alone
      <4>5. life'[p] = "zombie" BY <3>2 DEF Stops
      <4>6. \A q \in Procs \ {p} : life'[q] = life[q] /\ status'[q] = status[q]
        BY <2>a, <4>1, <4>4 DEF Stays
      <4>7. status'[p] = st /\ status' \in [Procs -> Codes] BY <2>a, <4>1, <4>3
      <4> QED BY <2>a, <4>3, <4>5, <4>6, <4>7
    <3> QED BY <1>4, <3>1, <3>2, StatusStep
  <2>9. \A j \in DOMAIN s : Forks(j) => (life'[s[j][2]] = "none" <=> step'[1] <= j)
    <3>1. SUFFICES ASSUME NEW j \in DOMAIN s, Forks(j)
                   PROVE  life'[s[j][2]] = "none" <=> step'[1] <= j
      OBVIOUS
    <3>2. s[j][2] \in Kids /\ j \in Nat BY <2>3, <2>f, <3>1
    <3>3. life[s[j][2]] = "none" <=> step[1] <= j BY <2>b, <3>1
    <3>4. CASE step'[1] = step[1] /\ ~IsBorn(s[j][2])
      BY <2>4, <2>g, <3>2, <3>3, <3>4
    <3>5. CASE IsBorn(s[j][2])
      <4>1. step'[1] = step[1] + 1 /\ Forks(step[1]) /\ s[step[1]][2] = s[j][2]
        BY <2>i, <3>2, <3>5
      <4>2. life'[s[j][2]] # "none" BY <3>5 DEF IsBorn
      <4>3. j = step[1] BY <2>2, <2>3, <2>c, <3>1, <4>1 DEF Raises
      <4> QED BY <2>3, <3>2, <4>1, <4>2, <4>3
    <3>6. CASE step'[1] = step[1] + 1 /\ ~IsBorn(s[j][2])
      <4>1. j # step[1] BY <2>h, <3>1, <3>6
      <4> QED BY <2>3, <2>4, <2>g, <3>2, <3>3, <3>6, <4>1
    <3>7. step'[1] = step[1] + 1 => step'[1] # step[1] BY <2>3
    <3> QED BY <2>8, <3>4, <3>5, <3>6
  <2>10. \A q \in Kids : life'[q] # "none" =>
          \E j \in DOMAIN s : Forks(j) /\ s[j][2] = q /\ j < step'[1]
    <3>1. SUFFICES ASSUME NEW q \in Kids, life'[q] # "none"
                   PROVE  \E j \in DOMAIN s : Forks(j) /\ s[j][2] = q /\ j < step'[1]
      OBVIOUS
    <3>2. CASE life[q] # "none" BY <2>3, <2>8, <2>b, <3>2
    <3>3. CASE IsBorn(q) BY <2>3, <2>i, <3>3
    <3> QED BY <2>4, <2>g, <3>1, <3>2, <3>3
  <2>11. \A j \in DOMAIN s : Waits(j) /\ j < step'[1] =>
           \A q \in Kids : life'[q] \in {"none", "gone"}
    <3>1. SUFFICES ASSUME NEW j \in DOMAIN s, Waits(j), j < step'[1], NEW q \in Kids
                   PROVE  life'[q] \in {"none", "gone"}
      OBVIOUS
    <3>2. j \in Nat /\ (j < step[1] \/ (j = step[1] /\ step'[1] = step[1] + 1))
      BY <2>3, <2>8, <3>1
    <3>3. ~IsBorn(q)
      <4>1. ASSUME IsBorn(q) PROVE FALSE
        <5>1. Forks(step[1]) BY <2>i, <4>1
        <5>2. step[1] < j BY <2>2, <2>3, <2>c, <2>d, <3>1, <5>1 DEF Raises
        <5> QED BY <2>3, <3>2, <5>2
      <4> QED BY <4>1
    <3>4. CASE life[q] \in {"none", "gone"}
      BY <2>4, <2>5, <3>3, <3>4 DEF Stays, Advances, Becomes, Stops, IsReaped
    <3>5. CASE j = step[1] /\ step'[1] = step[1] + 1
      <4>1. Call(1)[1] \in {"wait", "waitall"} BY <2>3, <2>d, <3>1, <3>5
      <4>2. ~Stays(1) BY <2>3, <3>5 DEF Stays
      <4>3. CASE Alone(p)
        <5>1. p = 1
          <6>1. ASSUME p # 1 PROVE Stays(1)
            <7>1. 1 \in Procs \ {p} BY <2>4, <6>1
            <7> QED BY <4>3, <7>1 DEF Alone
          <6> QED BY <4>2, <6>1
        <5>2. Advances(p)
          <6>1. ~Stops(1) BY <2>3, <3>5 DEF Stops
          <6>2. ~Becomes(1) BY <4>1 DEF Becomes
          <6> QED BY <4>2, <4>3, <5>1, <6>1, <6>2 DEF Alone
        <5>3. life[q] \in {"none", "gone"} BY <1>4, <4>1, <4>3, <5>1, <5>2, LeavesWait
        <5> QED BY <3>4, <5>3
      <4>4. CASE Births BY <4>1, <4>4 DEF Births
      <4>5. CASE Burials
        <5>1. Call(1)[1] = "wait" BY <4>2, <4>5 DEF Burials
        <5>2. \A k \in DOMAIN s : s[k][1] = "fork" => s[k][2] = 2
          BY <2>2, <2>3, <5>1 DEF Raises
        <5>3. PICK b \in Kids : IsReaped(b) BY <4>5 DEF Burials
        <5>4. life[b] # "none" /\ life'[b] = "gone" BY <5>3 DEF IsReaped
        <5>5. b = 2 BY <2>b, <2>c, <5>2, <5>4
        <5>6. CASE q = 2 BY <5>4, <5>5, <5>6
        <5>7. CASE q # 2
          <6>1. life[q] = "none" BY <2>b, <2>c, <5>2, <5>7
          <6> QED BY <3>4, <6>1
        <5> QED BY <5>6, <5>7
      <4> QED BY <2>6, <4>3, <4>4, <4>5
    <3> QED BY <2>b, <3>1, <3>2, <3>4, <3>5
  <2>12. \A q \in Kids : life'[q] = "gone" => \A j \in DOMAIN s : Forks(j) => j < step'[1]
    <3>1. SUFFICES ASSUME NEW q \in Kids, life'[q] = "gone", NEW j \in DOMAIN s, Forks(j)
                   PROVE  j < step'[1]
      OBVIOUS
    <3>2. CASE life[q] = "gone" BY <2>3, <2>8, <2>b, <3>1, <3>2
    <3>3. CASE IsReaped(q)
      <4>1. Waits(step[1]) BY <2>3, <2>d, <3>3 DEF IsReaped
      <4>2. j < step[1] BY <2>2, <2>3, <2>c, <2>d, <3>1, <4>1 DEF Raises
      <4> QED BY <2>3, <2>8, <4>2
    <3> QED BY <2>4, <2>5, <3>1, <3>2, <3>3 DEF Stays, Advances, Becomes, Stops, IsBorn
  <2>j. \/ status' = status /\ (~Stays(1) => life[1] = "run")
        \/ /\ Stops(p)
           /\ \E st : status' = [status EXCEPT ![p] = st]
                     /\ \/ st = Call(p)[2] /\ Call(p)[1] \in {"exit", "_exit", "die"}
                        \/ st = "PIPE" /\ Call(p)[1] \in {"copy", "filter", "write"}
    BY <1>4, <2>4, <2>5, StatusStep DEF Advances, Becomes, Stops
  <2>13. status'[1] = "0" => Call(1)'[1] = "exit" /\ Call(1)'[2] = "0"
    <3>1. SUFFICES ASSUME status'[1] = "0"
                   PROVE  Call(1)'[1] = "exit" /\ Call(1)'[2] = "0"
      OBVIOUS
    <3>2. ASSUME Stays(1) \/ Stops(1) PROVE Call(1)' = Call(1)
      BY <2>4, <3>2, ScriptStays DEF Stays, Stops, Call
    <3>3. CASE status'[1] = status[1]
      <4>1. life[1] # "run" BY <2>4, <2>a, <3>1, <3>3 DEF NoStatus
      <4>2. Stays(1) BY <2>4, <2>5, <4>1 DEF Advances, Becomes, Stops
      <4> QED BY <2>a, <3>1, <3>2, <3>3, <4>2
    <3>4. CASE status'[1] # status[1]
      <4>1. Stops(p) /\ \E st : status' = [status EXCEPT ![p] = st]
                     /\ \/ st = Call(p)[2] /\ Call(p)[1] \in {"exit", "_exit", "die"}
                        \/ st = "PIPE" /\ Call(p)[1] \in {"copy", "filter", "write"}
        BY <2>j, <3>4
      <4>2. p = 1 BY <2>4, <2>a, <3>4, <4>1
      <4>3. Call(1)[2] = status'[1] /\ Call(1)[1] \in {"exit", "_exit", "die"}
        BY <2>4, <2>a, <3>1, <4>1, <4>2
      <4>4. WellFormed(Call(1)) /\ Call(1)[1] \in ParentCalls BY <2>4, CallIs
      <4>5. Call(1)[1] = "exit"
        BY <3>1, <4>3, <4>4 DEF WellFormed, Signals, ParentCalls
      <4>6. Call(1)[2] = "0" BY <3>1, <4>3
      <4> QED BY <3>2, <4>1, <4>2, <4>5, <4>6
    <3> QED BY <3>3, <3>4
  <2>14. \A q \in Kids : status'[q] \notin {"2", "3"}
    <3>1. ASSUME Stops(p), p \in Kids, Call(p)[1] \in {"exit", "_exit", "die"}
          PROVE  Call(p)[2] \notin {"2", "3"}
      <4>1. step[p] \in DOMAIN Script(p) BY DEF CInv
      <4>2. CASE image[p] = "main"
        <5>1. Script(p) = ChildScript(p) BY <2>4, <3>1, <4>2 DEF Script
        <5>2. Grows(ChildScript(p)) BY <3>1, ChildScripts DEF CInv
        <5> QED BY <3>1, <4>1, <5>1, <5>2 DEF Grows, Call, ChildCalls
      <4>3. CASE image[p] # "main"
        <5>1. image[p] \in Images /\ Script(p) = CommandScript(image[p])
          BY <4>3 DEF CInv, Script
        <5>2. WellFormed(Call(p)) BY CallIs
        <5> QED BY <3>1, <4>1, <5>1, <5>2, CommandScripts DEF Call, WellFormed, Signals
      <4> QED BY <4>2, <4>3
    <3> QED BY <2>4, <2>a, <2>j, <3>1
  <2> QED BY <1>2, <2>1, <2>7, <2>9, <2>10, <2>11, <2>12, <2>13, <2>14 DEF FInv, s
<1> QED BY <1>3, <1>4 DEF Next

-----------------------------------------------------------------------------
(* What a step does to the lines.                                           *)

(* Every action does one of these things to the lines.                      *)
LEMMA Outputs ==
  ASSUME CInv, NEW p \in Procs, Step(p)
  PROVE  \/ Silent(p) \/ Forgets(p) \/ Flushes(p) \/ Sends(p)
         \/ \E l : Says(p, l)
         \/ \E q \in Kids : Copies(q) \/ Announces(q)
<1>1. /\ life \in [Procs -> Lives] /\ image \in [Procs -> Images \cup {"main"}]
      /\ step \in [Procs -> Nat] /\ fds \in [Procs -> [Slots -> Objects]]
  BY DEF CInv
<1>2. ASSUME ~DoFork(p), ~DoWait(p) PROVE Alone(p) BY <1>2, Kinds
<1>3. ASSUME Alone(p), life' = life PROVE (~Becomes(p) /\ ~Stops(p)) \/ Call(p)[1] = "exec"
  BY <1>3 DEF Becomes, Stops
<1>4. CASE \/ DoClose(p) \/ DoDup2(p) \/ DoPipe(p) \/ DoOpen(p) \/ DoIgnore(p)
           \/ NoChildLeft(p) \/ DoReadEnd(p) \/ DoRead(p)
  <2>1. UNCHANGED <<out, buffer, life>>
    BY <1>4 DEF DoClose, DoDup2, DoPipe, DoOpen, DoIgnore, NoChildLeft, DoReadEnd, DoRead
  <2>2. Call(p)[1] \in {"close", "dup2", "pipe", "open", "ignore", "waitall", "copy", "filter", "count"}
    BY <1>4 DEF DoClose, DoDup2, DoPipe, DoOpen, DoIgnore, NoChildLeft, DoReadEnd, DoRead,
       Calls, Reading
  <2>3. ~DoFork(p) BY <2>2 DEF DoFork, Calls
  <2>4. ~DoWait(p)
    <3>1. ASSUME DoWait(p) PROVE FALSE
      <4>1. \E q \in Procs : life[q] = "zombie" /\ life' = [life EXCEPT ![q] = "gone"]
        BY <3>1 DEF DoWait, Children
      <4> QED BY <1>1, <2>1, <4>1
    <3> QED BY <3>1
  <2>5. Alone(p) /\ ~Becomes(p) /\ ~Stops(p) BY <1>2, <1>3, <2>1, <2>2, <2>3, <2>4 DEF Becomes
  <2> QED BY <2>1, <2>2, <2>5 DEF Silent, Alone
<1>5. CASE DoPut(p) \/ DoPutFailure(p)
  <2>1. life' = life /\ Call(p)[1] \in {"put", "putfailure"}
    BY <1>5 DEF DoPut, DoPutFailure, Calls
  <2>2. Alone(p) BY <1>2, <2>1 DEF DoFork, DoWait, Calls
  <2>3. Advances(p)
    <3>1. step'[p] = step[p] + 1 BY <1>1, <1>5 DEF DoPut, DoPutFailure, Goes
    <3> QED BY <1>1, <2>1, <2>2, <3>1 DEF Alone, Stays, Becomes, Stops
  <2>4. CASE DoPut(p) BY <2>2, <2>3, <2>4 DEF DoPut, Says, Arg, Calls
  <2>5. CASE DoPutFailure(p)
    BY <2>1, <2>2, <2>3, <2>5 DEF DoPutFailure, Says, Silent, Calls
  <2> QED BY <1>5, <2>4, <2>5
<1>6. CASE DoExec(p)
  <2>1. Call(p)[1] = "exec" /\ life[p] = "run" /\ life' = life BY <1>6 DEF DoExec, Calls
  <2>2. Alone(p) BY <1>2, <2>1 DEF DoFork, DoWait, Calls
  <2>3. CASE Call(p)[2] \in Images
    <3>1. out' = out /\ buffer' = [buffer EXCEPT ![p] = <<>>] BY <1>6, <2>3 DEF DoExec, Arg
    <3>2. step' = [step EXCEPT ![p] = 1] /\ image' = [image EXCEPT ![p] = Call(p)[2]] /\ fds' = fds
      BY <1>6, <2>3 DEF DoExec, Arg
    <3>3. Becomes(p) BY <1>1, <2>1, <2>3, <3>2 DEF Becomes
    <3> QED BY <2>2, <3>1, <3>3 DEF Forgets
  <2>4. CASE Call(p)[2] \notin Images
    <3>1. UNCHANGED <<out, buffer>> BY <1>6, <2>4 DEF DoExec, Arg
    <3>2. ~Stops(p) /\ ~Becomes(p) BY <2>1, <2>4 DEF Stops, Becomes
    <3> QED BY <2>1, <2>2, <3>1, <3>2 DEF Silent, Alone
  <2> QED BY <2>3, <2>4
<1>7. CASE DoExit(p)
  <2>1. /\ Call(p)[1] \in {"exit", "_exit"} /\ life[p] = "run"
        /\ life' = [life EXCEPT ![p] = "zombie"]
        /\ buffer' = [buffer EXCEPT ![p] = <<>>]
        /\ out' = IF Call(p)[1] = "exit" THEN out \o buffer[p] ELSE out
    BY <1>7 DEF DoExit, Ends, Calls
  <2>2. Alone(p) BY <1>2, <2>1 DEF DoFork, DoWait, Calls
  <2>3. Stops(p) BY <1>1, <2>1, <2>2 DEF Alone, Stays, Advances, Becomes
  <2> QED BY <2>1, <2>2, <2>3 DEF Forgets, Flushes
<1>8. CASE DoDie(p)
  <2>1. /\ Call(p)[1] = "die" /\ life[p] = "run" /\ life' = [life EXCEPT ![p] = "zombie"]
        /\ buffer' = [buffer EXCEPT ![p] = <<>>] /\ out' = out
    BY <1>8 DEF DoDie, Ends, Calls
  <2>2. Alone(p) BY <1>2, <2>1 DEF DoFork, DoWait, Calls
  <2>3. Stops(p) BY <1>1, <2>1, <2>2 DEF Alone, Stays, Advances, Becomes
  <2> QED BY <2>1, <2>2, <2>3 DEF Forgets
<1>9. ASSUME Writing(p) PROVE life[p] = "run" /\ Call(p)[1] \in {"copy", "filter", "write"}
  BY <1>9 DEF Writing, CInv, Calls
<1>10. CASE DoBrokenPipe(p)
  <2>1. life[p] = "run" /\ Call(p)[1] \in {"copy", "filter", "write"}
    BY <1>9, <1>10 DEF DoBrokenPipe
  <2>2. Alone(p) BY <1>2, <2>1 DEF DoFork, DoWait, Calls
  <2>3. CASE GoesOn(p) /\ UNCHANGED <<life, buffer, out>>
    <3>1. ~Stops(p) /\ ~Becomes(p) BY <2>1, <2>3 DEF Stops, Becomes
    <3> QED BY <2>1, <2>2, <2>3, <3>1 DEF Silent, Alone
  <2>4. CASE Ends(p, "PIPE") /\ buffer' = [buffer EXCEPT ![p] = <<>>] /\ out' = out
    <3>1. life' = [life EXCEPT ![p] = "zombie"] BY <2>4 DEF Ends
    <3>2. Stops(p) BY <1>1, <2>1, <2>2, <3>1 DEF Alone, Stays, Advances, Becomes
    <3> QED BY <2>1, <2>2, <2>4, <3>2 DEF Forgets
  <2> QED BY <1>10, <2>3, <2>4 DEF DoBrokenPipe
<1>11. CASE DoWrite(p) \/ DoWritePipe(p)
  <2>1. life[p] = "run" /\ Call(p)[1] \in {"copy", "filter", "write"} /\ life' = life
    BY <1>9, <1>11 DEF DoWrite, DoWritePipe
  <2>2. Alone(p) BY <1>2, <2>1 DEF DoFork, DoWait, Calls
  <2>3. Stays(p) \/ Advances(p) BY <2>1, <2>2 DEF Alone, Stops, Becomes
  <2>4. \/ UNCHANGED <<out, buffer>>
        \/ /\ out' = Append(out, Report("block", p, NoStatus)) /\ buffer' = buffer
           /\ Target(p) = "out"
    BY <1>11 DEF DoWrite, DoWritePipe
  <2> QED BY <2>1, <2>2, <2>3, <2>4 DEF Silent, Sends
<1>12. CASE DoFork(p)
  <2>1. p = 1 /\ Births BY <1>12, Kinds
  <2>2. PICK q \in Kids : Call(1)[2] = q /\ IsBorn(q) BY <2>1 DEF Births
  <2>3. out' = out /\ buffer' = [buffer EXCEPT ![q] = buffer[1]]
    BY <1>12, <2>1, <2>2 DEF DoFork, Arg
  <2> QED BY <2>1, <2>2, <2>3 DEF Copies
<1>13. CASE DoWait(p)
  <2>1. p = 1 /\ Burials BY <1>13, Kinds
  <2>2. PICK q \in Procs : /\ q # 1 /\ life[q] = "zombie" /\ life' = [life EXCEPT ![q] = "gone"]
                           /\ Prints(p, Reports(q, status[q]))
    BY <1>13 DEF DoWait, Children
  <2>3. q \in Kids BY <2>2 DEF Procs, Kids
  <2>4. IsReaped(q)
    <3>1. PICK b \in Kids : IsReaped(b) BY <2>1 DEF Burials
    <3>2. b \in Procs BY DEF Kids, Procs
    <3>3. b = q BY <1>1, <2>2, <3>1, <3>2 DEF IsReaped
    <3> QED BY <3>1, <3>3
  <2> QED BY <2>1, <2>2, <2>3, <2>4 DEF Announces
<1> QED
  BY <1>4, <1>5, <1>6, <1>7, <1>8, <1>10, <1>11, <1>12, <1>13 DEF Step

(* The texts of the lines.                                                  *)
LEMMA SaysWhat ==
  ASSUME CInv, OInv, NEW p \in Procs, NEW l, Says(p, l)
  PROVE  l \in Entries /\ l.line \in {"header", "child", "count", "failure"}
<1>1. Call(p)[1] = "put" => Call(p)[2] \in {"header", "count", "child"}
  BY CallIs DEF WellFormed
<1>2. taken \in Nat /\ NoStatus \in Codes BY DEF OInv, Codes
<1> QED BY <1>1, <1>2 DEF Says, Line, Report, Entries, Texts

LEMMA ReportsWhat ==
  ASSUME job \in Jobs, NEW q \in Kids, NEW st \in Codes
  PROVE  /\ Reports(q, st) \in Seq(Entries)
         /\ \/ Reports(q, st) = <<>>
            \/ \E l \in Entries : Reports(q, st) = <<l>> /\ l.line \in Tell /\ l.of = q
<1>1. job.prog \in Programs BY JobAssumption
<1>2. job.prog \in {"5_12", "5_27", "5_28", "5_29"} =>
        Reports(q, st) = <<Report(IF Exited(st) THEN "exited" ELSE "killed", q, st)>>
  BY DEF Reports
<1>3. job.prog = "5_13" =>
        Reports(q, st) = IF Exited(st) THEN <<Report("done", q, NoStatus)>> ELSE <<>>
  BY DEF Reports
<1>4. job.prog \in {"5_14", "5_18A", "5_18B", "5_18C", "5_18D"} =>
        Reports(q, st) = <<Report("done", q, NoStatus)>>
  BY DEF Reports
<1>5. job.prog \in {"5_25", "5_26", "5_30"} => Reports(q, st) = <<>>
  BY DEF Reports
<1>6. q \in Nat /\ NoStatus \in Codes BY DEF Kids, Codes
<1>7. \A t \in {"exited", "killed", "done"}, s \in Codes :
        Report(t, q, s) \in Entries /\ Report(t, q, s).line = t /\ Report(t, q, s).of = q
  BY <1>6 DEF Report, Entries, Texts
<1>8. ASSUME NEW l \in Entries PROVE <<l>> \in Seq(Entries) OBVIOUS
<1>9. \/ Reports(q, st) = <<>>
      \/ \E l \in Entries : Reports(q, st) = <<l>> /\ l.line \in Tell /\ l.of = q
  <2> HIDE DEF Report
  <2> QED BY <1>1, <1>2, <1>3, <1>4, <1>5, <1>6, <1>7 DEF Programs, Tell
<1>10. Reports(q, st) \in Seq(Entries)
  <2>1. CASE Reports(q, st) = <<>>
    <3>1. <<>> \in Seq(Entries) OBVIOUS
    <3> QED BY <2>1, <3>1
  <2>2. ASSUME NEW l \in Entries, Reports(q, st) = <<l>> PROVE Reports(q, st) \in Seq(Entries)
    BY <1>8, <2>2
  <2> QED BY <1>9, <2>1, <2>2
<1> QED BY <1>9, <1>10

(* Only a read adds to what a program has kept.                             *)
LEMMA TakenStep ==
  ASSUME NEW p \in Procs, Step(p) PROVE taken' = taken \/ (taken' = taken + 1 /\ DoRead(p))
BY DEF Step, DoClose, DoDup2, DoPipe, DoOpen, DoIgnore, DoPut, DoPutFailure, DoReadEnd,
       DoRead, DoExec, DoWrite, DoWritePipe, DoBrokenPipe, DoFork, DoExit, DoDie, DoWait,
       NoChildLeft

LEMMA PrintsTyped ==
  ASSUME OInv, NEW p \in Procs, NEW ls \in Seq(Entries), Prints(p, ls)
  PROVE  /\ out' \in Seq(Entries) /\ buffer' \in [Procs -> Seq(Entries)]
         /\ \A q \in Procs \ {p} : buffer'[q] = buffer[q]
         /\ \/ out' = out \o ls /\ buffer'[p] = buffer[p]
            \/ out' = out /\ buffer'[p] = buffer[p] \o ls
<1>1. /\ out \in Seq(Entries) /\ buffer \in [Procs -> Seq(Entries)]
      /\ out \o ls \in Seq(Entries) /\ buffer[p] \o ls \in Seq(Entries)
  BY DEF OInv
<1> QED BY <1>1 DEF Prints

LEMMA OInit == Init => OInv
<1> SUFFICES ASSUME Init PROVE OInv OBVIOUS
<1>1. <<>> \in Seq(Entries) OBVIOUS
<1> QED BY <1>1 DEF Init, OInv

(* A stream is empty once its process has ended.                            *)
LEMMA OStep == ASSUME CInv, FInv, OInv, [Next]_vars PROVE OInv'
<1>1. CASE UNCHANGED vars BY <1>1 DEF vars, OInv
<1>2. ASSUME NEW p \in Procs, Step(p) PROVE OInv'
  <2>1. taken' \in Nat BY <1>2, TakenStep DEF OInv
  <2>2. /\ out \in Seq(Entries) /\ buffer \in [Procs -> Seq(Entries)]
        /\ \A q \in Procs : life[q] # "run" => buffer[q] = <<>>
    BY DEF OInv
  <2>3. 1 \in Procs /\ Kids \subseteq Procs BY DEF Procs, Kids
  <2>4. <<>> \in Seq(Entries) OBVIOUS
  <2>5. CASE Silent(p)
    <3>1. \A q \in Procs : life'[q] = life[q]
      BY <2>5 DEF Silent, Alone, Stays, Advances
    <3> QED BY <2>1, <2>2, <2>5, <3>1 DEF Silent, OInv
  <2>6. CASE Forgets(p)
    <3>1. \A q \in Procs \ {p} : life'[q] = life[q] BY <2>6 DEF Forgets, Alone, Stays
    <3> QED BY <2>1, <2>2, <2>4, <2>6, <3>1 DEF Forgets, OInv
  <2>7. CASE Flushes(p)
    <3>1. \A q \in Procs \ {p} : life'[q] = life[q] BY <2>7 DEF Flushes, Alone, Stays
    <3>2. out \o buffer[p] \in Seq(Entries) BY <2>2
    <3> QED BY <2>1, <2>2, <2>4, <2>7, <3>1, <3>2 DEF Flushes, OInv
  <2>8. CASE Sends(p)
    <3>1. \A q \in Procs : life'[q] = life[q] BY <2>8 DEF Sends, Alone, Stays, Advances
    <3>2. Report("block", p, NoStatus) \in Entries
      BY DEF Report, Entries, Codes, Procs, Texts
    <3>3. Append(out, Report("block", p, NoStatus)) \in Seq(Entries) BY <2>2, <3>2
    <3> QED BY <2>1, <2>2, <2>8, <3>1, <3>3 DEF Sends, OInv
  <2>9. ASSUME NEW l, Says(p, l) PROVE OInv'
    <3>1. \A q \in Procs : life'[q] = life[q] BY <2>9 DEF Says, Alone, Stays, Advances
    <3>2. life[p] = "run" BY <2>9 DEF Says, Advances
    <3>3. l \in Entries BY <2>9, SaysWhat
    <3>4. <<l>> \in Seq(Entries) BY <3>3
    <3>5. Prints(p, <<l>>) BY <2>9 DEF Says
    <3> HIDE DEF OInv
    <3>6. /\ out' \in Seq(Entries) /\ buffer' \in [Procs -> Seq(Entries)]
          /\ \A q \in Procs \ {p} : buffer'[q] = buffer[q]
      BY <3>4, <3>5, PrintsTyped
    <3> QED BY <2>1, <2>2, <3>1, <3>2, <3>6 DEF OInv
  <2>10. ASSUME NEW q \in Kids, Copies(q) PROVE OInv'
    <3>1. /\ \A o \in Procs \ {q} : life'[o] = life[o]
          /\ life'[q] = "run"
      <4>1. PICK b \in Kids : Call(1)[2] = b /\ \A o \in Kids \ {b} : Stays(o)
        BY <2>10 DEF Copies, Births
      <4>2. b = q BY <2>10, <4>1 DEF Copies, IsBorn
      <4>3. \A o \in Procs \ {q} : o = 1 \/ o \in Kids \ {q} BY DEF Procs, Kids
      <4>4. life'[1] = life[1] BY <2>10 DEF Copies, Births, Advances
      <4> QED BY <2>10, <4>1, <4>2, <4>3, <4>4 DEF Copies, IsBorn, Stays
    <3> QED BY <2>1, <2>2, <2>3, <2>10, <3>1 DEF Copies, OInv
  <2>11. ASSUME NEW q \in Kids, Announces(q) PROVE OInv'
    <3>1. /\ \A o \in Procs \ {q} : life'[o] = life[o]
          /\ life[q] = "zombie" /\ life[1] = "run" /\ q # 1
      <4>1. PICK b \in Kids : IsReaped(b) /\ \A o \in Kids \ {b} : Stays(o)
        BY <2>11 DEF Announces, Burials
      <4>2. b = q
        <5>1. life[q] = "zombie" /\ life'[q] = "gone" BY <2>11 DEF Announces, IsReaped
        <5> QED BY <4>1, <5>1 DEF Stays
      <4>3. \A o \in Procs \ {q} : o = 1 \/ o \in Kids \ {q} BY DEF Procs, Kids
      <4>4. life'[1] = life[1] BY <2>11 DEF Announces, Burials, Advances, Stays
      <4>5. q # 1 BY DEF Kids
      <4> QED BY <2>11, <4>1, <4>2, <4>3, <4>4, <4>5 DEF Announces, IsReaped, Stays
    <3>2. Reports(q, status[q]) \in Seq(Entries)
      <4>1. status[q] \in Codes /\ job \in Jobs BY <2>3 DEF FInv, CInv
      <4> QED BY <4>1, ReportsWhat
    <3>3. Prints(1, Reports(q, status[q])) BY <2>11 DEF Announces
    <3>4. /\ out' \in Seq(Entries) /\ buffer' \in [Procs -> Seq(Entries)]
          /\ \A o \in Procs \ {1} : buffer'[o] = buffer[o]
      BY <2>3, <3>2, <3>3, PrintsTyped
    <3>5. life'[q] = "gone" BY <2>11 DEF Announces, IsReaped
    <3>6. \A o \in Procs : life'[o] # "run" => buffer'[o] = <<>>
      BY <2>2, <2>3, <3>1, <3>4
    <3> QED BY <2>1, <3>4, <3>6 DEF OInv
  <2> QED BY <1>2, <2>5, <2>6, <2>7, <2>8, <2>9, <2>10, <2>11, Outputs
<1> QED BY <1>1, <1>2 DEF Next

-----------------------------------------------------------------------------
(* The reports.                                                             *)

(* Sequences of fewer things are sequences of more.                         *)
LEMMA SeqMore ==
  ASSUME NEW S, NEW T, S \subseteq T, NEW s \in Seq(S) PROVE s \in Seq(T)
<1>1. Len(s) \in Nat /\ DOMAIN s = 1 .. Len(s) /\ s \in [1 .. Len(s) -> S] BY LenProperties
<1>2. s \in [1 .. Len(s) -> T] BY <1>1
<1> QED BY <1>1, <1>2, SeqDef

(* Counting the lines about one child.                                      *)
LEMMA PlainCount ==
  ASSUME NEW s \in Seq(PlainEntries), NEW q PROVE HowMany(s, TellsOf(q)) = 0
<1>1. \A i \in DOMAIN s : s[i] \in PlainEntries OBVIOUS
<1>2. \A i \in DOMAIN s : s[i] \notin TellsOf(q) BY <1>1 DEF PlainEntries, TellsOf
<1> QED BY <1>2, HowManyZero

LEMMA ReportsCount ==
  ASSUME job \in Jobs, NEW q \in Kids, NEW st \in Codes, NEW o \in Kids
  PROVE  HowMany(Reports(q, st), TellsOf(o)) = IF o = q THEN Len(Reports(q, st)) ELSE 0
<1>1. CASE Reports(q, st) = <<>> BY <1>1, HowManyNone
<1>2. ASSUME NEW l \in Entries, Reports(q, st) = <<l>>, l.line \in Tell, l.of = q
      PROVE  HowMany(Reports(q, st), TellsOf(o)) = IF o = q THEN Len(Reports(q, st)) ELSE 0
  <2>1. l \in TellsOf(o) <=> o = q BY <1>2 DEF TellsOf, Entries
  <2>2. HowMany(<<l>>, TellsOf(o)) = IF l \in TellsOf(o) THEN 1 ELSE 0 BY HowManyOne
  <2> QED BY <1>2, <2>1, <2>2
<1> QED BY <1>1, <1>2, ReportsWhat

(* A child that is gone stays so, with its status; only a wait buries one.  *)
LEMMA GoneStays ==
  ASSUME CInv, FInv, NEW p \in Procs, Step(p), NEW q \in Kids
  PROVE  /\ life[q] = "gone" => life'[q] = "gone" /\ status'[q] = status[q]
         /\ life'[q] = "gone" /\ life[q] # "gone" => IsReaped(q) /\ Burials /\ status'[q] = status[q]
         /\ Alone(p) \/ Births => (life'[q] = "gone" <=> life[q] = "gone")
<1>1. /\ 1 \in Procs /\ q \in Procs /\ q # 1 /\ 1 \notin Kids BY DEF Procs, Kids
<1>2. \/ Stays(q) \/ Advances(q) \/ Becomes(q) \/ Stops(q) \/ IsBorn(q) \/ IsReaped(q)
  BY <1>1, Everyone
<1>3. IsBorn(q) => life[q] = "none"
  <2>1. ASSUME IsBorn(q) PROVE life[q] = "none"
    <3>1. /\ Call(1) = ParentScript[step[1]] /\ step[1] \in DOMAIN ParentScript
          /\ step[1] \in Nat
      BY <1>1, ParentIs DEF Call, CInv
    <3>2. Forks(step[1]) /\ ParentScript[step[1]][2] = q BY <2>1, <3>1 DEF IsBorn, Forks
    <3> QED BY <3>1, <3>2 DEF FInv
  <2> QED BY <2>1
<1>4. /\ life[q] = "gone" => life'[q] = "gone"
      /\ life'[q] = "gone" /\ life[q] # "gone" => IsReaped(q)
  BY <1>2, <1>3 DEF Stays, Advances, Becomes, Stops, IsBorn, IsReaped
<1>5. life[q] \in {"gone", "zombie"} => status'[q] = status[q]
  <2>1. status \in [Procs -> Codes] BY DEF FInv
  <2>2. CASE Stops(p)
    <3>1. life[p] = "run" BY <2>2 DEF Stops
    <3>2. PICK st : status' = [status EXCEPT ![p] = st]
      <4>1. CASE status' = status
        <5>1. status' = [status EXCEPT ![p] = status[p]] BY <2>1, <4>1
        <5> QED BY <5>1
      <4> QED BY <2>2, <4>1, StatusStep
    <3> QED BY <1>1, <2>1, <3>1, <3>2
  <2>3. CASE ~Stops(p) BY <2>3, StatusStep
  <2> QED BY <2>2, <2>3
<1>7. IsReaped(q) => life[q] = "zombie" BY DEF IsReaped
<1>8. Alone(p) \/ Births => ~IsReaped(q)
  <2>1. ASSUME IsReaped(q), Alone(p) \/ Births PROVE FALSE
    <3>1. life[q] = "zombie" /\ life'[q] = "gone" /\ Call(1)[1] \in {"wait", "waitall"}
      BY <2>1 DEF IsReaped
    <3> QED BY <1>1, <2>1, <3>1
       DEF Alone, Births, Stays, Advances, Becomes, Stops, IsBorn
  <2> QED BY <2>1
<1>9. Alone(p) \/ Births \/ Burials BY Kinds
<1> QED BY <1>4, <1>5, <1>7, <1>8, <1>9

LEMMA PrintsCount ==
  ASSUME OInv, NEW p \in Procs, NEW ls \in Seq(Entries), Prints(p, ls), NEW L
  PROVE  /\ HowMany(out', L) + HowMany(buffer'[p], L)
              = HowMany(out, L) + HowMany(buffer[p], L) + HowMany(ls, L)
         /\ HowMany(out', L) = HowMany(out, L) + HowMany(ls, L) \/ out' = out
<1>1. out \in Seq(Entries) /\ buffer[p] \in Seq(Entries) BY DEF OInv
<1>2. /\ HowMany(out \o ls, L) = HowMany(out, L) + HowMany(ls, L)
      /\ HowMany(buffer[p] \o ls, L) = HowMany(buffer[p], L) + HowMany(ls, L)
  BY <1>1, HowManyMore
<1>3. HowMany(out, L) \in Nat /\ HowMany(buffer[p], L) \in Nat /\ HowMany(ls, L) \in Nat
  BY <1>1, PlacesFinite
<1>4. CASE out' = out \o ls /\ buffer'[p] = buffer[p] BY <1>2, <1>3, <1>4
<1>5. CASE out' = out /\ buffer'[p] = buffer[p] \o ls BY <1>2, <1>3, <1>5
<1> QED BY <1>4, <1>5, PrintsTyped

LEMMA RInit == Init => RInv
<1> SUFFICES ASSUME Init PROVE RInv OBVIOUS
<1>1. \A S : <<>> \in Seq(S) OBVIOUS
<1>2. /\ out = <<>> /\ \A q \in Procs : buffer[q] = <<>>
      /\ \A q \in Kids : life[q] = "none"
  BY DEF Init, Kids, Procs
<1>3. \A q \in Kids : Said(q) = 0 /\ Due(q) = 0
  <2>1. 1 \in Procs BY DEF Procs
  <2>2. \A q : HowMany(<<>>, TellsOf(q)) = 0 BY HowManyNone
  <2> QED BY <1>2, <2>1, <2>2 DEF Said, Due
<1>4. 1 \in Procs /\ Kids \subseteq Procs BY DEF Procs, Kids
<1> QED BY <1>1, <1>2, <1>3, <1>4 DEF RInv

(* What was truthful stays so.                                              *)
LEMMA TruthStays ==
  ASSUME CInv, FInv, NEW p \in Procs, Step(p)
  PROVE  /\ TrueEntries \subseteq TrueEntries'
         /\ PlainEntries \subseteq TrueEntries /\ PlainEntries \subseteq TrueEntries'
         /\ \A q \in Kids : Alone(p) \/ Births => Due(q)' = Due(q)
<1>1. job' = job BY Shapes
<1>2. \A q, st : Reports(q, st)' = Reports(q, st) BY <1>1 DEF Reports
<1>3. \A q \in Kids : life[q] = "gone" => life'[q] = "gone" /\ status'[q] = status[q]
  BY GoneStays
<1>4. ASSUME NEW l, Truthful(l) PROVE Truthful(l)'
  <2>1. SUFFICES ASSUME l.line \in Tell
                 PROVE  l.of \in Kids /\ life'[l.of] = "gone" /\ Reports(l.of, status[l.of])' = <<l>>
    BY DEF Truthful
  <2>2. l.of \in Kids /\ life[l.of] = "gone" /\ Reports(l.of, status[l.of]) = <<l>>
    BY <1>4, <2>1 DEF Truthful
  <2>3. life'[l.of] = "gone" /\ status'[l.of] = status[l.of] BY <1>3, <2>2
  <2>4. Reports(l.of, status[l.of])' = Reports(l.of, status[l.of]) BY <1>1, <2>3 DEF Reports
  <2> QED BY <2>2, <2>3, <2>4
<1>5. TrueEntries \subseteq TrueEntries' BY <1>4 DEF TrueEntries
<1>6. PlainEntries \subseteq TrueEntries BY DEF PlainEntries, TrueEntries, Truthful
<1>7. ASSUME NEW q \in Kids, Alone(p) \/ Births PROVE Due(q)' = Due(q)
  <2>1. life'[q] = "gone" <=> life[q] = "gone" BY <1>7, GoneStays
  <2>2. life[q] = "gone" => status'[q] = status[q] BY <1>3
  <2>3. status'[q] = status[q] => Reports(q, status[q])' = Reports(q, status[q])
    BY <1>1 DEF Reports
  <2> QED BY <2>1, <2>2, <2>3 DEF Due
<1> QED BY <1>5, <1>6, <1>7

(* The parent is alive, or left with exit(), only if it was so before.      *)
LEMMA ParentWas ==
  ASSUME CInv, FInv, NEW p \in Procs, Step(p), status'[1] \in {NoStatus, "0"}
  PROVE  status[1] \in {NoStatus, "0"} /\ (Stops(1) => p = 1 /\ Call(1)[1] = "exit")
<1>1. status \in [Procs -> Codes] /\ 1 \in Procs /\ (life[1] = "run" => status[1] = NoStatus)
  BY DEF FInv, Procs
<1>2. CASE ~Stops(p)
  <2>1. status' = status BY <1>2, StatusStep
  <2>2. ~Stops(1)
    <3>1. \A q \in Procs : q = 1 \/ q \in Kids BY DEF Procs, Kids
    <3> QED
      BY <1>1, <1>2, <3>1, Kinds DEF Alone, Births, Burials, Stays, Advances, Stops
  <2> QED BY <2>1, <2>2
<1>3. CASE Stops(p) /\ p # 1
  <2>1. Alone(p)
    <3>1. p \in Kids BY <1>3 DEF Procs, Kids
    <3> QED BY <1>3, <3>1, Kinds
       DEF Births, Burials, Stays, Advances, Stops, IsBorn, IsReaped
  <2>2. Stays(1) BY <1>1, <1>3, <2>1 DEF Alone
  <2>3. status'[1] = status[1] BY <1>1, <1>3, StatusStep
  <2>4. ~Stops(1) BY <2>2 DEF Stays, Stops
  <2> QED BY <2>3, <2>4
<1>4. CASE Stops(p) /\ p = 1
  <2>1. status[1] = NoStatus BY <1>1, <1>4 DEF Stops
  <2>2. PICK st : status' = [status EXCEPT ![1] = st]
                  /\ \/ st = Call(1)[2] /\ Call(1)[1] \in {"exit", "_exit", "die"}
                     \/ st = "PIPE" /\ Call(1)[1] \in {"copy", "filter", "write"}
    BY <1>4, StatusStep
  <2>3. status'[1] = st BY <1>1, <2>2
  <2>4. WellFormed(Call(1)) /\ Call(1)[1] \in ParentCalls BY <1>1, CallIs
  <2>5. Call(1)[1] = "exit"
    BY <2>2, <2>3, <2>4 DEF WellFormed, ParentCalls, Signals, NoStatus
  <2> QED BY <1>4, <2>1, <2>5
<1> QED BY <1>2, <1>3, <1>4

(* What the parent says when it has waited is true, and stays so.           *)
LEMMA RStep == ASSUME CInv, FInv, OInv, RInv, [Next]_vars PROVE RInv'
<1>1. CASE UNCHANGED vars
  <2>1. \A q, st : Reports(q, st)' = Reports(q, st) BY <1>1 DEF Reports, vars
  <2>2. \A l : Truthful(l)' = Truthful(l) BY <1>1, <2>1 DEF Truthful, vars
  <2>3. TrueEntries' = TrueEntries BY <2>2 DEF TrueEntries
  <2>4. \A q : Said(q)' = Said(q) BY <1>1 DEF Said, vars
  <2>5. \A q : Due(q)' = Due(q) BY <1>1, <2>1 DEF Due, vars
  <2> QED BY <1>1, <2>3, <2>4, <2>5 DEF vars, RInv
<1>2. ASSUME NEW p \in Procs, Step(p) PROVE RInv'
  <2>1. 1 \in Procs /\ 1 \notin Kids /\ Kids \subseteq Procs /\ (p # 1 => p \in Kids)
    BY DEF Procs, Kids
  <2>2. /\ TrueEntries \subseteq TrueEntries'
        /\ PlainEntries \subseteq TrueEntries /\ PlainEntries \subseteq TrueEntries'
        /\ \A q \in Kids : Alone(p) \/ Births => Due(q)' = Due(q)
    BY <1>2, TruthStays
  <2>3. /\ out \in Seq(TrueEntries) /\ buffer[1] \in Seq(TrueEntries)
        /\ \A q \in Kids : buffer[q] \in Seq(PlainEntries)
        /\ status[1] \in {NoStatus, "0"} => \A q \in Kids : Said(q) = Due(q)
    BY DEF RInv
  <2>4. /\ out \in Seq(Entries) /\ \A q \in Procs : buffer[q] \in Seq(Entries)
        /\ buffer \in [Procs -> Seq(Entries)]
    BY DEF OInv
  <2>5. out \in Seq(TrueEntries') /\ buffer[1] \in Seq(TrueEntries')
    <3> HIDE DEF TrueEntries
    <3> QED BY <2>2, <2>3, SeqMore
  <2>6. /\ <<>> \in Seq(TrueEntries') /\ <<>> \in Seq(PlainEntries) OBVIOUS
  <2>7. status'[1] \in {NoStatus, "0"} =>
          status[1] \in {NoStatus, "0"} /\ (Stops(1) => p = 1 /\ Call(1)[1] = "exit")
    BY <1>2, ParentWas
  <2>8. ASSUME out' \in Seq(TrueEntries'), buffer'[1] \in Seq(TrueEntries'),
               \A q \in Kids : buffer'[q] \in Seq(PlainEntries),
               status'[1] \in {NoStatus, "0"} => \A q \in Kids : Said(q)' = Due(q)'
        PROVE  RInv'
    BY <2>8 DEF RInv, PlainEntries
  <2> HIDE DEF TrueEntries, PlainEntries
  <2>9. CASE Silent(p)
    <3>1. out' = out /\ buffer' = buffer /\ Alone(p) BY <2>9 DEF Silent
    <3>2. \A q \in Kids : Said(q)' = Said(q) BY <3>1 DEF Said
    <3> QED BY <2>2, <2>3, <2>5, <2>7, <2>8, <3>1, <3>2
  <2>10. CASE Forgets(p)
    <3>1. out' = out /\ buffer' = [buffer EXCEPT ![p] = <<>>] /\ Alone(p)
      BY <2>10 DEF Forgets
    <3>2. CASE p = 1
      <4>1. Stops(1) /\ Call(1)[1] # "exit"
        <5>1. ~Becomes(1) BY <2>1, CallIs DEF Becomes, ParentCalls
        <5> QED BY <2>10, <3>2, <5>1 DEF Forgets
      <4>2. status'[1] \notin {NoStatus, "0"} BY <2>7, <4>1
      <4>3. buffer'[1] = <<>> /\ \A q \in Kids : buffer'[q] = buffer[q]
        BY <2>1, <2>4, <3>1, <3>2
      <4> QED BY <2>3, <2>5, <2>6, <2>8, <3>1, <4>2, <4>3
    <3>3. CASE p \in Kids
      <4>1. /\ buffer'[1] = buffer[1] /\ \A q \in Kids : buffer'[q] = buffer[q] \/ buffer'[q] = <<>>
        BY <2>1, <2>4, <3>1, <3>3
      <4>2. \A q \in Kids : Said(q)' = Said(q) BY <3>1, <4>1 DEF Said
      <4> QED BY <2>2, <2>3, <2>5, <2>6, <2>7, <2>8, <3>1, <4>1, <4>2
    <3> QED BY <2>1, <3>2, <3>3
  <2>11. CASE Flushes(p)
    <3>1. /\ out' = out \o buffer[p] /\ buffer' = [buffer EXCEPT ![p] = <<>>] /\ Alone(p)
      BY <2>11 DEF Flushes
    <3>2. buffer[p] \in Seq(TrueEntries')
      <4>1. CASE p = 1 BY <2>5, <4>1
      <4>2. CASE p \in Kids BY <2>2, <2>3, <4>2, SeqMore
      <4> QED BY <2>1, <4>1, <4>2
    <3>3. out' \in Seq(TrueEntries') BY <2>5, <3>1, <3>2
    <3>4. /\ buffer'[1] \in {buffer[1], <<>>}
          /\ \A q \in Kids : buffer'[q] \in {buffer[q], <<>>}
          /\ p # 1 => buffer'[1] = buffer[1]
          /\ p = 1 => buffer'[1] = <<>>
      BY <2>1, <2>4, <3>1
    <3>5. ASSUME NEW q \in Kids PROVE Said(q)' = Said(q)
      <4>1. HowMany(out', TellsOf(q)) = HowMany(out, TellsOf(q)) + HowMany(buffer[p], TellsOf(q))
        BY <2>4, <3>1, HowManyMore
      <4>2. HowMany(<<>>, TellsOf(q)) = 0 BY HowManyNone
      <4>3. HowMany(out, TellsOf(q)) \in Nat /\ HowMany(buffer[1], TellsOf(q)) \in Nat
        BY <2>1, <2>4, PlacesFinite
      <4>4. CASE p = 1 BY <3>4, <4>1, <4>2, <4>3, <4>4 DEF Said, TellsOf
      <4>5. CASE p \in Kids
        <5>1. HowMany(buffer[p], TellsOf(q)) = 0 BY <2>3, <4>5, PlainCount
        <5> QED BY <2>1, <3>4, <4>1, <4>3, <4>5, <5>1 DEF Said, TellsOf
      <4> QED BY <2>1, <4>4, <4>5
    <3> QED BY <2>2, <2>3, <2>5, <2>6, <2>7, <2>8, <3>1, <3>3, <3>4, <3>5
  <2>12. CASE Sends(p)
    <3> DEFINE l == Report("block", p, NoStatus)
    <3>1. out' = Append(out, l) /\ buffer' = buffer /\ Alone(p) BY <2>12 DEF Sends
    <3>2. l \in PlainEntries
      BY DEF PlainEntries, Report, Entries, Texts, Tell, Codes, Procs
    <3> HIDE DEF l
    <3>3. <<l>> \in Seq(PlainEntries) /\ l \in TrueEntries' BY <2>2, <3>2
    <3>4. out' \in Seq(TrueEntries') BY <2>5, <3>1, <3>3
    <3>5. <<l>> \in Seq(Entries) /\ out' = out \o <<l>>
      BY <2>4, <3>1, <3>2 DEF PlainEntries
    <3>6. ASSUME NEW q \in Kids PROVE Said(q)' = Said(q)
      <4>1. HowMany(out', TellsOf(q)) = HowMany(out, TellsOf(q)) + HowMany(<<l>>, TellsOf(q))
        BY <2>4, <3>5, HowManyMore
      <4>2. HowMany(<<l>>, TellsOf(q)) = 0 BY <3>3, PlainCount
      <4>3. HowMany(out, TellsOf(q)) \in Nat BY <2>4, PlacesFinite
      <4> QED BY <3>1, <4>1, <4>2, <4>3 DEF Said, TellsOf
    <3> QED BY <2>2, <2>3, <2>5, <2>7, <2>8, <3>1, <3>4, <3>6
  <2>13. ASSUME NEW l, Says(p, l) PROVE RInv'
    <3>1. Prints(p, <<l>>) /\ Alone(p) BY <2>13 DEF Says
    <3>2. l \in PlainEntries BY <2>13, SaysWhat DEF PlainEntries, Tell
    <3>3. <<l>> \in Seq(PlainEntries) /\ l \in TrueEntries' BY <2>2, <3>2
    <3>4. <<l>> \in Seq(Entries) BY <3>2 DEF PlainEntries
    <3>5. /\ \A q \in Procs \ {p} : buffer'[q] = buffer[q]
          /\ \/ out' = out \o <<l>> /\ buffer'[p] = buffer[p]
             \/ out' = out /\ buffer'[p] = buffer[p] \o <<l>>
      BY <3>1, <3>4, PrintsTyped
    <3>6. out' \in Seq(TrueEntries') BY <2>5, <3>3, <3>5, SMTT(30)
    <3>7. buffer'[1] \in Seq(TrueEntries') /\ \A q \in Kids : buffer'[q] \in Seq(PlainEntries)
      <4>1. <<l>> \in Seq(TrueEntries') BY <3>3
      <4>2. /\ buffer[1] \o <<l>> \in Seq(TrueEntries')
            /\ \A q \in Kids : buffer[q] \o <<l>> \in Seq(PlainEntries)
        BY <2>3, <2>5, <3>3, <4>1
      <4> QED BY <2>1, <2>3, <2>5, <3>5, <4>2
    <3>8. ASSUME NEW q \in Kids PROVE Said(q)' = Said(q)
      <4>1. /\ HowMany(out', TellsOf(q)) + HowMany(buffer'[p], TellsOf(q))
                 = HowMany(out, TellsOf(q)) + HowMany(buffer[p], TellsOf(q))
                   + HowMany(<<l>>, TellsOf(q))
            /\ HowMany(out', TellsOf(q)) = HowMany(out, TellsOf(q)) + HowMany(<<l>>, TellsOf(q))
               \/ out' = out
        BY <3>1, <3>4, PrintsCount
      <4>2. HowMany(<<l>>, TellsOf(q)) = 0 BY <3>3, PlainCount
      <4>3. HowMany(out, TellsOf(q)) \in Nat /\ HowMany(buffer[p], TellsOf(q)) \in Nat
        BY <2>4, PlacesFinite
      <4>4. CASE p = 1 BY <4>1, <4>2, <4>3, <4>4 DEF Said, TellsOf
      <4>5. CASE p \in Kids
        <5>1. buffer'[1] = buffer[1] BY <2>1, <3>5, <4>5
        <5>2. HowMany(out', TellsOf(q)) = HowMany(out, TellsOf(q)) BY <4>1, <4>2, <4>3
        <5> QED BY <5>1, <5>2 DEF Said, TellsOf
      <4> QED BY <2>1, <4>4, <4>5
    <3> QED BY <2>2, <2>3, <2>7, <2>8, <3>1, <3>6, <3>7, <3>8
  <2>14. ASSUME NEW q \in Kids, Copies(q) PROVE RInv'
    <3>1. /\ out' = out /\ buffer' = [buffer EXCEPT ![q] = buffer[1]]
          /\ Births /\ IsBorn(q)
      BY <2>14 DEF Copies
    <3>2. \A o \in Kids : life[o] # "gone"
      <4>1. /\ Call(1) = ParentScript[step[1]] /\ step[1] \in DOMAIN ParentScript
            /\ step[1] \in Nat
        BY <2>1, ParentIs DEF Call, CInv
      <4>2. Forks(step[1]) BY <3>1, <4>1 DEF IsBorn, Forks
      <4> QED BY <4>1, <4>2 DEF FInv
    <3>3. buffer[1] \in Seq(PlainEntries)
      <4>1. TrueEntries \subseteq PlainEntries
        BY <3>2 DEF TrueEntries, PlainEntries, Truthful
      <4> QED BY <2>3, <4>1, SeqMore
    <3>4. buffer'[1] = buffer[1] /\ \A o \in Kids : buffer'[o] \in {buffer[o], buffer[1]}
      BY <2>1, <2>4, <3>1
    <3>5. \A o \in Kids : Said(o)' = Said(o) BY <3>1, <3>4 DEF Said
    <3> QED BY <2>2, <2>3, <2>5, <2>7, <2>8, <3>1, <3>3, <3>4, <3>5
  <2>15. ASSUME NEW q \in Kids, Announces(q) PROVE RInv'
    <3> DEFINE r == Reports(q, status[q])
    <3>1. Prints(1, r) /\ Burials /\ IsReaped(q) BY <2>15 DEF Announces
    <3>2. status[q] \in Codes /\ job \in Jobs BY <2>1 DEF FInv, CInv
    <3>3. /\ r \in Seq(Entries)
          /\ r = <<>> \/ \E l \in Entries : r = <<l>> /\ l.line \in Tell /\ l.of = q
      BY <3>2, ReportsWhat
    <3>4. life[q] = "zombie" /\ life'[q] = "gone" BY <3>1 DEF IsReaped
    <3>5. status'[q] = status[q] BY <1>2, <3>4, GoneStays
    <3>6. Reports(q, status[q])' = r
      <4>1. job' = job BY <1>2, Shapes
      <4> QED BY <3>5, <4>1 DEF Reports
    <3>7. r \in Seq(TrueEntries')
      <4>1. ASSUME NEW l \in Entries, r = <<l>>, l.of = q PROVE l \in TrueEntries'
        <5>1. Truthful(l)'
          BY <3>4, <3>6, <4>1 DEF Truthful
        <5> QED BY <4>1, <5>1 DEF TrueEntries
      <4> HIDE DEF r
      <4>2. \A l \in TrueEntries' : <<l>> \in Seq(TrueEntries') OBVIOUS
      <4>3. CASE r = <<>> BY <2>6, <4>3
      <4>4. ASSUME NEW l \in Entries, r = <<l>>, l.of = q PROVE r \in Seq(TrueEntries')
        BY <4>1, <4>2, <4>4
      <4> QED BY <3>3, <4>3, <4>4
    <3>8. /\ \A o \in Kids : buffer'[o] = buffer[o]
          /\ \/ out' = out \o r /\ buffer'[1] = buffer[1]
             \/ out' = out /\ buffer'[1] = buffer[1] \o r
      <4> HIDE DEF r
      <4> QED BY <2>1, <3>1, <3>3, PrintsTyped
    <3>9. \A o \in Kids : HowMany(r, TellsOf(o)) = IF o = q THEN Len(r) ELSE 0
      BY <3>2, ReportsCount
    <3>10. ASSUME NEW o \in Kids PROVE Said(o)' = Said(o) + (IF o = q THEN Len(r) ELSE 0)
      <4> HIDE DEF r
      <4>1. HowMany(out', TellsOf(o)) + HowMany(buffer'[1], TellsOf(o))
              = HowMany(out, TellsOf(o)) + HowMany(buffer[1], TellsOf(o)) + HowMany(r, TellsOf(o))
        BY <2>1, <3>1, <3>3, PrintsCount
      <4> QED BY <3>9, <4>1 DEF Said, TellsOf
    <3>11. ASSUME NEW o \in Kids, o # q PROVE Due(o)' = Due(o)
      <4>1. PICK b \in Kids : IsReaped(b) /\ \A x \in Kids \ {b} : Stays(x)
        BY <3>1 DEF Burials
      <4>2. b = q BY <3>4, <4>1 DEF Stays
      <4>3. life'[o] = life[o] BY <3>11, <4>1, <4>2 DEF Stays
      <4>4. life[o] = "gone" => status'[o] = status[o] BY <1>2, GoneStays
      <4>5. job' = job BY <1>2, Shapes
      <4>6. status'[o] = status[o] => Reports(o, status[o])' = Reports(o, status[o])
        BY <4>5 DEF Reports
      <4> QED BY <4>3, <4>4, <4>6 DEF Due
    <3>12. Due(q) = 0 /\ Due(q)' = Len(r) BY <3>4, <3>6 DEF Due
    <3>13. Len(r) \in Nat BY <3>3
    <3>14. out' \in Seq(TrueEntries') /\ buffer'[1] \in Seq(TrueEntries')
      <4> HIDE DEF r
      <4>1. out \o r \in Seq(TrueEntries') /\ buffer[1] \o r \in Seq(TrueEntries')
        BY <2>5, <3>7
      <4> QED BY <2>5, <3>8, <4>1
    <3>15. ASSUME status[1] \in {NoStatus, "0"}, NEW o \in Kids PROVE Said(o)' = Due(o)'
      <4>1. Said(o) = Due(o) BY <2>3, <3>15
      <4>2. Due(o) \in Nat \/ o # q BY <3>12
      <4> HIDE DEF r
      <4>3. CASE o = q BY <3>10, <3>12, <3>13, <4>1, <4>3
      <4>4. CASE o # q
        <5>1. Said(o) \in Nat
          <6>1. HowMany(out, TellsOf(o)) \in Nat /\ HowMany(buffer[1], TellsOf(o)) \in Nat
            BY <2>1, <2>4, PlacesFinite
          <6> QED BY <6>1 DEF Said
        <5> QED BY <3>10, <3>11, <4>1, <4>4, <5>1
      <4> QED BY <4>3, <4>4
    <3> QED BY <2>3, <2>7, <2>8, <3>8, <3>14, <3>15
  <2> QED BY <1>2, <2>9, <2>10, <2>11, <2>12, <2>13, <2>14, <2>15, Outputs
<1> QED BY <1>1, <1>2 DEF Next

(* A parent that left with exit(0) has nobody left to wait for.             *)
LEMMA AllBuried ==
  ASSUME CInv, FInv, status[1] = "0"
  PROVE  /\ \A q \in Kids : life[q] \in {"none", "gone"}
         /\ life[1] = "zombie"
         /\ Call(1)[1] = "exit" /\ Call(1)[2] = "0"
<1>1. 1 \in Procs /\ Call(1)[1] = "exit" /\ Call(1)[2] = "0" BY DEF FInv, Procs
<1>2. Call(1) = ParentScript[step[1]] /\ step[1] \in DOMAIN ParentScript BY ParentIs DEF Call
<1>3. Raises(ParentScript) BY ParentScripts DEF CInv
<1>4. \/ \E j \in DOMAIN ParentScript : j < step[1] /\ ParentScript[j][1] \in {"wait", "waitall"}
      \/ \A j \in DOMAIN ParentScript : ParentScript[j][1] # "fork"
  BY <1>1, <1>2, <1>3 DEF Raises
<1>5. \A q \in Kids : life[q] \in {"none", "gone"} BY <1>4 DEF FInv, Waits, Forks
<1>6. status[1] # NoStatus BY DEF NoStatus
<1>7. life[1] = "zombie" BY <1>1, <1>6 DEF FInv, CInv
<1> QED BY <1>1, <1>5, <1>7

(* From the invariant to what the property counts.                          *)
LEMMA ToldIs ==
  ASSUME CInv, OInv, NEW q \in Procs
  PROVE  Told(q) = Places(out, TellsOf(q)) /\ Cardinality(Told(q)) = HowMany(out, TellsOf(q))
<1>1. \A i \in DOMAIN out : out[i] \in Entries BY DEF OInv
<1>2. ASSUME NEW i \in DOMAIN out
      PROVE  out[i] \in TellsOf(q) <=> out[i].line \in Tell /\ out[i].of = q
  BY <1>1 DEF TellsOf, Entries
<1>3. Told(q) = Places(out, TellsOf(q)) BY <1>2 DEF Told, Places, Tell
<1> QED BY <1>3 DEF HowMany

(* Every child that was waited for is told of as the program does.          *)
LEMMA TellsAreTrue ==
  ASSUME CInv, FInv, OInv, RInv, status[1] = "0", NEW q \in Kids
  PROVE  /\ job.prog \in {"5_12", "5_27", "5_28", "5_29"} /\ life[q] # "none" =>
              /\ Cardinality(Told(q)) = 1
              /\ \A i \in Told(q) : /\ out[i].st = status[q]
                                    /\ out[i].line = "killed" <=> status[q] \in Signals
         /\ job.prog = "5_13" =>
              Cardinality(Told(q)) = IF status[q] \in {"0", "1"} THEN 1 ELSE 0
<1>1. life[q] \in {"none", "gone"} /\ life[1] = "zombie" BY AllBuried
<1>2. q \in Procs /\ 1 \in Procs BY DEF Procs, Kids
<1>3. Cardinality(Told(q)) = Due(q)
  <2>1. Said(q) = Due(q) BY DEF RInv
  <2>2. buffer[1] = <<>> BY <1>1, <1>2 DEF OInv
  <2>3. HowMany(<<>>, TellsOf(q)) = 0 BY HowManyNone
  <2>4. HowMany(out, TellsOf(q)) \in Nat BY PlacesFinite DEF OInv
  <2>5. Said(q) = HowMany(out, TellsOf(q)) BY <2>2, <2>3, <2>4 DEF Said
  <2> QED BY <1>2, <2>1, <2>5, ToldIs
<1>4. /\ status[q] \in Codes /\ status[q] \notin {"2", "3"}
      /\ status[q] = NoStatus <=> life[q] = "none"
  BY <1>1, <1>2 DEF FInv
<1>5. ASSUME job.prog \in {"5_12", "5_27", "5_28", "5_29"}, life[q] # "none"
      PROVE  /\ Cardinality(Told(q)) = 1
             /\ \A i \in Told(q) : /\ out[i].st = status[q]
                                   /\ out[i].line = "killed" <=> status[q] \in Signals
  <2> DEFINE r == Report(IF Exited(status[q]) THEN "exited" ELSE "killed", q, status[q])
  <2>1. Reports(q, status[q]) = <<r>> BY <1>5 DEF Reports
  <2>2. Due(q) = 1 BY <1>1, <1>5, <2>1 DEF Due
  <2>3. ASSUME NEW i \in Told(q) PROVE out[i] = r
    <3>1. i \in DOMAIN out /\ out[i].line \in Tell /\ out[i].of = q
      BY <2>3 DEF Told, Tell
    <3>2. out[i] \in TrueEntries BY <3>1 DEF RInv
    <3>3. Reports(q, status[q]) = <<out[i]>> BY <3>1, <3>2 DEF TrueEntries, Truthful
    <3> HIDE DEF r
    <3> QED BY <2>1, <3>3
  <2>4. r.st = status[q] /\ (r.line = "killed" <=> status[q] \in Signals)
    BY DEF Report, Exited
  <2> QED BY <1>3, <2>2, <2>3, <2>4
<1>6. ASSUME job.prog = "5_13"
      PROVE  Cardinality(Told(q)) = IF status[q] \in {"0", "1"} THEN 1 ELSE 0
  <2>1. CASE life[q] = "none"
    <3>1. status[q] \notin {"0", "1"} BY <1>4, <2>1 DEF NoStatus
    <3> QED BY <1>3, <2>1, <3>1 DEF Due
  <2>2. CASE life[q] = "gone"
    <3>1. Exited(status[q]) <=> status[q] \in {"0", "1"}
      BY <1>4, <2>2 DEF Exited, Codes, Signals
    <3>2. Reports(q, status[q]) =
            IF Exited(status[q]) THEN <<Report("done", q, NoStatus)>> ELSE <<>>
      BY <1>6 DEF Reports
    <3>3. Len(<<Report("done", q, NoStatus)>>) = 1 /\ Len(<<>>) = 0 OBVIOUS
    <3> HIDE DEF Report
    <3> QED BY <1>3, <2>2, <3>1, <3>2, <3>3 DEF Due
  <2> QED BY <1>1, <2>1, <2>2
<1> QED BY <1>5, <1>6

-----------------------------------------------------------------------------
(* The courses: for every job in which everybody copies, what holds of the calls*)
(* and of the descriptors at each place of them.                            *)

(* A separator is no command.                                               *)
LEMMA Differ == Separator # "cat"
BY Zenon DEF Separator

(* What fill_prog_info() finds in the two command lines of 5_26 and 5_30.   *)
LEMMA SkipOne ==
  /\ Taken(<<"cat", Separator, "cat">>) = <<"cat">>
  /\ Rest(<<"cat", Separator, "cat">>) = <<Separator, "cat">>
  /\ Taken(<<Separator, "cat", Separator, "cat">>) = <<"cat">>
  /\ Rest(<<Separator, "cat", Separator, "cat">>) = <<Separator, "cat">>
  /\ Taken(<<Separator, "cat">>) = <<"cat">>
<1> DEFINE a == <<"cat", Separator, "cat">>
           b == <<Separator, "cat", Separator, "cat">>
           c == <<Separator, "cat">>
           d == <<"cat">>
<1>1. SkipSep(a) = a /\ SkipSep(b) = a /\ SkipSep(c) = d
  <2>1. Head(a) = "cat" /\ Head(b) = Separator /\ Head(c) = Separator
        /\ Tail(b) = a /\ Tail(c) = d
    OBVIOUS
  <2> QED BY <2>1, Differ DEF SkipSep
<1>2. FirstSep(a) = 2
  <2> DEFINE seps == {i \in DOMAIN a : a[i] = Separator}
  <2>1. seps = {2}
    <3>1. DOMAIN a = {1, 2, 3} /\ a[1] = "cat" /\ a[2] = Separator /\ a[3] = "cat" OBVIOUS
    <3> HIDE DEF a
    <3> QED BY <3>1, Differ
  <2> HIDE DEF seps
  <2>2. seps # {} /\ (CHOOSE i \in seps : \A j \in seps : i <= j) = 2 BY <2>1
  <2>3. FirstSep(a) = IF seps = {} THEN Len(a) + 1 ELSE CHOOSE i \in seps : \A j \in seps : i <= j
    BY DEF FirstSep, seps
  <2> QED BY <2>2, <2>3
<1>3. FirstSep(d) = 2
  <2> DEFINE seps == {i \in DOMAIN d : d[i] = Separator}
  <2>1. seps = {}
    <3>1. DOMAIN d = {1} /\ d[1] = "cat" OBVIOUS
    <3> HIDE DEF d
    <3> QED BY <3>1, Differ
  <2>2. FirstSep(d) = IF seps = {} THEN Len(d) + 1 ELSE CHOOSE i \in seps : \A j \in seps : i <= j
    BY DEF FirstSep
  <2>3. Len(d) = 1 OBVIOUS
  <2> HIDE DEF seps, d
  <2> QED BY <2>1, <2>2, <2>3
<1>4. SubSeq(a, 1, 2 - 1) = d /\ SubSeq(a, 2, Len(a)) = c /\ SubSeq(d, 1, 2 - 1) = d
  <2>1. SubSeq(a, 1, 1) = [i \in 1 .. 1 |-> a[i]] OBVIOUS
  <2>2. SubSeq(d, 1, 1) = [i \in 1 .. 1 |-> d[i]] OBVIOUS
  <2>3. SubSeq(a, 2, 3) = [i \in 1 .. 2 |-> a[i + 1]] OBVIOUS
  <2>4. a[1] = "cat" /\ a[2] = Separator /\ a[3] = "cat" /\ Len(a) = 3 /\ d[1] = "cat" OBVIOUS
  <2>5. [i \in 1 .. 1 |-> a[i]] = d BY <2>4
  <2>6. [i \in 1 .. 2 |-> a[i + 1]] = c BY <2>4
  <2>7. [i \in 1 .. 1 |-> d[i]] = d BY <2>4
  <2> HIDE DEF a, c, d
  <2> QED BY <2>1, <2>2, <2>3, <2>4, <2>5, <2>6, <2>7
<1>5. Taken(a) = d /\ Rest(a) = c /\ Taken(b) = d /\ Rest(b) = c /\ Taken(c) = d
  <2> HIDE DEF a, b, c, d
  <2> QED BY <1>1, <1>2, <1>3, <1>4 DEF Taken, Rest
<1> QED BY <1>5

(* The first and the second member of a set of two.                         *)
LEMMA OrderedTwo ==
  ASSUME NEW S, S \subseteq Int, IsFiniteSet(S), Cardinality(S) \in {1, 2},
         NEW k \in 1 .. Cardinality(S)
  PROVE  \E i \in S : Cardinality({j \in S : j <= i}) = k
<1>0. \A T : IsFiniteSet(T) => (Cardinality(T) = 0 <=> T = {}) BY FS_EmptySet
<1>1. PICK a : a \in S
  <2>1. S # {} BY <1>0
  <2> QED BY <2>1
<1>2. IsFiniteSet(S \ {a}) /\ Cardinality(S \ {a}) = Cardinality(S) - 1
  BY <1>1, FS_RemoveElement
<1>3. CASE Cardinality(S) = 1
  <2>1. S \ {a} = {} BY <1>0, <1>2, <1>3
  <2>a. \A x : x \in S => x \in S \ {a} \/ x = a OBVIOUS
  <2>b. \A x : x \in S => x = a BY <2>1, <2>a
  <2>2. {j \in S : j <= a} = {a} BY <1>1, <2>b
  <2> QED BY <1>1, <1>3, <2>2, FS_Singleton
<1>4. CASE Cardinality(S) = 2
  <2>1. PICK b : b \in S \ {a}
    <3>1. S \ {a} # {} BY <1>0, <1>2, <1>4
    <3> QED BY <3>1
  <2>2. IsFiniteSet((S \ {a}) \ {b}) /\ Cardinality((S \ {a}) \ {b}) = 0
    BY <1>2, <1>4, <2>1, FS_RemoveElement
  <2>3. (S \ {a}) \ {b} = {} BY <1>0, <2>2
  <2>a. \A x : x \in S => x \in (S \ {a}) \ {b} \/ x = a \/ x = b OBVIOUS
  <2>b. \A x : x \in S => x = a \/ x = b BY <2>3, <2>a
  <2>4. S = {a, b} BY <1>1, <2>1, <2>b
  <2>5. ASSUME NEW x \in S, NEW y \in S, x < y, S = {x, y}
        PROVE  \E i \in S : Cardinality({j \in S : j <= i}) = k
    <3>1. {j \in S : j <= x} = {x} BY <2>5
    <3>2. {j \in S : j <= y} = S BY <2>5
    <3>3. Cardinality({x}) = 1 BY FS_Singleton
    <3>4. k = 1 \/ k = 2 BY <1>4
    <3> QED BY <1>4, <2>5, <3>1, <3>2, <3>3, <3>4
  <2> QED BY <2>1, <2>4, <2>5
<1> QED BY <1>3, <1>4

(* When everybody copies, every word names cat.                             *)
LEMMA SmoothWords ==
  ASSUME job \in Jobs, Smooth
  PROVE  /\ job.prog \in {"5_12", "5_27", "5_28", "5_29"} \cup Plain18 => job.args[1] = "cat"
         /\ job.prog \in {"5_26", "5_30"} =>
              /\ Rest(job.args) # <<>>
              /\ Command(Taken(job.args)) = "cat" /\ Command(Taken(Rest(job.args))) = "cat"
         /\ job.prog = "5_13" =>
              /\ Len(Commands13(job.args)) \in {1, 2}
              /\ \A k \in 1 .. Len(Commands13(job.args)) : Commands13(job.args)[k] = "cat"
         /\ job.prog \in {"5_18B", "5_18D"} => job.there
<1>1. ASSUME job.prog \in {"5_12", "5_27", "5_28", "5_29"} \cup Plain18 PROVE job.args[1] = "cat"
  <2>1. AllCopy => job.args = <<"cat">> BY <1>1 DEF AllCopy, Plain18
  <2> QED BY <1>1, <2>1 DEF Smooth
<1>2. job.prog \in {"5_18B", "5_18D"} => job.there BY DEF Smooth, AllCopy
<1>3. ASSUME job.prog \in {"5_26", "5_30"}
      PROVE  /\ Rest(job.args) # <<>>
             /\ Command(Taken(job.args)) = "cat" /\ Command(Taken(Rest(job.args))) = "cat"
  <2>1. job.args \in {<<"cat", Separator, "cat">>, <<Separator, "cat", Separator, "cat">>}
    BY <1>3 DEF Smooth, AllCopy
  <2>2. Command(<<"cat">>) = "cat" /\ <<Separator, "cat">> # <<>> BY DEF Command
  <2>3. Taken(job.args) = <<"cat">> /\ Rest(job.args) = <<Separator, "cat">>
    BY <2>1, SkipOne
  <2> QED BY <2>2, <2>3, SkipOne
<1>4. ASSUME job.prog = "5_13"
      PROVE  /\ Len(Commands13(job.args)) \in {1, 2}
             /\ \A k \in 1 .. Len(Commands13(job.args)) : Commands13(job.args)[k] = "cat"
  <2> DEFINE ws == job.args
             starts == {i \in DOMAIN ws : ws[i] # Separator /\ (i = 1 \/ ws[i - 1] = Separator)}
             nth == [k \in 1 .. Cardinality(starts) |->
                       CHOOSE i \in starts : Cardinality({h \in starts : h <= i}) = k]
  <2>1. /\ \A i \in DOMAIN ws : ws[i] \in {"cat", Separator}
        /\ Commands13(ws) # <<>>
    BY <1>4 DEF Smooth, AllCopy
  <2>2. ws \in Seq(Commands \cup {Separator})
    <3>1. job \in [prog : Programs, args : Seq(Commands \cup {Separator}), tty : BOOLEAN,
                 there : BOOLEAN, fails : {0, 2, 3}]
      BY JobAssumption
    <3> QED BY <3>1
  <2>3. IsFiniteSet(DOMAIN ws) /\ DOMAIN ws \subseteq Int
    <3>1. DOMAIN ws = 1 .. Len(ws) /\ Len(ws) \in Nat BY ONLY <2>2, LenProperties
    <3> QED BY ONLY <3>1, FS_Interval
  <2>4. IsFiniteSet(starts) /\ starts \subseteq Int
    <3>1. starts \subseteq DOMAIN ws OBVIOUS
    <3> QED BY <2>3, <3>1, FS_Subset
  <2>5. Cardinality(starts) \in Nat BY <2>4, FS_CardinalityType
  <2>6. Commands13(ws) = [k \in 1 .. Cardinality(starts) |-> ws[nth[k]]] BY DEF Commands13
  <2>7. Len(Commands13(ws)) = Cardinality(starts)
    <3> HIDE DEF starts, nth
    <3> QED BY <2>5, <2>6
  <2>8. Len(Commands13(ws)) <= 2 BY <1>4, CommandsAssumption
  <2>9. Cardinality(starts) \in {1, 2}
    <3> HIDE DEF starts, nth
    <3>1. Cardinality(starts) # 0
      <4>1. ASSUME Cardinality(starts) = 0 PROVE FALSE
        <5>1. Commands13(ws) = [k \in 1 .. 0 |-> ws[nth[k]]] BY <2>6, <4>1
        <5>2. Commands13(ws) = <<>> BY <5>1
        <5> QED BY <2>1, <5>2
      <4> QED BY <4>1
    <3> QED BY <2>5, <2>7, <2>8, <3>1
  <2>10. ASSUME NEW k \in 1 .. Cardinality(starts) PROVE ws[nth[k]] = "cat"
    <3>1. \E i \in starts : Cardinality({h \in starts : h <= i}) = k
      <4> HIDE DEF starts
      <4> QED BY <2>4, <2>9, <2>10, OrderedTwo
    <3>2. nth[k] \in starts
      <4> HIDE DEF starts
      <4> QED BY <2>10, <3>1
    <3>3. nth[k] \in DOMAIN ws /\ ws[nth[k]] # Separator BY <3>2
    <3> HIDE DEF nth
    <3> QED BY <2>1, <3>3
  <2> HIDE DEF starts, nth
  <2> QED BY <2>6, <2>7, <2>9, <2>10
<1> QED BY <1>1, <1>2, <1>3, <1>4

(* What the calls do to a table.                                             *)
LEMMA Closing ==
  ASSUME NEW i, NEW o, NEW a, NEW b, NEW c, NEW d, NEW e
  PROVE  /\ After(Table(i, o, a, b, c, d, e), Close("r1")) = Table(i, o, No, b, c, d, e)
         /\ After(Table(i, o, a, b, c, d, e), Close("w1")) = Table(i, o, a, No, c, d, e)
         /\ After(Table(i, o, a, b, c, d, e), Close("r2")) = Table(i, o, a, b, No, d, e)
         /\ After(Table(i, o, a, b, c, d, e), Close("w2")) = Table(i, o, a, b, c, No, e)
<1>1. After(Table(i, o, a, b, c, d, e), Close("r1")) = Table(i, o, No, b, c, d, e)
  BY DEF After, Table, Slots, No
<1>2. After(Table(i, o, a, b, c, d, e), Close("w1")) = Table(i, o, a, No, c, d, e)
  BY DEF After, Table, Slots, No
<1>3. After(Table(i, o, a, b, c, d, e), Close("r2")) = Table(i, o, a, b, No, d, e)
  BY DEF After, Table, Slots, No
<1>4. After(Table(i, o, a, b, c, d, e), Close("w2")) = Table(i, o, a, b, c, No, e)
  BY DEF After, Table, Slots, No
<1> QED BY <1>1, <1>2, <1>3, <1>4

(* dup2() and close() on a table of descriptors,                            *)
LEMMA Turning ==
  ASSUME NEW i, NEW o, NEW a, NEW b, NEW c, NEW d, NEW e
  PROVE  /\ After(Table(i, o, a, b, c, d, e), Dup2("r1", "stdin")) = Table(a, o, a, b, c, d, e)
         /\ After(Table(i, o, a, b, c, d, e), Dup2("r2", "stdin")) = Table(c, o, a, b, c, d, e)
         /\ After(Table(i, o, a, b, c, d, e), Dup2("w1", "stdout")) = Table(i, b, a, b, c, d, e)
         /\ After(Table(i, o, a, b, c, d, e), Dup2("w2", "stdout")) = Table(i, d, a, b, c, d, e)
<1>1. After(Table(i, o, a, b, c, d, e), Dup2("r1", "stdin")) = Table(a, o, a, b, c, d, e)
  BY DEF After, Table, Slots, No
<1>2. After(Table(i, o, a, b, c, d, e), Dup2("r2", "stdin")) = Table(c, o, a, b, c, d, e)
  BY DEF After, Table, Slots, No
<1>3. After(Table(i, o, a, b, c, d, e), Dup2("w1", "stdout")) = Table(i, b, a, b, c, d, e)
  BY DEF After, Table, Slots, No
<1>4. After(Table(i, o, a, b, c, d, e), Dup2("w2", "stdout")) = Table(i, d, a, b, c, d, e)
  BY DEF After, Table, Slots, No
<1> QED BY <1>1, <1>2, <1>3, <1>4

(* pipe(),                                                                  *)
LEMMA Piping ==
  ASSUME NEW i, NEW o, NEW a, NEW b, NEW c, NEW d, NEW e
  PROVE  /\ After(Table(i, o, a, b, c, d, e), MakePipe(1)) = Table(i, o, "r1", "w1", c, d, e)
         /\ After(Table(i, o, a, b, c, d, e), MakePipe(2)) = Table(i, o, a, b, "r2", "w2", e)
<1>1. After(Table(i, o, a, b, c, d, e), MakePipe(1)) = Table(i, o, "r1", "w1", c, d, e)
  BY DEF After, Table, Slots, No
<1>2. After(Table(i, o, a, b, c, d, e), MakePipe(2)) = Table(i, o, a, b, "r2", "w2", e)
  <2> DEFINE f == Table(i, o, a, b, c, d, e)
             g == [f EXCEPT !["r2"] = "r2", !["w2"] = "w2"]
  <2>1. After(f, MakePipe(2)) = g BY DEF After
  <2>2. g = [s \in Slots |-> g[s]] BY DEF Table
  <2>3. \A s \in Slots : g[s] = Table(i, o, a, b, "r2", "w2", e)[s] BY DEF Table, Slots
  <2> QED BY <2>1, <2>2, <2>3 DEF Table
<1> QED BY <1>1, <1>2

(* and what 5_18 does around its fork.                                      *)
LEMMA SavingIn ==
  ASSUME NEW i, NEW o, NEW a, NEW b, NEW c, NEW d, NEW e, NEW m
  PROVE  /\ After(Table(i, o, a, b, c, d, e), Dup2("stdin", "save")) = Table(i, o, a, b, c, d, i)
         /\ After(Table(i, o, a, b, c, d, e), Dup2("save", "stdin")) = Table(e, o, a, b, c, d, e)
         /\ After(Table(i, o, a, b, c, d, e), Open("stdin", m)) = Table(m, o, a, b, c, d, e)
         /\ After(Table(i, o, a, b, c, d, e), Close("save")) = Table(i, o, a, b, c, d, No)
<1>1. After(Table(i, o, a, b, c, d, e), Dup2("stdin", "save")) = Table(i, o, a, b, c, d, i)
  BY DEF After, Table, Slots, No
<1>2. After(Table(i, o, a, b, c, d, e), Dup2("save", "stdin")) = Table(e, o, a, b, c, d, e)
  BY DEF After, Table, Slots, No
<1>3. After(Table(i, o, a, b, c, d, e), Open("stdin", m)) = Table(m, o, a, b, c, d, e)
  BY DEF After, Table, Slots, No
<1>4. After(Table(i, o, a, b, c, d, e), Close("save")) = Table(i, o, a, b, c, d, No)
  BY DEF After, Table, Slots, No
<1> QED BY <1>1, <1>2, <1>3, <1>4

LEMMA SavingOut ==
  ASSUME NEW i, NEW o, NEW a, NEW b, NEW c, NEW d, NEW e, NEW m
  PROVE  /\ After(Table(i, o, a, b, c, d, e), Dup2("stdout", "save")) = Table(i, o, a, b, c, d, o)
         /\ After(Table(i, o, a, b, c, d, e), Dup2("save", "stdout")) = Table(i, e, a, b, c, d, e)
         /\ After(Table(i, o, a, b, c, d, e), Open("stdout", m)) = Table(i, m, a, b, c, d, e)
         /\ After(Table(i, o, a, b, c, d, e), Close("save")) = Table(i, o, a, b, c, d, No)
<1>1. After(Table(i, o, a, b, c, d, e), Dup2("stdout", "save")) = Table(i, o, a, b, c, d, o)
  BY DEF After, Table, Slots, No
<1>2. After(Table(i, o, a, b, c, d, e), Dup2("save", "stdout")) = Table(i, e, a, b, c, d, e)
  BY DEF After, Table, Slots, No
<1>3. After(Table(i, o, a, b, c, d, e), Open("stdout", m)) = Table(i, m, a, b, c, d, e)
  BY DEF After, Table, Slots, No
<1>4. After(Table(i, o, a, b, c, d, e), Close("save")) = Table(i, o, a, b, c, d, No)
  BY DEF After, Table, Slots, No
<1> QED BY <1>1, <1>2, <1>3, <1>4

LEMMA AfterSame ==
  ASSUME NEW f, NEW c, c[1] \notin {"close", "dup2", "open", "pipe"} PROVE After(f, c) = f
BY DEF After

LEMMA TableSlots ==
  ASSUME NEW i, NEW o, NEW a, NEW b, NEW c, NEW d, NEW e
  PROVE  LET t == Table(i, o, a, b, c, d, e)
         IN  /\ t["stdin"] = i /\ t["stdout"] = o /\ t["r1"] = a /\ t["w1"] = b
             /\ t["r2"] = c /\ t["w2"] = d /\ t["save"] = e
BY DEF Table, Slots

LEMMA WellRuns ==
  ASSUME NEW p, NEW c, NEW n, NEW w, NEW t, Leads(p, c, n, w, t) PROVE WellRun(p)
BY DEF WellRun, Leads

(* Every process of every program goes its course.                          *)
LEMMA Routed12 == ASSUME job \in Jobs, Smooth, job.prog = "5_12" PROVE Routed
<1>1. job.args[1] = "cat" BY SmoothWords
<1>2. /\ \A k : Holds(1, k) =
             Table("in", "out", No, No, No, No, No)
      /\ \A k : Holds(2, k) =
             Table("in", "out", No, No, No, No, No)
  BY DEF Holds
<1>3. WellRun(1)
  <2>1. PICK c : c = Course(1) OBVIOUS
  <2>2. c = <<Fork(2), Wait, Exit("0")>>
    BY <2>1, <1>1 DEF Course, FullScript, Parent12, Turn
  <2>3. Base(1) = c BY <2>1 DEF Base, Course
  <2>4. Turn(1) = 3 /\ Work(1) = 0 /\ Len(c) = 3 /\ DOMAIN c = 1 .. 3
    BY <2>1, <2>2 DEF Turn, Work, Course, Plain18
  <2>5. \A k \in DOMAIN c :
          /\ c[k][1] \in EndingCalls <=> k = 3
          /\ k = 3 => c[k][1] \in {"exit", "_exit"} /\ c[k][2] = "0"
          /\ c[k][1] \in Moves <=> k = 0
          /\ c[k][1] = "exec" => FALSE
    BY <2>2 DEF EndingCalls, Moves
  <2>7. \A k \in DOMAIN c : k # 3 => After(Holds(1, k), c[k]) = Holds(1, k + 1)
    BY <1>2, <2>2, AfterSame DEF On, No
  <2>9. Leads(1, c, 3, 0, 3)
    BY <2>1, <2>3, <2>4, <2>5, <2>7 DEF Leads
  <2> QED BY <2>9, WellRuns
<1>4. WellRun(2)
  <2>1. PICK c : c = Course(2) OBVIOUS
  <2>2. c = <<Exec("cat"), Copy("stdin", "stdout"), ExitNow("0")>>
    BY <2>1 DEF Course, Plain18
  <2>3. Base(2) = <<Exec("cat"), Exit("1")>>
    BY <1>1 DEF Base, ChildScript
  <2>4. Turn(2) = 1 /\ Work(2) = 2 /\ Len(c) = 3 /\ DOMAIN c = 1 .. 3
    BY <2>2 DEF Turn, Work, Plain18
  <2>5. \A k \in DOMAIN c :
          /\ c[k][1] \in EndingCalls <=> k = 3
          /\ k = 3 => c[k][1] \in {"exit", "_exit"} /\ c[k][2] = "0"
          /\ c[k][1] \in Moves <=> k = 2
          /\ c[k][1] = "exec" => k = 1 /\ c[k][2] = "cat"
    BY <2>2 DEF EndingCalls, Moves
  <2>6. \A k \in DOMAIN c : k <= 1 => k \in DOMAIN Base(2) /\ Base(2)[k] = c[k]
    BY <2>2, <2>3
  <2>7. \A k \in DOMAIN c : k # 3 => After(Holds(2, k), c[k]) = Holds(2, k + 1)
    BY <1>2, <2>2, AfterSame DEF On, No
  <2>8. c[1][1] = "exec" /\ c[2] = Cat[1] /\ c[3] = Cat[2]
    BY <2>2 DEF Cat, CommandScript
  <2>9. Leads(2, c, 3, 2, 1)
    BY <2>1, <2>4, <2>5, <2>6, <2>7, <2>8 DEF Leads
  <2> QED BY <2>9, WellRuns
<1>5. Crew = {1, 2} /\ Turn(1) = Len(Course(1)) BY DEF Crew, Turn, Course
<1>6. Holds(1, 1) = Table("in", "out", No, No, No, No, No) BY <1>2 DEF On, No
<1>7. /\ \A k \in DOMAIN Course(1) : Course(1)[k][1] = "fork" =>
             (k = 1 /\ Course(1)[k] = Fork(2))
      /\ 1 \in DOMAIN Course(1) /\ Course(1)[1] = Fork(2) /\ Holds(2, 1) = Holds(1, 1)
  <2>1. PICK c : c = Course(1) OBVIOUS
  <2>2. c = <<Fork(2), Wait, Exit("0")>>
    BY <1>1, <2>1 DEF Course, FullScript, Parent12
  <2> QED BY <1>2, <2>1, <2>2 DEF On, No
<1> QED BY <1>3, <1>4, <1>5, <1>6, <1>7 DEF Routed

LEMMA Routed14 == ASSUME job \in Jobs, Smooth, job.prog = "5_14" PROVE Routed
<1>1. /\ \A k : Holds(1, k) =
             Table("in", "out", No, No, No, No, No)
      /\ \A k : Holds(2, k) =
             Table("in", "out", No, No, No, No, No)
  BY DEF Holds
<1>2. WellRun(1)
  <2>1. PICK c : c = Course(1) OBVIOUS
  <2>2. c = <<Fork(2), WaitAll, Exit("0")>>
    BY <2>1 DEF Course, FullScript, Parent14, Turn
  <2>3. Base(1) = c BY <2>1 DEF Base, Course
  <2>4. Turn(1) = 3 /\ Work(1) = 0 /\ Len(c) = 3 /\ DOMAIN c = 1 .. 3
    BY <2>1, <2>2 DEF Turn, Work, Course, Plain18
  <2>5. \A k \in DOMAIN c :
          /\ c[k][1] \in EndingCalls <=> k = 3
          /\ k = 3 => c[k][1] \in {"exit", "_exit"} /\ c[k][2] = "0"
          /\ c[k][1] \in Moves <=> k = 0
          /\ c[k][1] = "exec" => FALSE
    BY <2>2 DEF EndingCalls, Moves
  <2>7. \A k \in DOMAIN c : k # 3 => After(Holds(1, k), c[k]) = Holds(1, k + 1)
    BY <1>1, <2>2, AfterSame DEF On, No
  <2>9. Leads(1, c, 3, 0, 3)
    BY <2>1, <2>3, <2>4, <2>5, <2>7 DEF Leads
  <2> QED BY <2>9, WellRuns
<1>3. WellRun(2)
  <2>1. PICK c : c = Course(2) OBVIOUS
  <2>2. c = <<Put("child"), Exit("0")>>
    BY <2>1 DEF Course, Child14
  <2>3. Base(2) = c BY <2>1 DEF Base, Course, ChildScript, Child14
  <2>4. Turn(2) = 2 /\ Work(2) = 0 /\ Len(c) = 2 /\ DOMAIN c = 1 .. 2
    BY <2>2 DEF Turn, Work, Plain18
  <2>5. \A k \in DOMAIN c :
          /\ c[k][1] \in EndingCalls <=> k = 2
          /\ k = 2 => c[k][1] \in {"exit", "_exit"} /\ c[k][2] = "0"
          /\ c[k][1] \in Moves <=> k = 0
          /\ c[k][1] = "exec" => FALSE
    BY <2>2 DEF EndingCalls, Moves
  <2>7. \A k \in DOMAIN c : k # 2 => After(Holds(2, k), c[k]) = Holds(2, k + 1)
    BY <1>1, <2>2, AfterSame DEF On, No
  <2>9. Leads(2, c, 2, 0, 2)
    BY <2>1, <2>3, <2>4, <2>5, <2>7 DEF Leads
  <2> QED BY <2>9, WellRuns
<1>4. Crew = {1, 2} /\ Turn(1) = Len(Course(1)) BY DEF Crew, Turn, Course
<1>5. Holds(1, 1) = Table("in", "out", No, No, No, No, No) BY <1>1 DEF On, No
<1>6. /\ \A k \in DOMAIN Course(1) : Course(1)[k][1] = "fork" =>
             (k = 1 /\ Course(1)[k] = Fork(2))
      /\ 1 \in DOMAIN Course(1) /\ Course(1)[1] = Fork(2) /\ Holds(2, 1) = Holds(1, 1)
  <2>1. PICK c : c = Course(1) OBVIOUS
  <2>2. c = <<Fork(2), WaitAll, Exit("0")>>
    BY <2>1 DEF Course, FullScript, Parent14
  <2> QED BY <1>1, <2>1, <2>2 DEF On, No
<1> QED BY <1>2, <1>3, <1>4, <1>5, <1>6 DEF Routed

LEMMA Routed18Out ==
  ASSUME job \in Jobs, Smooth, job.prog \in {"5_18A", "5_18C", "5_18D"} PROVE Routed
<1>1. job.args[1] = "cat" /\ (job.prog = "5_18D" => job.there) /\ job.fails = 0
  BY SmoothWords, SmoothWhole DEF Plain18
<1>2. /\ \A k : Holds(1, k) =
             Table("in", IF k \in 3 .. 4 THEN Mode18 ELSE "out", No, No, No, No, On("out", k
               \in 2 .. 5))
      /\ \A k : Holds(2, k) =
             Table("in", Mode18, No, No, No, No, "out")
  BY DEF Holds
<1>3. WellRun(1)
  <2>1. PICK c : c = Course(1) OBVIOUS
  <2>2. c = <<Dup2("stdout", "save"), Open("stdout", Mode18), Fork(2), Dup2("save", "stdout"),
          Close("save"), Wait, Exit("0")>>
    BY <2>1, <1>1 DEF Course, FullScript, Parent18, Mode18, Turn
  <2>3. Base(1) = c BY <2>1 DEF Base, Course
  <2>4. Turn(1) = 7 /\ Work(1) = 0 /\ Len(c) = 7 /\ DOMAIN c = 1 .. 7
    BY <2>1, <2>2 DEF Turn, Work, Course, Plain18
  <2>5. \A k \in DOMAIN c :
          /\ c[k][1] \in EndingCalls <=> k = 7
          /\ k = 7 => c[k][1] \in {"exit", "_exit"} /\ c[k][2] = "0"
          /\ c[k][1] \in Moves <=> k = 0
          /\ c[k][1] = "exec" => FALSE
    BY <2>2 DEF EndingCalls, Moves
  <2>7. \A k \in DOMAIN c : k # 7 => After(Holds(1, k), c[k]) = Holds(1, k + 1)
    <3>1. \A k \in 1 .. 3 : After(Holds(1, k), c[k]) = Holds(1, k + 1)
      BY <1>2, <2>2, SavingOut, AfterSame DEF On, No
    <3>2. \A k \in 4 .. 6 : After(Holds(1, k), c[k]) = Holds(1, k + 1)
      BY <1>2, <2>2, SavingOut, AfterSame DEF On, No
    <3> QED BY <2>4, <3>1, <3>2
  <2>9. Leads(1, c, 7, 0, 7)
    BY <2>1, <2>3, <2>4, <2>5, <2>7 DEF Leads
  <2> QED BY <2>9, WellRuns
<1>4. WellRun(2)
  <2>1. PICK c : c = Course(2) OBVIOUS
  <2>2. c = <<Exec("cat"), Copy("stdin", "stdout"), ExitNow("0")>>
    BY <2>1 DEF Course, Plain18
  <2>3. Base(2) = <<Exec("cat"), Exit("1")>>
    BY <1>1 DEF Base, ChildScript
  <2>4. Turn(2) = 1 /\ Work(2) = 2 /\ Len(c) = 3 /\ DOMAIN c = 1 .. 3
    BY <2>2 DEF Turn, Work, Plain18
  <2>5. \A k \in DOMAIN c :
          /\ c[k][1] \in EndingCalls <=> k = 3
          /\ k = 3 => c[k][1] \in {"exit", "_exit"} /\ c[k][2] = "0"
          /\ c[k][1] \in Moves <=> k = 2
          /\ c[k][1] = "exec" => k = 1 /\ c[k][2] = "cat"
    BY <2>2 DEF EndingCalls, Moves
  <2>6. \A k \in DOMAIN c : k <= 1 => k \in DOMAIN Base(2) /\ Base(2)[k] = c[k]
    BY <2>2, <2>3
  <2>7. \A k \in DOMAIN c : k # 3 => After(Holds(2, k), c[k]) = Holds(2, k + 1)
    BY <1>2, <2>2, AfterSame DEF On, No
  <2>8. c[1][1] = "exec" /\ c[2] = Cat[1] /\ c[3] = Cat[2]
    BY <2>2 DEF Cat, CommandScript
  <2>9. Leads(2, c, 3, 2, 1)
    BY <2>1, <2>4, <2>5, <2>6, <2>7, <2>8 DEF Leads
  <2> QED BY <2>9, WellRuns
<1>5. Crew = {1, 2} /\ Turn(1) = Len(Course(1)) BY DEF Crew, Turn, Course
<1>6. Holds(1, 1) = Table("in", "out", No, No, No, No, No) BY <1>2 DEF On, No
<1>7. /\ \A k \in DOMAIN Course(1) : Course(1)[k][1] = "fork" =>
             (k = 3 /\ Course(1)[k] = Fork(2))
      /\ 3 \in DOMAIN Course(1) /\ Course(1)[3] = Fork(2) /\ Holds(2, 1) = Holds(1, 3)
  <2>1. PICK c : c = Course(1) OBVIOUS
  <2>2. c = <<Dup2("stdout", "save"), Open("stdout", Mode18), Fork(2), Dup2("save", "stdout"),
          Close("save"), Wait, Exit("0")>>
    BY <1>1, <2>1 DEF Course, FullScript, Parent18, Mode18
  <2> QED BY <1>2, <2>1, <2>2 DEF On, No
<1> QED BY <1>3, <1>4, <1>5, <1>6, <1>7 DEF Routed

LEMMA Routed18In == ASSUME job \in Jobs, Smooth, job.prog = "5_18B" PROVE Routed
<1>1. job.args[1] = "cat" /\ job.there /\ job.fails = 0
  BY SmoothWords, SmoothWhole DEF Plain18
<1>2. /\ \A k : Holds(1, k) =
             Table(IF k \in 3 .. 4 THEN "read" ELSE "in", "out", No, No, No, No, On("in", k
               \in 2 .. 5))
      /\ \A k : Holds(2, k) =
             Table("read", "out", No, No, No, No, "in")
  BY DEF Holds
<1>3. WellRun(1)
  <2>1. PICK c : c = Course(1) OBVIOUS
  <2>2. c = <<Dup2("stdin", "save"), Open("stdin", "read"), Fork(2), Dup2("save", "stdin"),
          Close("save"), Wait, Exit("0")>>
    BY <2>1, <1>1 DEF Course, FullScript, Parent18, Turn
  <2>3. Base(1) = c BY <2>1 DEF Base, Course
  <2>4. Turn(1) = 7 /\ Work(1) = 0 /\ Len(c) = 7 /\ DOMAIN c = 1 .. 7
    BY <2>1, <2>2 DEF Turn, Work, Course, Plain18
  <2>5. \A k \in DOMAIN c :
          /\ c[k][1] \in EndingCalls <=> k = 7
          /\ k = 7 => c[k][1] \in {"exit", "_exit"} /\ c[k][2] = "0"
          /\ c[k][1] \in Moves <=> k = 0
          /\ c[k][1] = "exec" => FALSE
    BY <2>2 DEF EndingCalls, Moves
  <2>7. \A k \in DOMAIN c : k # 7 => After(Holds(1, k), c[k]) = Holds(1, k + 1)
    <3>1. \A k \in 1 .. 3 : After(Holds(1, k), c[k]) = Holds(1, k + 1)
      BY <1>2, <2>2, SavingIn, AfterSame DEF On, No
    <3>2. \A k \in 4 .. 6 : After(Holds(1, k), c[k]) = Holds(1, k + 1)
      BY <1>2, <2>2, SavingIn, AfterSame DEF On, No
    <3> QED BY <2>4, <3>1, <3>2
  <2>9. Leads(1, c, 7, 0, 7)
    BY <2>1, <2>3, <2>4, <2>5, <2>7 DEF Leads
  <2> QED BY <2>9, WellRuns
<1>4. WellRun(2)
  <2>1. PICK c : c = Course(2) OBVIOUS
  <2>2. c = <<Exec("cat"), Copy("stdin", "stdout"), ExitNow("0")>>
    BY <2>1 DEF Course, Plain18
  <2>3. Base(2) = <<Exec("cat"), Exit("1")>>
    BY <1>1 DEF Base, ChildScript
  <2>4. Turn(2) = 1 /\ Work(2) = 2 /\ Len(c) = 3 /\ DOMAIN c = 1 .. 3
    BY <2>2 DEF Turn, Work, Plain18
  <2>5. \A k \in DOMAIN c :
          /\ c[k][1] \in EndingCalls <=> k = 3
          /\ k = 3 => c[k][1] \in {"exit", "_exit"} /\ c[k][2] = "0"
          /\ c[k][1] \in Moves <=> k = 2
          /\ c[k][1] = "exec" => k = 1 /\ c[k][2] = "cat"
    BY <2>2 DEF EndingCalls, Moves
  <2>6. \A k \in DOMAIN c : k <= 1 => k \in DOMAIN Base(2) /\ Base(2)[k] = c[k]
    BY <2>2, <2>3
  <2>7. \A k \in DOMAIN c : k # 3 => After(Holds(2, k), c[k]) = Holds(2, k + 1)
    BY <1>2, <2>2, AfterSame DEF On, No
  <2>8. c[1][1] = "exec" /\ c[2] = Cat[1] /\ c[3] = Cat[2]
    BY <2>2 DEF Cat, CommandScript
  <2>9. Leads(2, c, 3, 2, 1)
    BY <2>1, <2>4, <2>5, <2>6, <2>7, <2>8 DEF Leads
  <2> QED BY <2>9, WellRuns
<1>5. Crew = {1, 2} /\ Turn(1) = Len(Course(1)) BY DEF Crew, Turn, Course
<1>6. Holds(1, 1) = Table("in", "out", No, No, No, No, No) BY <1>2 DEF On, No
<1>7. /\ \A k \in DOMAIN Course(1) : Course(1)[k][1] = "fork" =>
             (k = 3 /\ Course(1)[k] = Fork(2))
      /\ 3 \in DOMAIN Course(1) /\ Course(1)[3] = Fork(2) /\ Holds(2, 1) = Holds(1, 3)
  <2>1. PICK c : c = Course(1) OBVIOUS
  <2>2. c = <<Dup2("stdin", "save"), Open("stdin", "read"), Fork(2), Dup2("save", "stdin"),
          Close("save"), Wait, Exit("0")>>
    BY <1>1, <2>1 DEF Course, FullScript, Parent18
  <2> QED BY <1>2, <2>1, <2>2 DEF On, No
<1> QED BY <1>3, <1>4, <1>5, <1>6, <1>7 DEF Routed

LEMMA Routed25 == ASSUME job \in Jobs, Smooth, job.prog = "5_25" PROVE Routed
<1>1. /\ \A k : Holds(1, k) =
             Table("in", "out", On("r1", k \in 2 .. 6), On("w1", k \in 2 .. 4), No, No, No)
      /\ \A k : Holds(2, k) =
             Table("in", "out", On("r1", k <= 1), On("w1", k <= 3), No, No, No)
  BY DEF Holds
<1>2. WellRun(1)
  <2>1. PICK c : c = Course(1) OBVIOUS
  <2>2. c = <<MakePipe(1), Put("header"), Fork(2), Close("w1"), Copy("r1", "stdout"),
          Close("r1"), Wait, Exit("0")>>
    BY <2>1 DEF Course, FullScript, Parent25, Turn
  <2>3. Base(1) = c BY <2>1 DEF Base, Course
  <2>4. Turn(1) = 8 /\ Work(1) = 5 /\ Len(c) = 8 /\ DOMAIN c = 1 .. 8
    BY <2>1, <2>2 DEF Turn, Work, Course, Plain18
  <2>5. \A k \in DOMAIN c :
          /\ c[k][1] \in EndingCalls <=> k = 8
          /\ k = 8 => c[k][1] \in {"exit", "_exit"} /\ c[k][2] = "0"
          /\ c[k][1] \in Moves <=> k = 5
          /\ c[k][1] = "exec" => FALSE
    BY <2>2 DEF EndingCalls, Moves
  <2>7. \A k \in DOMAIN c : k # 8 => After(Holds(1, k), c[k]) = Holds(1, k + 1)
    <3>1. \A k \in 1 .. 3 : After(Holds(1, k), c[k]) = Holds(1, k + 1)
      BY <1>1, <2>2, Piping, AfterSame DEF On, No
    <3>2. \A k \in 4 .. 6 : After(Holds(1, k), c[k]) = Holds(1, k + 1)
      BY <1>1, <2>2, Closing, AfterSame DEF On, No
    <3>3. \A k \in 7 .. 7 : After(Holds(1, k), c[k]) = Holds(1, k + 1)
      BY <1>1, <2>2, AfterSame DEF On, No
    <3> QED BY <2>4, <3>1, <3>2, <3>3
  <2>9. Leads(1, c, 8, 5, 8)
    BY <2>1, <2>3, <2>4, <2>5, <2>7 DEF Leads
  <2> QED BY <2>9, WellRuns
<1>3. WellRun(2)
  <2>1. PICK c : c = Course(2) OBVIOUS
  <2>2. c = <<Close("r1"), Write("w1", 1), Close("w1"), Exit("0")>>
    BY <2>1 DEF Course, Child25
  <2>3. Base(2) = c BY <2>1 DEF Base, Course, ChildScript, Child25
  <2>4. Turn(2) = 4 /\ Work(2) = 2 /\ Len(c) = 4 /\ DOMAIN c = 1 .. 4
    BY <2>2 DEF Turn, Work, Plain18
  <2>5. \A k \in DOMAIN c :
          /\ c[k][1] \in EndingCalls <=> k = 4
          /\ k = 4 => c[k][1] \in {"exit", "_exit"} /\ c[k][2] = "0"
          /\ c[k][1] \in Moves <=> k = 2
          /\ c[k][1] = "exec" => FALSE
    BY <2>2 DEF EndingCalls, Moves
  <2>7. \A k \in DOMAIN c : k # 4 => After(Holds(2, k), c[k]) = Holds(2, k + 1)
    BY <1>1, <2>2, Closing, AfterSame DEF On, No
  <2>9. Leads(2, c, 4, 2, 4)
    BY <2>1, <2>3, <2>4, <2>5, <2>7 DEF Leads
  <2> QED BY <2>9, WellRuns
<1>4. Crew = {1, 2} /\ Turn(1) = Len(Course(1)) BY DEF Crew, Turn, Course
<1>5. Holds(1, 1) = Table("in", "out", No, No, No, No, No) BY <1>1 DEF On, No
<1>6. /\ \A k \in DOMAIN Course(1) : Course(1)[k][1] = "fork" =>
             (k = 3 /\ Course(1)[k] = Fork(2))
      /\ 3 \in DOMAIN Course(1) /\ Course(1)[3] = Fork(2) /\ Holds(2, 1) = Holds(1, 3)
  <2>1. PICK c : c = Course(1) OBVIOUS
  <2>2. c = <<MakePipe(1), Put("header"), Fork(2), Close("w1"), Copy("r1", "stdout"),
          Close("r1"), Wait, Exit("0")>>
    BY <2>1 DEF Course, FullScript, Parent25
  <2> QED BY <1>1, <2>1, <2>2 DEF On, No
<1> QED BY <1>2, <1>3, <1>4, <1>5, <1>6 DEF Routed

LEMMA Routed26 == ASSUME job \in Jobs, Smooth, job.prog = "5_26" PROVE Routed
<1>1. /\ Rest(job.args) # <<>>
      /\ Command(Taken(job.args)) = "cat" /\ Command(Taken(Rest(job.args))) = "cat"
  BY SmoothWords
<1>2. /\ \A k : Holds(1, k) =
             Table("in", "out", On("r1", k \in 2 .. 4), On("w1", k \in 2 .. 5), No, No, No)
      /\ \A k : Holds(2, k) =
             Table("in", IF k <= 1 THEN "out" ELSE "w1", On("r1", k <= 2), On("w1", k <= 3),
               No, No, No)
      /\ \A k : Holds(3, k) =
             Table(IF k <= 1 THEN "in" ELSE "r1", "out", On("r1", k <= 2), On("w1", k <= 3),
               No, No, No)
  BY DEF Holds
<1>3. WellRun(1)
  <2>1. PICK c : c = Course(1) OBVIOUS
  <2>2. c = <<MakePipe(1), Fork(2), Fork(3), Close("r1"), Close("w1"), WaitAll, Exit("0")>>
    BY <2>1, <1>1 DEF Course, FullScript, Parent26, Turn
  <2>3. Base(1) = c BY <2>1 DEF Base, Course
  <2>4. Turn(1) = 7 /\ Work(1) = 0 /\ Len(c) = 7 /\ DOMAIN c = 1 .. 7
    BY <2>1, <2>2 DEF Turn, Work, Course, Plain18
  <2>5. \A k \in DOMAIN c :
          /\ c[k][1] \in EndingCalls <=> k = 7
          /\ k = 7 => c[k][1] \in {"exit", "_exit"} /\ c[k][2] = "0"
          /\ c[k][1] \in Moves <=> k = 0
          /\ c[k][1] = "exec" => FALSE
    BY <2>2 DEF EndingCalls, Moves
  <2>7. \A k \in DOMAIN c : k # 7 => After(Holds(1, k), c[k]) = Holds(1, k + 1)
    <3>1. \A k \in 1 .. 3 : After(Holds(1, k), c[k]) = Holds(1, k + 1)
      BY <1>2, <2>2, Piping, AfterSame DEF On, No
    <3>2. \A k \in 4 .. 6 : After(Holds(1, k), c[k]) = Holds(1, k + 1)
      BY <1>2, <2>2, Closing, AfterSame DEF On, No
    <3> QED BY <2>4, <3>1, <3>2
  <2>9. Leads(1, c, 7, 0, 7)
    BY <2>1, <2>3, <2>4, <2>5, <2>7 DEF Leads
  <2> QED BY <2>9, WellRuns
<1>4. WellRun(2)
  <2>1. PICK c : c = Course(2) OBVIOUS
  <2>2. c = <<Dup2("w1", "stdout"), Close("r1"), Close("w1"), Exec("cat"), Copy("stdin",
          "stdout"), ExitNow("0")>>
    BY <2>1 DEF Course
  <2>3. Base(2) = <<Dup2("w1", "stdout"), Close("r1"), Close("w1"), Exec("cat"), Exit("1")>>
    BY <1>1 DEF Base, ChildScript, Child26
  <2>4. Turn(2) = 4 /\ Work(2) = 5 /\ Len(c) = 6 /\ DOMAIN c = 1 .. 6
    BY <2>2 DEF Turn, Work, Plain18
  <2>5. \A k \in DOMAIN c :
          /\ c[k][1] \in EndingCalls <=> k = 6
          /\ k = 6 => c[k][1] \in {"exit", "_exit"} /\ c[k][2] = "0"
          /\ c[k][1] \in Moves <=> k = 5
          /\ c[k][1] = "exec" => k = 4 /\ c[k][2] = "cat"
    BY <2>2 DEF EndingCalls, Moves
  <2>6. \A k \in DOMAIN c : k <= 4 => k \in DOMAIN Base(2) /\ Base(2)[k] = c[k]
    BY <2>2, <2>3
  <2>7. \A k \in DOMAIN c : k # 6 => After(Holds(2, k), c[k]) = Holds(2, k + 1)
    <3>1. \A k \in 1 .. 3 : After(Holds(2, k), c[k]) = Holds(2, k + 1)
      BY <1>2, <2>2, Turning, Closing DEF On, No
    <3>2. \A k \in 4 .. 5 : After(Holds(2, k), c[k]) = Holds(2, k + 1)
      BY <1>2, <2>2, AfterSame DEF On, No
    <3> QED BY <2>4, <3>1, <3>2
  <2>8. c[4][1] = "exec" /\ c[5] = Cat[1] /\ c[6] = Cat[2]
    BY <2>2 DEF Cat, CommandScript
  <2>9. Leads(2, c, 6, 5, 4)
    BY <2>1, <2>4, <2>5, <2>6, <2>7, <2>8 DEF Leads
  <2> QED BY <2>9, WellRuns
<1>5. WellRun(3)
  <2>1. PICK c : c = Course(3) OBVIOUS
  <2>2. c = <<Dup2("r1", "stdin"), Close("r1"), Close("w1"), Exec("cat"), Copy("stdin",
          "stdout"), ExitNow("0")>>
    BY <2>1 DEF Course
  <2>3. Base(3) = <<Dup2("r1", "stdin"), Close("r1"), Close("w1"), Exec("cat"), Exit("1")>>
    BY <1>1 DEF Base, ChildScript, Child26
  <2>4. Turn(3) = 4 /\ Work(3) = 5 /\ Len(c) = 6 /\ DOMAIN c = 1 .. 6
    BY <2>2 DEF Turn, Work, Plain18
  <2>5. \A k \in DOMAIN c :
          /\ c[k][1] \in EndingCalls <=> k = 6
          /\ k = 6 => c[k][1] \in {"exit", "_exit"} /\ c[k][2] = "0"
          /\ c[k][1] \in Moves <=> k = 5
          /\ c[k][1] = "exec" => k = 4 /\ c[k][2] = "cat"
    BY <2>2 DEF EndingCalls, Moves
  <2>6. \A k \in DOMAIN c : k <= 4 => k \in DOMAIN Base(3) /\ Base(3)[k] = c[k]
    BY <2>2, <2>3
  <2>7. \A k \in DOMAIN c : k # 6 => After(Holds(3, k), c[k]) = Holds(3, k + 1)
    <3>1. \A k \in 1 .. 3 : After(Holds(3, k), c[k]) = Holds(3, k + 1)
      BY <1>2, <2>2, Turning, Closing DEF On, No
    <3>2. \A k \in 4 .. 5 : After(Holds(3, k), c[k]) = Holds(3, k + 1)
      BY <1>2, <2>2, AfterSame DEF On, No
    <3> QED BY <2>4, <3>1, <3>2
  <2>8. c[4][1] = "exec" /\ c[5] = Cat[1] /\ c[6] = Cat[2]
    BY <2>2 DEF Cat, CommandScript
  <2>9. Leads(3, c, 6, 5, 4)
    BY <2>1, <2>4, <2>5, <2>6, <2>7, <2>8 DEF Leads
  <2> QED BY <2>9, WellRuns
<1>6. Crew = {1, 2, 3} /\ Turn(1) = Len(Course(1)) BY DEF Crew, Turn, Course
<1>7. Holds(1, 1) = Table("in", "out", No, No, No, No, No) BY <1>2 DEF On, No
<1>8. /\ \A k \in DOMAIN Course(1) : Course(1)[k][1] = "fork" =>
             (k = 2 /\ Course(1)[k] = Fork(2)) \/ (k = 3 /\ Course(1)[k] = Fork(3))
      /\ 2 \in DOMAIN Course(1) /\ Course(1)[2] = Fork(2) /\ Holds(2, 1) = Holds(1, 2)
      /\ 3 \in DOMAIN Course(1) /\ Course(1)[3] = Fork(3) /\ Holds(3, 1) = Holds(1, 3)
  <2>1. PICK c : c = Course(1) OBVIOUS
  <2>2. c = <<MakePipe(1), Fork(2), Fork(3), Close("r1"), Close("w1"), WaitAll, Exit("0")>>
    BY <1>1, <2>1 DEF Course, FullScript, Parent26
  <2> QED BY <1>2, <2>1, <2>2 DEF On, No
<1> QED BY <1>3, <1>4, <1>5, <1>6, <1>7, <1>8 DEF Routed

LEMMA Routed27 == ASSUME job \in Jobs, Smooth, job.prog = "5_27" PROVE Routed
<1>1. job.args[1] = "cat" BY SmoothWords
<1>2. /\ \A k : Holds(1, k) =
             Table("in", "out", On("r1", k \in 2 .. 3), On("w1", k \in 2 .. 6), No, No, No)
      /\ \A k : Holds(2, k) =
             Table(IF k <= 1 THEN "in" ELSE "r1", "out", On("r1", k <= 2), On("w1", k <= 3),
               No, No, No)
  BY DEF Holds
<1>3. WellRun(1)
  <2>1. PICK c : c = Course(1) OBVIOUS
  <2>2. c = <<MakePipe(1), Fork(2), Close("r1"), IgnorePipe, Write("w1", Numbers), Close("w1"),
          PutFailure, Close("w1"), Wait, Exit("0")>>
    BY <2>1, <1>1 DEF Course, FullScript, Parent27, Turn
  <2>3. Base(1) = c BY <2>1 DEF Base, Course
  <2>4. Turn(1) = 10 /\ Work(1) = 5 /\ Len(c) = 10 /\ DOMAIN c = 1 .. 10
    BY <2>1, <2>2 DEF Turn, Work, Course, Plain18
  <2>5. \A k \in DOMAIN c :
          /\ c[k][1] \in EndingCalls <=> k = 10
          /\ k = 10 => c[k][1] \in {"exit", "_exit"} /\ c[k][2] = "0"
          /\ c[k][1] \in Moves <=> k = 5
          /\ c[k][1] = "exec" => FALSE
    BY <2>2 DEF EndingCalls, Moves
  <2>7. \A k \in DOMAIN c : k # 10 => After(Holds(1, k), c[k]) = Holds(1, k + 1)
    <3>1. \A k \in 1 .. 3 : After(Holds(1, k), c[k]) = Holds(1, k + 1)
      BY <1>2, <2>2, Piping, AfterSame, Closing DEF On, No
    <3>2. \A k \in 4 .. 6 : After(Holds(1, k), c[k]) = Holds(1, k + 1)
      BY <1>2, <2>2, AfterSame, Closing DEF On, No
    <3>3. \A k \in 7 .. 9 : After(Holds(1, k), c[k]) = Holds(1, k + 1)
      BY <1>2, <2>2, AfterSame, Closing DEF On, No
    <3> QED BY <2>4, <3>1, <3>2, <3>3
  <2>9. Leads(1, c, 10, 5, 10)
    BY <2>1, <2>3, <2>4, <2>5, <2>7 DEF Leads
  <2> QED BY <2>9, WellRuns
<1>4. WellRun(2)
  <2>1. PICK c : c = Course(2) OBVIOUS
  <2>2. c = <<Dup2("r1", "stdin"), Close("r1"), Close("w1"), Exec("cat"), Copy("stdin",
          "stdout"), ExitNow("0")>>
    BY <2>1 DEF Course
  <2>3. Base(2) = <<Dup2("r1", "stdin"), Close("r1"), Close("w1"), Exec("cat"), Exit("1")>>
    BY <1>1 DEF Base, ChildScript, Child27
  <2>4. Turn(2) = 4 /\ Work(2) = 5 /\ Len(c) = 6 /\ DOMAIN c = 1 .. 6
    BY <2>2 DEF Turn, Work, Plain18
  <2>5. \A k \in DOMAIN c :
          /\ c[k][1] \in EndingCalls <=> k = 6
          /\ k = 6 => c[k][1] \in {"exit", "_exit"} /\ c[k][2] = "0"
          /\ c[k][1] \in Moves <=> k = 5
          /\ c[k][1] = "exec" => k = 4 /\ c[k][2] = "cat"
    BY <2>2 DEF EndingCalls, Moves
  <2>6. \A k \in DOMAIN c : k <= 4 => k \in DOMAIN Base(2) /\ Base(2)[k] = c[k]
    BY <2>2, <2>3
  <2>7. \A k \in DOMAIN c : k # 6 => After(Holds(2, k), c[k]) = Holds(2, k + 1)
    <3>1. \A k \in 1 .. 3 : After(Holds(2, k), c[k]) = Holds(2, k + 1)
      BY <1>2, <2>2, Turning, Closing DEF On, No
    <3>2. \A k \in 4 .. 5 : After(Holds(2, k), c[k]) = Holds(2, k + 1)
      BY <1>2, <2>2, AfterSame DEF On, No
    <3> QED BY <2>4, <3>1, <3>2
  <2>8. c[4][1] = "exec" /\ c[5] = Cat[1] /\ c[6] = Cat[2]
    BY <2>2 DEF Cat, CommandScript
  <2>9. Leads(2, c, 6, 5, 4)
    BY <2>1, <2>4, <2>5, <2>6, <2>7, <2>8 DEF Leads
  <2> QED BY <2>9, WellRuns
<1>5. Crew = {1, 2} /\ Turn(1) = Len(Course(1)) BY DEF Crew, Turn, Course
<1>6. Holds(1, 1) = Table("in", "out", No, No, No, No, No) BY <1>2 DEF On, No
<1>7. /\ \A k \in DOMAIN Course(1) : Course(1)[k][1] = "fork" =>
             (k = 2 /\ Course(1)[k] = Fork(2))
      /\ 2 \in DOMAIN Course(1) /\ Course(1)[2] = Fork(2) /\ Holds(2, 1) = Holds(1, 2)
  <2>1. PICK c : c = Course(1) OBVIOUS
  <2>2. c = <<MakePipe(1), Fork(2), Close("r1"), IgnorePipe, Write("w1", Numbers), Close("w1"),
          PutFailure, Close("w1"), Wait, Exit("0")>>
    BY <1>1, <2>1 DEF Course, FullScript, Parent27
  <2> QED BY <1>2, <2>1, <2>2 DEF On, No
<1> QED BY <1>3, <1>4, <1>5, <1>6, <1>7 DEF Routed

LEMMA Routed28 == ASSUME job \in Jobs, Smooth, job.prog = "5_28" PROVE Routed
<1>1. job.args[1] = "cat" BY SmoothWords
<1>2. /\ \A k : Holds(1, k) =
             Table("in", "out", On("r1", k \in 2 .. 5), On("w1", k \in 2 .. 3), No, No, No)
      /\ \A k : Holds(2, k) =
             Table("in", IF k <= 1 THEN "out" ELSE "w1", On("r1", k <= 3), On("w1", k <= 2),
               No, No, No)
  BY DEF Holds
<1>3. WellRun(1)
  <2>1. PICK c : c = Course(1) OBVIOUS
  <2>2. c = <<MakePipe(1), Fork(2), Close("w1"), Filter("r1", "stdout"), Close("r1"),
          Close("r1"), Wait, Exit("0")>>
    BY <2>1, <1>1 DEF Course, FullScript, Parent28, Turn
  <2>3. Base(1) = c BY <2>1 DEF Base, Course
  <2>4. Turn(1) = 8 /\ Work(1) = 4 /\ Len(c) = 8 /\ DOMAIN c = 1 .. 8
    BY <2>1, <2>2 DEF Turn, Work, Course, Plain18
  <2>5. \A k \in DOMAIN c :
          /\ c[k][1] \in EndingCalls <=> k = 8
          /\ k = 8 => c[k][1] \in {"exit", "_exit"} /\ c[k][2] = "0"
          /\ c[k][1] \in Moves <=> k = 4
          /\ c[k][1] = "exec" => FALSE
    BY <2>2 DEF EndingCalls, Moves
  <2>7. \A k \in DOMAIN c : k # 8 => After(Holds(1, k), c[k]) = Holds(1, k + 1)
    <3>1. \A k \in 1 .. 3 : After(Holds(1, k), c[k]) = Holds(1, k + 1)
      BY <1>2, <2>2, Piping, AfterSame, Closing DEF On, No
    <3>2. \A k \in 4 .. 6 : After(Holds(1, k), c[k]) = Holds(1, k + 1)
      BY <1>2, <2>2, AfterSame, Closing DEF On, No
    <3>3. \A k \in 7 .. 7 : After(Holds(1, k), c[k]) = Holds(1, k + 1)
      BY <1>2, <2>2, AfterSame DEF On, No
    <3> QED BY <2>4, <3>1, <3>2, <3>3
  <2>9. Leads(1, c, 8, 4, 8)
    BY <2>1, <2>3, <2>4, <2>5, <2>7 DEF Leads
  <2> QED BY <2>9, WellRuns
<1>4. WellRun(2)
  <2>1. PICK c : c = Course(2) OBVIOUS
  <2>2. c = <<Dup2("w1", "stdout"), Close("w1"), Close("r1"), Exec("cat"), Copy("stdin",
          "stdout"), ExitNow("0")>>
    BY <2>1 DEF Course
  <2>3. Base(2) = <<Dup2("w1", "stdout"), Close("w1"), Close("r1"), Exec("cat"), ExitNow("1")>>
    BY <1>1 DEF Base, ChildScript, Child28
  <2>4. Turn(2) = 4 /\ Work(2) = 5 /\ Len(c) = 6 /\ DOMAIN c = 1 .. 6
    BY <2>2 DEF Turn, Work, Plain18
  <2>5. \A k \in DOMAIN c :
          /\ c[k][1] \in EndingCalls <=> k = 6
          /\ k = 6 => c[k][1] \in {"exit", "_exit"} /\ c[k][2] = "0"
          /\ c[k][1] \in Moves <=> k = 5
          /\ c[k][1] = "exec" => k = 4 /\ c[k][2] = "cat"
    BY <2>2 DEF EndingCalls, Moves
  <2>6. \A k \in DOMAIN c : k <= 4 => k \in DOMAIN Base(2) /\ Base(2)[k] = c[k]
    BY <2>2, <2>3
  <2>7. \A k \in DOMAIN c : k # 6 => After(Holds(2, k), c[k]) = Holds(2, k + 1)
    <3>1. \A k \in 1 .. 3 : After(Holds(2, k), c[k]) = Holds(2, k + 1)
      BY <1>2, <2>2, Turning, Closing DEF On, No
    <3>2. \A k \in 4 .. 5 : After(Holds(2, k), c[k]) = Holds(2, k + 1)
      BY <1>2, <2>2, AfterSame DEF On, No
    <3> QED BY <2>4, <3>1, <3>2
  <2>8. c[4][1] = "exec" /\ c[5] = Cat[1] /\ c[6] = Cat[2]
    BY <2>2 DEF Cat, CommandScript
  <2>9. Leads(2, c, 6, 5, 4)
    BY <2>1, <2>4, <2>5, <2>6, <2>7, <2>8 DEF Leads
  <2> QED BY <2>9, WellRuns
<1>5. Crew = {1, 2} /\ Turn(1) = Len(Course(1)) BY DEF Crew, Turn, Course
<1>6. Holds(1, 1) = Table("in", "out", No, No, No, No, No) BY <1>2 DEF On, No
<1>7. /\ \A k \in DOMAIN Course(1) : Course(1)[k][1] = "fork" =>
             (k = 2 /\ Course(1)[k] = Fork(2))
      /\ 2 \in DOMAIN Course(1) /\ Course(1)[2] = Fork(2) /\ Holds(2, 1) = Holds(1, 2)
  <2>1. PICK c : c = Course(1) OBVIOUS
  <2>2. c = <<MakePipe(1), Fork(2), Close("w1"), Filter("r1", "stdout"), Close("r1"),
          Close("r1"), Wait, Exit("0")>>
    BY <1>1, <2>1 DEF Course, FullScript, Parent28
  <2> QED BY <1>2, <2>1, <2>2 DEF On, No
<1> QED BY <1>3, <1>4, <1>5, <1>6, <1>7 DEF Routed

LEMMA Routed29 == ASSUME job \in Jobs, Smooth, job.prog = "5_29" PROVE Routed
<1>1. job.args[1] = "cat" BY SmoothWords
<1>2. /\ \A k : Holds(1, k) =
             Table("in", "out", On("r1", k \in 2 .. 5), On("w1", k \in 2 .. 10), On("r2", k
               \in 3 .. 6), On("w2", k \in 3 .. 7), No)
      /\ \A k : Holds(2, k) =
             Table(IF k <= 1 THEN "in" ELSE "r1", IF k <= 4 THEN "out" ELSE "w2", On("r1", k
               <= 2), On("w1", k <= 3), On("r2", k <= 5), On("w2", k <= 6), No)
      /\ \A k : Holds(3, k) =
             Table(IF k <= 3 THEN "in" ELSE "r2", "out", On("r1", k <= 1), On("w1", k <= 2),
               On("r2", k <= 4), On("w2", k <= 5), No)
  BY DEF Holds
<1>3. WellRun(1)
  <2>1. PICK c : c = Course(1) OBVIOUS
  <2>2. c = <<MakePipe(1), MakePipe(2), Fork(2), Fork(3), Close("r1"), Close("r2"), Close("w2"),
          IgnorePipe, Write("w1", Numbers), Close("w1"), PutFailure, Close("w1"),
          WaitAll, Exit("0")>>
    BY <2>1, <1>1 DEF Course, FullScript, Parent29, Turn
  <2>3. Base(1) = c BY <2>1 DEF Base, Course
  <2>4. Turn(1) = 14 /\ Work(1) = 9 /\ Len(c) = 14 /\ DOMAIN c = 1 .. 14
    BY <2>1, <2>2 DEF Turn, Work, Course, Plain18
  <2>5. \A k \in DOMAIN c :
          /\ c[k][1] \in EndingCalls <=> k = 14
          /\ k = 14 => c[k][1] \in {"exit", "_exit"} /\ c[k][2] = "0"
          /\ c[k][1] \in Moves <=> k = 9
          /\ c[k][1] = "exec" => FALSE
    BY <2>2 DEF EndingCalls, Moves
  <2>7. \A k \in DOMAIN c : k # 14 => After(Holds(1, k), c[k]) = Holds(1, k + 1)
    <3>1. \A k \in 1 .. 3 : After(Holds(1, k), c[k]) = Holds(1, k + 1)
      BY <1>2, <2>2, Piping, AfterSame DEF On, No
    <3>2. \A k \in 4 .. 6 : After(Holds(1, k), c[k]) = Holds(1, k + 1)
      BY <1>2, <2>2, AfterSame, Closing, SMTT(30) DEF On, No
    <3>3. \A k \in 7 .. 9 : After(Holds(1, k), c[k]) = Holds(1, k + 1)
      BY <1>2, <2>2, Closing, AfterSame, SMTT(30) DEF On, No
    <3>4. \A k \in 10 .. 12 : After(Holds(1, k), c[k]) = Holds(1, k + 1)
      BY <1>2, <2>2, Closing, AfterSame DEF On, No
    <3>5. \A k \in 13 .. 13 : After(Holds(1, k), c[k]) = Holds(1, k + 1)
      BY <1>2, <2>2, AfterSame DEF On, No
    <3> QED BY <2>4, <3>1, <3>2, <3>3, <3>4, <3>5
  <2>9. Leads(1, c, 14, 9, 14)
    BY <2>1, <2>3, <2>4, <2>5, <2>7 DEF Leads
  <2> QED BY <2>9, WellRuns
<1>4. WellRun(2)
  <2>1. PICK c : c = Course(2) OBVIOUS
  <2>2. c = <<Dup2("r1", "stdin"), Close("r1"), Close("w1"), Dup2("w2", "stdout"), Close("r2"),
          Close("w2"), Exec("cat"), Copy("stdin", "stdout"), ExitNow("0")>>
    BY <2>1 DEF Course
  <2>3. Base(2) = <<Dup2("r1", "stdin"), Close("r1"), Close("w1"), Dup2("w2", "stdout"), Close("r2"),
          Close("w2"), Exec("cat"), ExitNow("1")>>
    BY <1>1 DEF Base, ChildScript, Child29, First29
  <2>4. Turn(2) = 7 /\ Work(2) = 8 /\ Len(c) = 9 /\ DOMAIN c = 1 .. 9
    BY <2>2 DEF Turn, Work, Plain18
  <2>5. \A k \in DOMAIN c :
          /\ c[k][1] \in EndingCalls <=> k = 9
          /\ k = 9 => c[k][1] \in {"exit", "_exit"} /\ c[k][2] = "0"
          /\ c[k][1] \in Moves <=> k = 8
          /\ c[k][1] = "exec" => k = 7 /\ c[k][2] = "cat"
    BY <2>2 DEF EndingCalls, Moves
  <2>6. \A k \in DOMAIN c : k <= 7 => k \in DOMAIN Base(2) /\ Base(2)[k] = c[k]
    BY <2>2, <2>3
  <2>7. \A k \in DOMAIN c : k # 9 => After(Holds(2, k), c[k]) = Holds(2, k + 1)
    <3>1. \A k \in 1 .. 3 : After(Holds(2, k), c[k]) = Holds(2, k + 1)
      BY <1>2, <2>2, Turning, Closing DEF On, No
    <3>2. \A k \in 4 .. 6 : After(Holds(2, k), c[k]) = Holds(2, k + 1)
      BY <1>2, <2>2, Turning, Closing DEF On, No
    <3>3. \A k \in 7 .. 8 : After(Holds(2, k), c[k]) = Holds(2, k + 1)
      BY <1>2, <2>2, AfterSame DEF On, No
    <3> QED BY <2>4, <3>1, <3>2, <3>3
  <2>8. c[7][1] = "exec" /\ c[8] = Cat[1] /\ c[9] = Cat[2]
    BY <2>2 DEF Cat, CommandScript
  <2>9. Leads(2, c, 9, 8, 7)
    BY <2>1, <2>4, <2>5, <2>6, <2>7, <2>8 DEF Leads
  <2> QED BY <2>9, WellRuns
<1>5. WellRun(3)
  <2>1. PICK c : c = Course(3) OBVIOUS
  <2>2. c = <<Close("r1"), Close("w1"), Dup2("r2", "stdin"), Close("r2"), Close("w2"),
          Count("stdin"), Put("count"), ExitNow("0")>>
    BY <2>1 DEF Course, Child29
  <2>3. Base(3) = c BY <2>1 DEF Base, Course, ChildScript, Child29
  <2>4. Turn(3) = 8 /\ Work(3) = 6 /\ Len(c) = 8 /\ DOMAIN c = 1 .. 8
    BY <2>2 DEF Turn, Work, Plain18
  <2>5. \A k \in DOMAIN c :
          /\ c[k][1] \in EndingCalls <=> k = 8
          /\ k = 8 => c[k][1] \in {"exit", "_exit"} /\ c[k][2] = "0"
          /\ c[k][1] \in Moves <=> k = 6
          /\ c[k][1] = "exec" => FALSE
    BY <2>2 DEF EndingCalls, Moves
  <2>7. \A k \in DOMAIN c : k # 8 => After(Holds(3, k), c[k]) = Holds(3, k + 1)
    <3>1. \A k \in 1 .. 3 : After(Holds(3, k), c[k]) = Holds(3, k + 1)
      BY <1>2, <2>2, Closing, Turning DEF On, No
    <3>2. \A k \in 4 .. 6 : After(Holds(3, k), c[k]) = Holds(3, k + 1)
      BY <1>2, <2>2, Closing, AfterSame DEF On, No
    <3>3. \A k \in 7 .. 7 : After(Holds(3, k), c[k]) = Holds(3, k + 1)
      BY <1>2, <2>2, AfterSame DEF On, No
    <3> QED BY <2>4, <3>1, <3>2, <3>3
  <2>9. Leads(3, c, 8, 6, 8)
    BY <2>1, <2>3, <2>4, <2>5, <2>7 DEF Leads
  <2> QED BY <2>9, WellRuns
<1>6. Crew = {1, 2, 3} /\ Turn(1) = Len(Course(1)) BY DEF Crew, Turn, Course
<1>7. Holds(1, 1) = Table("in", "out", No, No, No, No, No) BY <1>2 DEF On, No
<1>8. /\ \A k \in DOMAIN Course(1) : Course(1)[k][1] = "fork" =>
             (k = 3 /\ Course(1)[k] = Fork(2)) \/ (k = 4 /\ Course(1)[k] = Fork(3))
      /\ 3 \in DOMAIN Course(1) /\ Course(1)[3] = Fork(2) /\ Holds(2, 1) = Holds(1, 3)
      /\ 4 \in DOMAIN Course(1) /\ Course(1)[4] = Fork(3) /\ Holds(3, 1) = Holds(1, 4)
  <2>1. PICK c : c = Course(1) OBVIOUS
  <2>2. c = <<MakePipe(1), MakePipe(2), Fork(2), Fork(3), Close("r1"), Close("r2"), Close("w2"),
          IgnorePipe, Write("w1", Numbers), Close("w1"), PutFailure, Close("w1"),
          WaitAll, Exit("0")>>
    BY <1>1, <2>1 DEF Course, FullScript, Parent29
  <2> QED BY <1>2, <2>1, <2>2 DEF On, No
<1> QED BY <1>3, <1>4, <1>5, <1>6, <1>7, <1>8 DEF Routed

LEMMA Routed30 == ASSUME job \in Jobs, Smooth, job.prog = "5_30" PROVE Routed
<1>1. /\ Rest(job.args) # <<>>
      /\ Command(Taken(job.args)) = "cat" /\ Command(Taken(Rest(job.args))) = "cat"
  BY SmoothWords
<1>2. /\ \A k : Holds(1, k) =
             Table("in", "out", On("r1", k \in 2 .. 8), On("w1", k \in 2 .. 5), On("r2", k
               \in 3 .. 6), On("w2", k \in 3 .. 9), No)
      /\ \A k : Holds(2, k) =
             Table("in", IF k <= 4 THEN "out" ELSE "w1", On("r1", k <= 3), On("w1", k <= 5),
               On("r2", k <= 1), On("w2", k <= 2), No)
      /\ \A k : Holds(3, k) =
             Table(IF k <= 4 THEN "in" ELSE "r2", "out", On("r1", k <= 1), On("w1", k <= 2),
               On("r2", k <= 5), On("w2", k <= 3), No)
  BY DEF Holds
<1>3. WellRun(1)
  <2>1. PICK c : c = Course(1) OBVIOUS
  <2>2. c = <<MakePipe(1), MakePipe(2), Fork(2), Fork(3), Close("w1"), Close("r2"), Filter("r1",
          "w2"), Close("r1"), Close("w2"), Close("r1"), Close("w2"), WaitAll,
          Exit("0")>>
    BY <2>1, <1>1 DEF Course, FullScript, Parent30, Turn
  <2>3. Base(1) = c BY <2>1 DEF Base, Course
  <2>4. Turn(1) = 13 /\ Work(1) = 7 /\ Len(c) = 13 /\ DOMAIN c = 1 .. 13
    BY <2>1, <2>2 DEF Turn, Work, Course, Plain18
  <2>5. \A k \in DOMAIN c :
          /\ c[k][1] \in EndingCalls <=> k = 13
          /\ k = 13 => c[k][1] \in {"exit", "_exit"} /\ c[k][2] = "0"
          /\ c[k][1] \in Moves <=> k = 7
          /\ c[k][1] = "exec" => FALSE
    BY <2>2 DEF EndingCalls, Moves
  <2>7. \A k \in DOMAIN c : k # 13 => After(Holds(1, k), c[k]) = Holds(1, k + 1)
    <3>1. \A k \in 1 .. 3 : After(Holds(1, k), c[k]) = Holds(1, k + 1)
      BY <1>2, <2>2, Piping, AfterSame DEF On, No
    <3>2. \A k \in 4 .. 6 : After(Holds(1, k), c[k]) = Holds(1, k + 1)
      BY <1>2, <2>2, AfterSame, Closing, SMTT(30) DEF On, No
    <3>3. \A k \in 7 .. 9 : After(Holds(1, k), c[k]) = Holds(1, k + 1)
      BY <1>2, <2>2, AfterSame, Closing, SMTT(30) DEF On, No
    <3>4. \A k \in 10 .. 12 : After(Holds(1, k), c[k]) = Holds(1, k + 1)
      BY <1>2, <2>2, Closing, AfterSame, SMTT(30) DEF On, No
    <3> QED BY <2>4, <3>1, <3>2, <3>3, <3>4
  <2>9. Leads(1, c, 13, 7, 13)
    BY <2>1, <2>3, <2>4, <2>5, <2>7 DEF Leads
  <2> QED BY <2>9, WellRuns
<1>4. WellRun(2)
  <2>1. PICK c : c = Course(2) OBVIOUS
  <2>2. c = <<Close("r2"), Close("w2"), Close("r1"), Dup2("w1", "stdout"), Close("w1"),
          Exec("cat"), Copy("stdin", "stdout"), ExitNow("0")>>
    BY <2>1 DEF Course
  <2>3. Base(2) = <<Close("r2"), Close("w2"), Close("r1"), Dup2("w1", "stdout"), Close("w1"),
          Exec("cat"), ExitNow("1")>>
    BY <1>1 DEF Base, ChildScript, Child30
  <2>4. Turn(2) = 6 /\ Work(2) = 7 /\ Len(c) = 8 /\ DOMAIN c = 1 .. 8
    BY <2>2 DEF Turn, Work, Plain18
  <2>5. \A k \in DOMAIN c :
          /\ c[k][1] \in EndingCalls <=> k = 8
          /\ k = 8 => c[k][1] \in {"exit", "_exit"} /\ c[k][2] = "0"
          /\ c[k][1] \in Moves <=> k = 7
          /\ c[k][1] = "exec" => k = 6 /\ c[k][2] = "cat"
    BY <2>2 DEF EndingCalls, Moves
  <2>6. \A k \in DOMAIN c : k <= 6 => k \in DOMAIN Base(2) /\ Base(2)[k] = c[k]
    BY <2>2, <2>3, SMTT(30)
  <2>7. \A k \in DOMAIN c : k # 8 => After(Holds(2, k), c[k]) = Holds(2, k + 1)
    <3>1. \A k \in 1 .. 3 : After(Holds(2, k), c[k]) = Holds(2, k + 1)
      BY <1>2, <2>2, Closing DEF On, No
    <3>2. \A k \in 4 .. 6 : After(Holds(2, k), c[k]) = Holds(2, k + 1)
      BY <1>2, <2>2, Turning, Closing, AfterSame, SMTT(30) DEF On, No
    <3>3. \A k \in 7 .. 7 : After(Holds(2, k), c[k]) = Holds(2, k + 1)
      BY <1>2, <2>2, AfterSame DEF On, No
    <3> QED BY <2>4, <3>1, <3>2, <3>3
  <2>8. c[6][1] = "exec" /\ c[7] = Cat[1] /\ c[8] = Cat[2]
    BY <2>2 DEF Cat, CommandScript
  <2>9. Leads(2, c, 8, 7, 6)
    BY <2>1, <2>4, <2>5, <2>6, <2>7, <2>8 DEF Leads
  <2> QED BY <2>9, WellRuns
<1>5. WellRun(3)
  <2>1. PICK c : c = Course(3) OBVIOUS
  <2>2. c = <<Close("r1"), Close("w1"), Close("w2"), Dup2("r2", "stdin"), Close("r2"),
          Exec("cat"), Copy("stdin", "stdout"), ExitNow("0")>>
    BY <2>1 DEF Course
  <2>3. Base(3) = <<Close("r1"), Close("w1"), Close("w2"), Dup2("r2", "stdin"), Close("r2"),
          Exec("cat"), ExitNow("1")>>
    BY <1>1 DEF Base, ChildScript, Child30
  <2>4. Turn(3) = 6 /\ Work(3) = 7 /\ Len(c) = 8 /\ DOMAIN c = 1 .. 8
    BY <2>2 DEF Turn, Work, Plain18
  <2>5. \A k \in DOMAIN c :
          /\ c[k][1] \in EndingCalls <=> k = 8
          /\ k = 8 => c[k][1] \in {"exit", "_exit"} /\ c[k][2] = "0"
          /\ c[k][1] \in Moves <=> k = 7
          /\ c[k][1] = "exec" => k = 6 /\ c[k][2] = "cat"
    BY <2>2 DEF EndingCalls, Moves
  <2>6. \A k \in DOMAIN c : k <= 6 => k \in DOMAIN Base(3) /\ Base(3)[k] = c[k]
    BY <2>2, <2>3
  <2>7. \A k \in DOMAIN c : k # 8 => After(Holds(3, k), c[k]) = Holds(3, k + 1)
    <3>1. \A k \in 1 .. 3 : After(Holds(3, k), c[k]) = Holds(3, k + 1)
      BY <1>2, <2>2, Closing DEF On, No
    <3>2. \A k \in 4 .. 6 : After(Holds(3, k), c[k]) = Holds(3, k + 1)
      BY <1>2, <2>2, Turning, Closing, AfterSame, SMTT(30) DEF On, No
    <3>3. \A k \in 7 .. 7 : After(Holds(3, k), c[k]) = Holds(3, k + 1)
      BY <1>2, <2>2, AfterSame DEF On, No
    <3> QED BY <2>4, <3>1, <3>2, <3>3
  <2>8. c[6][1] = "exec" /\ c[7] = Cat[1] /\ c[8] = Cat[2]
    BY <2>2 DEF Cat, CommandScript
  <2>9. Leads(3, c, 8, 7, 6)
    BY <2>1, <2>4, <2>5, <2>6, <2>7, <2>8 DEF Leads
  <2> QED BY <2>9, WellRuns
<1>6. Crew = {1, 2, 3} /\ Turn(1) = Len(Course(1)) BY DEF Crew, Turn, Course
<1>7. Holds(1, 1) = Table("in", "out", No, No, No, No, No) BY <1>2 DEF On, No
<1>8. /\ \A k \in DOMAIN Course(1) : Course(1)[k][1] = "fork" =>
             (k = 3 /\ Course(1)[k] = Fork(2)) \/ (k = 4 /\ Course(1)[k] = Fork(3))
      /\ 3 \in DOMAIN Course(1) /\ Course(1)[3] = Fork(2) /\ Holds(2, 1) = Holds(1, 3)
      /\ 4 \in DOMAIN Course(1) /\ Course(1)[4] = Fork(3) /\ Holds(3, 1) = Holds(1, 4)
  <2>1. PICK c : c = Course(1) OBVIOUS
  <2>2. c = <<MakePipe(1), MakePipe(2), Fork(2), Fork(3), Close("w1"), Close("r2"), Filter("r1",
          "w2"), Close("r1"), Close("w2"), Close("r1"), Close("w2"), WaitAll,
          Exit("0")>>
    BY <1>1, <2>1 DEF Course, FullScript, Parent30
  <2> QED BY <1>2, <2>1, <2>2 DEF On, No
<1> QED BY <1>3, <1>4, <1>5, <1>6, <1>7, <1>8 DEF Routed

(* In 5_13 the commands are found by counting separators.                   *)
LEMMA Course13 ==
  ASSUME job \in Jobs, Smooth, job.prog = "5_13",
         NEW p \in Kids, p <= Len(Commands13(job.args)) + 1
  PROVE  WellRun(p)
<1>1. Commands13(job.args)[p - 1] = "cat"
  <2>1. /\ Len(Commands13(job.args)) \in {1, 2}
        /\ \A k \in 1 .. Len(Commands13(job.args)) : Commands13(job.args)[k] = "cat"
    BY SmoothWords
  <2>2. p - 1 \in 1 .. Len(Commands13(job.args)) BY <2>1 DEF Kids
  <2> QED BY <2>1, <2>2
<1>2. \A k : Holds(p, k) = Table("in", "out", No, No, No, No, No) BY DEF Holds
<1>3. p # 1 BY DEF Kids
<1>4. PICK c : c = Course(p) OBVIOUS
<1>5. c = <<Exec("cat"), Copy("stdin", "stdout"), ExitNow("0")>>
  BY <1>3, <1>4 DEF Course, Plain18
<1>6. Base(p) = <<Exec("cat"), Exit("1")>>
  BY <1>1, <1>3 DEF Base, ChildScript, Child13
<1>7. Turn(p) = 1 /\ Work(p) = 2 /\ Len(c) = 3 /\ DOMAIN c = 1 .. 3
  BY <1>3, <1>5 DEF Turn, Work, Plain18
<1>8. \A k \in DOMAIN c :
        /\ c[k][1] \in EndingCalls <=> k = 3
        /\ k = 3 => c[k][1] \in {"exit", "_exit"} /\ c[k][2] = "0"
        /\ c[k][1] \in Moves <=> k = 2
        /\ c[k][1] = "exec" => k = 1 /\ c[k][2] = "cat"
        /\ k <= 1 => k \in DOMAIN Base(p) /\ Base(p)[k] = c[k]
        /\ k # 3 => After(Holds(p, k), c[k]) = Holds(p, k + 1)
  BY <1>2, <1>5, <1>6, AfterSame DEF EndingCalls, Moves
<1>9. c[1][1] = "exec" /\ c[2] = Cat[1] /\ c[3] = Cat[2]
  BY <1>5 DEF Cat, CommandScript
<1> QED BY <1>4, <1>7, <1>8, <1>9 DEF WellRun

LEMMA Parent13Is ==
  ASSUME NEW n \in {1, 2}, n = Len(Commands13(job.args))
  PROVE  Parent13 = IF n = 1 THEN <<Fork(2), WaitAll, Exit("0")>>
                    ELSE <<Fork(2), Fork(3), WaitAll, Exit("0")>>
<1>1. Parent13 = [k \in 1 .. n + 2 |->
         IF k <= n THEN Fork(k + 1) ELSE IF k = n + 1 THEN WaitAll ELSE Exit("0")]
  BY DEF Parent13
<1>2. CASE n = 1
  <2>1. Parent13 = [k \in 1 .. 3 |->
          IF k <= 1 THEN Fork(k + 1) ELSE IF k = 2 THEN WaitAll ELSE Exit("0")]
    BY <1>1, <1>2
  <2> QED BY <1>2, <2>1
<1>3. CASE n = 2
  <2>1. Parent13 = [k \in 1 .. 4 |->
          IF k <= 2 THEN Fork(k + 1) ELSE IF k = 3 THEN WaitAll ELSE Exit("0")]
    BY <1>1, <1>3
  <2> QED BY <1>3, <2>1
<1> QED BY <1>2, <1>3

LEMMA Routed13 == ASSUME job \in Jobs, Smooth, job.prog = "5_13" PROVE Routed
<1>1. PICK n \in {1, 2} : n = Len(Commands13(job.args)) BY SmoothWords
<1>2. \A p, k : Holds(p, k) = Table("in", "out", No, No, No, No, No) BY DEF Holds
<1>3. PICK c : c = Course(1) OBVIOUS
<1>4. c = IF n = 1 THEN <<Fork(2), WaitAll, Exit("0")>>
          ELSE <<Fork(2), Fork(3), WaitAll, Exit("0")>>
  <2>1. Course(1) = Parent13 BY DEF Course, FullScript
  <2> QED BY <1>1, <1>3, <2>1, Parent13Is
<1>5. Base(1) = c /\ Turn(1) = Len(c) /\ Work(1) = 0 /\ Len(c) = n + 2 /\ DOMAIN c = 1 .. n + 2
  <2>1. Base(1) = c BY <1>3 DEF Base, Course
  <2>2. Turn(1) = Len(c) BY <1>3 DEF Turn, Course
  <2>3. Work(1) = 0 BY DEF Work, Plain18
  <2>4. CASE n = 1 BY <1>4, <2>1, <2>2, <2>3, <2>4
  <2>5. CASE n = 2 BY <1>4, <2>1, <2>2, <2>3, <2>5
  <2> QED BY <2>4, <2>5
<1>6. /\ \A k \in DOMAIN c : c[k][1] \in {"fork", "waitall", "exit"}
      /\ \A k \in DOMAIN c : c[k][1] = "exit" <=> k = n + 2
      /\ c[n + 2] = Exit("0")
      /\ \A k \in DOMAIN c : c[k][1] = "fork" => k <= n /\ c[k][2] = k + 1
      /\ c[1] = Fork(2) /\ (n = 2 => c[2] = Fork(3))
  BY <1>4
<1>7. WellRun(1)
  <2>1. \A k \in DOMAIN c :
          /\ c[k][1] \in EndingCalls <=> k = Len(c)
          /\ k = Len(c) => c[k][1] \in {"exit", "_exit"} /\ c[k][2] = "0"
          /\ ~(c[k][1] \in Moves) /\ k # Work(1)
          /\ c[k][1] # "exec"
    BY <1>5, <1>6 DEF EndingCalls, Moves
  <2>2. \A k \in DOMAIN c : After(Holds(1, k), c[k]) = Holds(1, k + 1)
    BY <1>2, <1>6, AfterSame
  <2> QED BY <1>3, <1>5, <2>1, <2>2 DEF WellRun
<1>8. Crew = IF n = 1 THEN {1, 2} ELSE {1, 2, 3} BY <1>1 DEF Crew
<1>9. ASSUME NEW p \in Crew, p # 1 PROVE WellRun(p)
  <2>1. p \in Kids /\ p <= n + 1 BY <1>8, <1>9 DEF Kids
  <2> QED BY <1>1, <2>1, Course13
<1>10. \A k \in DOMAIN Course(1) : Course(1)[k][1] = "fork" =>
         Course(1)[k][2] \in Crew /\ Holds(Course(1)[k][2], 1) = Holds(1, k)
  BY <1>2, <1>3, <1>5, <1>6, <1>8
<1>11. \A q \in Crew \ {1} : \E k \in DOMAIN Course(1) : Course(1)[k] = Fork(q)
  <2>1. 1 \in DOMAIN c /\ (n = 2 => 2 \in DOMAIN c) BY <1>5
  <2>2. \A q \in Crew \ {1} : q = 2 \/ (q = 3 /\ n = 2) BY <1>8
  <2> QED BY <1>3, <1>6, <2>1, <2>2
<1> QED BY <1>2, <1>3, <1>5, <1>7, <1>9, <1>10, <1>11 DEF Routed

LEMMA TableHas ==
  ASSUME NEW i, NEW o, NEW a, NEW b, NEW c, NEW d, NEW e, NEW s \in Slots
  PROVE  Table(i, o, a, b, c, d, e)[s] \in {i, o, a, b, c, d, e}
BY DEF Table

(* Every pipe has its reader, as long as it may be written.                 *)
LEMMA Piped12 == ASSUME job \in Jobs, Smooth, job.prog = "5_12" PROVE Piped
<1>1. /\ \A k : Holds(1, k) =
             Table("in", "out", No, No, No, No, No)
      /\ \A k : Holds(2, k) =
             Table("in", "out", No, No, No, No, No)
  BY DEF Holds
<1>2. Crew = {1, 2} BY DEF Crew
<1>3. Eater("w1") = 0 /\ Eater("w2") = 0 /\ Made("w1") = 1 /\ Made("w2") = 2
  BY DEF Eater, Made
<1>4. PICK c : c = Course(1) OBVIOUS
<1>5. c = <<Fork(2), Wait, Exit("0")>>
  BY <1>4 DEF Course, FullScript, Parent12
<1>6. DOMAIN c = 1 .. 3 BY <1>5
<1>7. /\ \A k \in DOMAIN c : c[k][1] = "fork" => (k = 1 /\ c[k][2] = 2)
      /\ \A k \in DOMAIN c : c[k][1] = "pipe" => FALSE
  BY <1>5
<1>8. \A p \in Crew : \A k \in DOMAIN Course(p) : \A s \in Slots :
          Holds(p, k)[s] = "w1" => Eater("w1") # 0 /\ (p = 1 => k > Made("w1"))
  <2>1. \A k \in DOMAIN c : \A s \in Slots : Holds(1, k)[s] = "w1" => FALSE
    BY <1>1, <1>6, TableHas DEF On, No
  <2>2. \A k : \A s \in Slots : Holds(2, k)[s] # "w1"
    BY <1>1, TableHas DEF On, No
  <2> QED BY <1>2, <1>3, <1>4, <2>1, <2>2
<1>9. PipedBy("w1")
  BY <1>3, <1>4, <1>7, <1>8 DEF PipedBy
<1>10. \A p \in Crew : \A k \in DOMAIN Course(p) : \A s \in Slots :
          Holds(p, k)[s] = "w2" => Eater("w2") # 0 /\ (p = 1 => k > Made("w2"))
  <2>1. \A k \in DOMAIN c : \A s \in Slots : Holds(1, k)[s] = "w2" => FALSE
    BY <1>1, <1>6, TableHas DEF On, No
  <2>2. \A k : \A s \in Slots : Holds(2, k)[s] # "w2"
    BY <1>1, TableHas DEF On, No
  <2> QED BY <1>2, <1>3, <1>4, <2>1, <2>2
<1>11. PipedBy("w2")
  BY <1>3, <1>4, <1>7, <1>10 DEF PipedBy
<1>12. \A k \in DOMAIN Course(1) : Course(1)[k][1] = "pipe" =>
          Course(1)[k][2] = (IF k = 1 THEN 1 ELSE 2) /\ k \in {1, 2}
  BY <1>4, <1>7
<1> QED BY <1>9, <1>11, <1>12 DEF Piped, WEnds

LEMMA Piped14 == ASSUME job \in Jobs, Smooth, job.prog = "5_14" PROVE Piped
<1>1. /\ \A k : Holds(1, k) =
             Table("in", "out", No, No, No, No, No)
      /\ \A k : Holds(2, k) =
             Table("in", "out", No, No, No, No, No)
  BY DEF Holds
<1>2. Crew = {1, 2} BY DEF Crew
<1>3. Eater("w1") = 0 /\ Eater("w2") = 0 /\ Made("w1") = 1 /\ Made("w2") = 2
  BY DEF Eater, Made
<1>4. PICK c : c = Course(1) OBVIOUS
<1>5. c = <<Fork(2), WaitAll, Exit("0")>>
  BY <1>4 DEF Course, FullScript, Parent14
<1>6. DOMAIN c = 1 .. 3 BY <1>5
<1>7. /\ \A k \in DOMAIN c : c[k][1] = "fork" => (k = 1 /\ c[k][2] = 2)
      /\ \A k \in DOMAIN c : c[k][1] = "pipe" => FALSE
  BY <1>5
<1>8. \A p \in Crew : \A k \in DOMAIN Course(p) : \A s \in Slots :
          Holds(p, k)[s] = "w1" => Eater("w1") # 0 /\ (p = 1 => k > Made("w1"))
  <2>1. \A k \in DOMAIN c : \A s \in Slots : Holds(1, k)[s] = "w1" => FALSE
    BY <1>1, <1>6, TableHas DEF On, No
  <2>2. \A k : \A s \in Slots : Holds(2, k)[s] # "w1"
    BY <1>1, TableHas DEF On, No
  <2> QED BY <1>2, <1>3, <1>4, <2>1, <2>2
<1>9. PipedBy("w1")
  BY <1>3, <1>4, <1>7, <1>8 DEF PipedBy
<1>10. \A p \in Crew : \A k \in DOMAIN Course(p) : \A s \in Slots :
          Holds(p, k)[s] = "w2" => Eater("w2") # 0 /\ (p = 1 => k > Made("w2"))
  <2>1. \A k \in DOMAIN c : \A s \in Slots : Holds(1, k)[s] = "w2" => FALSE
    BY <1>1, <1>6, TableHas DEF On, No
  <2>2. \A k : \A s \in Slots : Holds(2, k)[s] # "w2"
    BY <1>1, TableHas DEF On, No
  <2> QED BY <1>2, <1>3, <1>4, <2>1, <2>2
<1>11. PipedBy("w2")
  BY <1>3, <1>4, <1>7, <1>10 DEF PipedBy
<1>12. \A k \in DOMAIN Course(1) : Course(1)[k][1] = "pipe" =>
          Course(1)[k][2] = (IF k = 1 THEN 1 ELSE 2) /\ k \in {1, 2}
  BY <1>4, <1>7
<1> QED BY <1>9, <1>11, <1>12 DEF Piped, WEnds

LEMMA Piped18Out ==
  ASSUME job \in Jobs, Smooth, job.prog \in {"5_18A", "5_18C", "5_18D"} PROVE Piped
<1>1. (job.prog = "5_18D" => job.there) /\ job.fails = 0
  BY SmoothWords, SmoothWhole DEF Plain18
<1>2. /\ \A k : Holds(1, k) =
             Table("in", IF k \in 3 .. 4 THEN Mode18 ELSE "out", No, No, No, No, On("out", k
               \in 2 .. 5))
      /\ \A k : Holds(2, k) =
             Table("in", Mode18, No, No, No, No, "out")
  BY DEF Holds
<1>3. Crew = {1, 2} BY DEF Crew
<1>4. Eater("w1") = 0 /\ Eater("w2") = 0 /\ Made("w1") = 1 /\ Made("w2") = 2
  BY DEF Eater, Made
<1>5. PICK c : c = Course(1) OBVIOUS
<1>6. c = <<Dup2("stdout", "save"), Open("stdout", Mode18), Fork(2), Dup2("save", "stdout"),
        Close("save"), Wait, Exit("0")>>
  BY <1>1, <1>5 DEF Course, FullScript, Parent18, Mode18
<1>7. DOMAIN c = 1 .. 7 BY <1>6
<1>8. /\ \A k \in DOMAIN c : c[k][1] = "fork" => (k = 3 /\ c[k][2] = 2)
      /\ \A k \in DOMAIN c : c[k][1] = "pipe" => FALSE
  BY <1>6
<1>9. \A p \in Crew : \A k \in DOMAIN Course(p) : \A s \in Slots :
          Holds(p, k)[s] = "w1" => Eater("w1") # 0 /\ (p = 1 => k > Made("w1"))
  <2>1. \A k \in DOMAIN c : \A s \in Slots : Holds(1, k)[s] = "w1" => FALSE
    BY <1>2, <1>7, TableHas DEF On, No, Mode18
  <2>2. \A k : \A s \in Slots : Holds(2, k)[s] # "w1"
    BY <1>2, TableHas DEF On, No, Mode18
  <2> QED BY <1>3, <1>4, <1>5, <2>1, <2>2
<1>10. PipedBy("w1")
  BY <1>4, <1>5, <1>8, <1>9 DEF PipedBy
<1>11. \A p \in Crew : \A k \in DOMAIN Course(p) : \A s \in Slots :
          Holds(p, k)[s] = "w2" => Eater("w2") # 0 /\ (p = 1 => k > Made("w2"))
  <2>1. \A k \in DOMAIN c : \A s \in Slots : Holds(1, k)[s] = "w2" => FALSE
    BY <1>2, <1>7, TableHas DEF On, No, Mode18
  <2>2. \A k : \A s \in Slots : Holds(2, k)[s] # "w2"
    BY <1>2, TableHas DEF On, No, Mode18
  <2> QED BY <1>3, <1>4, <1>5, <2>1, <2>2
<1>12. PipedBy("w2")
  BY <1>4, <1>5, <1>8, <1>11 DEF PipedBy
<1>13. \A k \in DOMAIN Course(1) : Course(1)[k][1] = "pipe" =>
          Course(1)[k][2] = (IF k = 1 THEN 1 ELSE 2) /\ k \in {1, 2}
  BY <1>5, <1>8
<1> QED BY <1>10, <1>12, <1>13 DEF Piped, WEnds

LEMMA Piped18In == ASSUME job \in Jobs, Smooth, job.prog = "5_18B" PROVE Piped
<1>1. job.there /\ job.fails = 0
  BY SmoothWords, SmoothWhole DEF Plain18
<1>2. /\ \A k : Holds(1, k) =
             Table(IF k \in 3 .. 4 THEN "read" ELSE "in", "out", No, No, No, No, On("in", k
               \in 2 .. 5))
      /\ \A k : Holds(2, k) =
             Table("read", "out", No, No, No, No, "in")
  BY DEF Holds
<1>3. Crew = {1, 2} BY DEF Crew
<1>4. Eater("w1") = 0 /\ Eater("w2") = 0 /\ Made("w1") = 1 /\ Made("w2") = 2
  BY DEF Eater, Made
<1>5. PICK c : c = Course(1) OBVIOUS
<1>6. c = <<Dup2("stdin", "save"), Open("stdin", "read"), Fork(2), Dup2("save", "stdin"),
        Close("save"), Wait, Exit("0")>>
  BY <1>1, <1>5 DEF Course, FullScript, Parent18
<1>7. DOMAIN c = 1 .. 7 BY <1>6
<1>8. /\ \A k \in DOMAIN c : c[k][1] = "fork" => (k = 3 /\ c[k][2] = 2)
      /\ \A k \in DOMAIN c : c[k][1] = "pipe" => FALSE
  BY <1>6
<1>9. \A p \in Crew : \A k \in DOMAIN Course(p) : \A s \in Slots :
          Holds(p, k)[s] = "w1" => Eater("w1") # 0 /\ (p = 1 => k > Made("w1"))
  <2>1. \A k \in DOMAIN c : \A s \in Slots : Holds(1, k)[s] = "w1" => FALSE
    BY <1>2, <1>7, TableHas DEF On, No
  <2>2. \A k : \A s \in Slots : Holds(2, k)[s] # "w1"
    BY <1>2, TableHas DEF On, No
  <2> QED BY <1>3, <1>4, <1>5, <2>1, <2>2
<1>10. PipedBy("w1")
  BY <1>4, <1>5, <1>8, <1>9 DEF PipedBy
<1>11. \A p \in Crew : \A k \in DOMAIN Course(p) : \A s \in Slots :
          Holds(p, k)[s] = "w2" => Eater("w2") # 0 /\ (p = 1 => k > Made("w2"))
  <2>1. \A k \in DOMAIN c : \A s \in Slots : Holds(1, k)[s] = "w2" => FALSE
    BY <1>2, <1>7, TableHas DEF On, No
  <2>2. \A k : \A s \in Slots : Holds(2, k)[s] # "w2"
    BY <1>2, TableHas DEF On, No
  <2> QED BY <1>3, <1>4, <1>5, <2>1, <2>2
<1>12. PipedBy("w2")
  BY <1>4, <1>5, <1>8, <1>11 DEF PipedBy
<1>13. \A k \in DOMAIN Course(1) : Course(1)[k][1] = "pipe" =>
          Course(1)[k][2] = (IF k = 1 THEN 1 ELSE 2) /\ k \in {1, 2}
  BY <1>5, <1>8
<1> QED BY <1>10, <1>12, <1>13 DEF Piped, WEnds

LEMMA Piped25 == ASSUME job \in Jobs, Smooth, job.prog = "5_25" PROVE Piped
<1>1. /\ \A k : Holds(1, k) =
             Table("in", "out", On("r1", k \in 2 .. 6), On("w1", k \in 2 .. 4), No, No, No)
      /\ \A k : Holds(2, k) =
             Table("in", "out", On("r1", k <= 1), On("w1", k <= 3), No, No, No)
  BY DEF Holds
<1>2. Crew = {1, 2} BY DEF Crew
<1>3. Eater("w1") = 1 /\ Eater("w2") = 0 /\ Made("w1") = 1 /\ Made("w2") = 2
  BY DEF Eater, Made
<1>4. PICK c : c = Course(1) OBVIOUS
<1>5. c = <<MakePipe(1), Put("header"), Fork(2), Close("w1"), Copy("r1", "stdout"), Close("r1"),
        Wait, Exit("0")>>
  BY <1>4 DEF Course, FullScript, Parent25
<1>6. DOMAIN c = 1 .. 8 BY <1>5
<1>7. /\ \A k \in DOMAIN c : c[k][1] = "fork" => (k = 3 /\ c[k][2] = 2)
      /\ \A k \in DOMAIN c : c[k][1] = "pipe" => (k = 1 /\ c[k][2] = 1)
  BY <1>5
<1>8. \A p \in Crew : \A k \in DOMAIN Course(p) : \A s \in Slots :
          Holds(p, k)[s] = "w1" => Eater("w1") # 0 /\ (p = 1 => k > Made("w1"))
  <2>1. \A k \in DOMAIN c : \A s \in Slots : Holds(1, k)[s] = "w1" => k > 1
    BY <1>1, <1>6, TableHas DEF On, No
  <2> QED BY <1>2, <1>3, <1>4, <2>1
<1>9. PICK d : d = Course(1) OBVIOUS
<1>10. d = <<MakePipe(1), Put("header"), Fork(2), Close("w1"), Copy("r1", "stdout"),
          Close("r1"), Wait, Exit("0")>>
  BY <1>4, <1>5, <1>9
<1>11. Work(1) = 5 /\ DOMAIN d = 1 .. 8 /\ d[5][1] # "write"
           /\ d[5][2] = "r1"
  BY <1>10 DEF Work
<1>12. From(1) = "r1" BY <1>1, <1>9, <1>11, TableSlots DEF From, On
<1>13. \A k \in DOMAIN d : k <= 5 /\ k > 1 =>
          Holds(1, k)["r1"] = "r1" \/ Holds(1, k)["stdin"] = "r1"
  BY <1>1, <1>11, TableSlots DEF On
<1>14. /\ \A k \in DOMAIN Course(1) : k <= Work(1) /\ (1 = 1 => k > 1) =>
             \E s \in Slots : Holds(1, k)[s] = "r1"
      /\ \A j, k \in DOMAIN Course(1) : Course(1)[j] = Fork(1) /\ k \in 2 .. j =>
           \E s \in Slots : Holds(1, k)[s] = "r1"
  <2>1. "r1" \in Slots /\ "stdin" \in Slots BY DEF Slots
  <2>2. \A k \in DOMAIN Course(1) : k <= Work(1) /\ (1 = 1 => k > 1) =>
          \E s \in Slots : Holds(1, k)[s] = "r1"
    BY <1>9, <1>11, <1>13, <2>1
  <2>3. \A j \in DOMAIN c : c[j] # Fork(1) BY <1>7
  <2> QED BY <1>4, <2>2, <2>3
<1>15. PipedBy("w1")
  <2>1. ReadEnd("w1") = "r1" BY DEF ReadEnd
  <2>2. 1 \in Crew /\ Work(1) > 0 /\ Course(1)[Work(1)][1] # "write"
    BY <1>2, <1>9, <1>11
  <2> QED BY <1>3, <1>4, <1>7, <1>8, <1>11, <1>12, <1>14, <2>1, <2>2 DEF PipedBy
<1>16. \A p \in Crew : \A k \in DOMAIN Course(p) : \A s \in Slots :
          Holds(p, k)[s] = "w2" => Eater("w2") # 0 /\ (p = 1 => k > Made("w2"))
  <2>1. \A k \in DOMAIN c : \A s \in Slots : Holds(1, k)[s] = "w2" => FALSE
    BY <1>1, <1>6, TableHas DEF On, No
  <2>2. \A k : \A s \in Slots : Holds(2, k)[s] # "w2"
    BY <1>1, TableHas DEF On, No
  <2> QED BY <1>2, <1>3, <1>4, <2>1, <2>2
<1>17. PipedBy("w2")
  BY <1>3, <1>4, <1>7, <1>16 DEF PipedBy
<1>18. \A k \in DOMAIN Course(1) : Course(1)[k][1] = "pipe" =>
          Course(1)[k][2] = (IF k = 1 THEN 1 ELSE 2) /\ k \in {1, 2}
  BY <1>4, <1>7
<1> QED BY <1>15, <1>17, <1>18 DEF Piped, WEnds

LEMMA Piped26 == ASSUME job \in Jobs, Smooth, job.prog = "5_26" PROVE Piped
<1>1. Rest(job.args) # <<>> BY SmoothWords
<1>2. /\ \A k : Holds(1, k) =
             Table("in", "out", On("r1", k \in 2 .. 4), On("w1", k \in 2 .. 5), No, No, No)
      /\ \A k : Holds(2, k) =
             Table("in", IF k <= 1 THEN "out" ELSE "w1", On("r1", k <= 2), On("w1", k <= 3),
               No, No, No)
      /\ \A k : Holds(3, k) =
             Table(IF k <= 1 THEN "in" ELSE "r1", "out", On("r1", k <= 2), On("w1", k <= 3),
               No, No, No)
  BY DEF Holds
<1>3. Crew = {1, 2, 3} BY DEF Crew
<1>4. Eater("w1") = 3 /\ Eater("w2") = 0 /\ Made("w1") = 1 /\ Made("w2") = 2
  BY DEF Eater, Made
<1>5. PICK c : c = Course(1) OBVIOUS
<1>6. c = <<MakePipe(1), Fork(2), Fork(3), Close("r1"), Close("w1"), WaitAll, Exit("0")>>
  BY <1>1, <1>5 DEF Course, FullScript, Parent26
<1>7. DOMAIN c = 1 .. 7 BY <1>6
<1>8. /\ \A k \in DOMAIN c : c[k][1] = "fork" => (k = 2 /\ c[k][2] = 2) \/ (k = 3 /\ c[k][2] = 3)
      /\ \A k \in DOMAIN c : c[k][1] = "pipe" => (k = 1 /\ c[k][2] = 1)
  BY <1>6
<1>9. \A p \in Crew : \A k \in DOMAIN Course(p) : \A s \in Slots :
          Holds(p, k)[s] = "w1" => Eater("w1") # 0 /\ (p = 1 => k > Made("w1"))
  <2>1. \A k \in DOMAIN c : \A s \in Slots : Holds(1, k)[s] = "w1" => k > 1
    BY <1>2, <1>7, TableHas DEF On, No
  <2> QED BY <1>3, <1>4, <1>5, <2>1
<1>10. PICK d : d = Course(3) OBVIOUS
<1>11. d = <<Dup2("r1", "stdin"), Close("r1"), Close("w1"), Exec("cat"), Copy("stdin",
          "stdout"), ExitNow("0")>>
  BY <1>10 DEF Course
<1>12. Work(3) = 5 /\ DOMAIN d = 1 .. 6 /\ d[5][1] # "write"
           /\ d[5][2] = "stdin"
  BY <1>11 DEF Work
<1>13. From(3) = "r1" BY <1>2, <1>10, <1>12, TableSlots DEF From, On
<1>14. \A k \in DOMAIN d : k <= 5 =>
          Holds(3, k)["r1"] = "r1" \/ Holds(3, k)["stdin"] = "r1"
  BY <1>2, <1>12, TableSlots DEF On
<1>15. \A k \in 2 .. 3 : Holds(1, k)["r1"] = "r1"
  BY <1>2, TableSlots DEF On
<1>16. /\ \A k \in DOMAIN Course(3) : k <= Work(3) /\ (3 = 1 => k > 1) =>
             \E s \in Slots : Holds(3, k)[s] = "r1"
      /\ \A j, k \in DOMAIN Course(1) : Course(1)[j] = Fork(3) /\ k \in 2 .. j =>
           \E s \in Slots : Holds(1, k)[s] = "r1"
  <2>1. "r1" \in Slots /\ "stdin" \in Slots BY DEF Slots
  <2>2. \A k \in DOMAIN Course(3) : k <= Work(3) /\ (3 = 1 => k > 1) =>
          \E s \in Slots : Holds(3, k)[s] = "r1"
    BY <1>10, <1>12, <1>14, <2>1
  <2>3. \A j \in DOMAIN c : c[j] = Fork(3) => j = 3
    BY <1>8
  <2> QED BY <1>5, <1>15, <2>1, <2>2, <2>3
<1>17. PipedBy("w1")
  <2>1. ReadEnd("w1") = "r1" BY DEF ReadEnd
  <2>2. 3 \in Crew /\ Work(3) > 0 /\ Course(3)[Work(3)][1] # "write"
    BY <1>3, <1>10, <1>12
  <2> QED BY <1>4, <1>5, <1>8, <1>9, <1>12, <1>13, <1>16, <2>1, <2>2 DEF PipedBy
<1>18. \A p \in Crew : \A k \in DOMAIN Course(p) : \A s \in Slots :
          Holds(p, k)[s] = "w2" => Eater("w2") # 0 /\ (p = 1 => k > Made("w2"))
  <2>1. \A k \in DOMAIN c : \A s \in Slots : Holds(1, k)[s] = "w2" => FALSE
    BY <1>2, <1>7, TableHas DEF On, No
  <2>2. \A k : \A s \in Slots : Holds(2, k)[s] # "w2"
    BY <1>2, TableHas DEF On, No
  <2>3. \A k : \A s \in Slots : Holds(3, k)[s] # "w2"
    BY <1>2, TableHas DEF On, No
  <2> QED BY <1>3, <1>4, <1>5, <2>1, <2>2, <2>3
<1>19. PipedBy("w2")
  BY <1>4, <1>5, <1>8, <1>18 DEF PipedBy
<1>20. \A k \in DOMAIN Course(1) : Course(1)[k][1] = "pipe" =>
          Course(1)[k][2] = (IF k = 1 THEN 1 ELSE 2) /\ k \in {1, 2}
  BY <1>5, <1>8
<1> QED BY <1>17, <1>19, <1>20 DEF Piped, WEnds

LEMMA Piped27 == ASSUME job \in Jobs, Smooth, job.prog = "5_27" PROVE Piped
<1>1. /\ \A k : Holds(1, k) =
             Table("in", "out", On("r1", k \in 2 .. 3), On("w1", k \in 2 .. 6), No, No, No)
      /\ \A k : Holds(2, k) =
             Table(IF k <= 1 THEN "in" ELSE "r1", "out", On("r1", k <= 2), On("w1", k <= 3),
               No, No, No)
  BY DEF Holds
<1>2. Crew = {1, 2} BY DEF Crew
<1>3. Eater("w1") = 2 /\ Eater("w2") = 0 /\ Made("w1") = 1 /\ Made("w2") = 2
  BY DEF Eater, Made
<1>4. PICK c : c = Course(1) OBVIOUS
<1>5. c = <<MakePipe(1), Fork(2), Close("r1"), IgnorePipe, Write("w1", Numbers), Close("w1"),
        PutFailure, Close("w1"), Wait, Exit("0")>>
  BY <1>4 DEF Course, FullScript, Parent27
<1>6. DOMAIN c = 1 .. 10 BY <1>5
<1>7. /\ \A k \in DOMAIN c : c[k][1] = "fork" => (k = 2 /\ c[k][2] = 2)
      /\ \A k \in DOMAIN c : c[k][1] = "pipe" => (k = 1 /\ c[k][2] = 1)
  BY <1>5
<1>8. \A p \in Crew : \A k \in DOMAIN Course(p) : \A s \in Slots :
          Holds(p, k)[s] = "w1" => Eater("w1") # 0 /\ (p = 1 => k > Made("w1"))
  <2>1. \A k \in DOMAIN c : \A s \in Slots : Holds(1, k)[s] = "w1" => k > 1
    BY <1>1, <1>6, TableHas DEF On, No
  <2> QED BY <1>2, <1>3, <1>4, <2>1
<1>9. PICK d : d = Course(2) OBVIOUS
<1>10. d = <<Dup2("r1", "stdin"), Close("r1"), Close("w1"), Exec("cat"), Copy("stdin",
          "stdout"), ExitNow("0")>>
  BY <1>9 DEF Course
<1>11. Work(2) = 5 /\ DOMAIN d = 1 .. 6 /\ d[5][1] # "write"
           /\ d[5][2] = "stdin"
  BY <1>10 DEF Work
<1>12. From(2) = "r1" BY <1>1, <1>9, <1>11, TableSlots DEF From, On
<1>13. \A k \in DOMAIN d : k <= 5 =>
          Holds(2, k)["r1"] = "r1" \/ Holds(2, k)["stdin"] = "r1"
  BY <1>1, <1>11, TableSlots DEF On
<1>14. \A k \in 2 .. 2 : Holds(1, k)["r1"] = "r1"
  BY <1>1, TableSlots DEF On
<1>15. /\ \A k \in DOMAIN Course(2) : k <= Work(2) /\ (2 = 1 => k > 1) =>
             \E s \in Slots : Holds(2, k)[s] = "r1"
      /\ \A j, k \in DOMAIN Course(1) : Course(1)[j] = Fork(2) /\ k \in 2 .. j =>
           \E s \in Slots : Holds(1, k)[s] = "r1"
  <2>1. "r1" \in Slots /\ "stdin" \in Slots BY DEF Slots
  <2>2. \A k \in DOMAIN Course(2) : k <= Work(2) /\ (2 = 1 => k > 1) =>
          \E s \in Slots : Holds(2, k)[s] = "r1"
    BY <1>9, <1>11, <1>13, <2>1
  <2>3. \A j \in DOMAIN c : c[j] = Fork(2) => j = 2
    BY <1>7
  <2> QED BY <1>4, <1>14, <2>1, <2>2, <2>3
<1>16. PipedBy("w1")
  <2>1. ReadEnd("w1") = "r1" BY DEF ReadEnd
  <2>2. 2 \in Crew /\ Work(2) > 0 /\ Course(2)[Work(2)][1] # "write"
    BY <1>2, <1>9, <1>11
  <2> QED BY <1>3, <1>4, <1>7, <1>8, <1>11, <1>12, <1>15, <2>1, <2>2 DEF PipedBy
<1>17. \A p \in Crew : \A k \in DOMAIN Course(p) : \A s \in Slots :
          Holds(p, k)[s] = "w2" => Eater("w2") # 0 /\ (p = 1 => k > Made("w2"))
  <2>1. \A k \in DOMAIN c : \A s \in Slots : Holds(1, k)[s] = "w2" => FALSE
    BY <1>1, <1>6, TableHas DEF On, No
  <2>2. \A k : \A s \in Slots : Holds(2, k)[s] # "w2"
    BY <1>1, TableHas DEF On, No
  <2> QED BY <1>2, <1>3, <1>4, <2>1, <2>2
<1>18. PipedBy("w2")
  BY <1>3, <1>4, <1>7, <1>17 DEF PipedBy
<1>19. \A k \in DOMAIN Course(1) : Course(1)[k][1] = "pipe" =>
          Course(1)[k][2] = (IF k = 1 THEN 1 ELSE 2) /\ k \in {1, 2}
  BY <1>4, <1>7
<1> QED BY <1>16, <1>18, <1>19 DEF Piped, WEnds

LEMMA Piped28 == ASSUME job \in Jobs, Smooth, job.prog = "5_28" PROVE Piped
<1>1. /\ \A k : Holds(1, k) =
             Table("in", "out", On("r1", k \in 2 .. 5), On("w1", k \in 2 .. 3), No, No, No)
      /\ \A k : Holds(2, k) =
             Table("in", IF k <= 1 THEN "out" ELSE "w1", On("r1", k <= 3), On("w1", k <= 2),
               No, No, No)
  BY DEF Holds
<1>2. Crew = {1, 2} BY DEF Crew
<1>3. Eater("w1") = 1 /\ Eater("w2") = 0 /\ Made("w1") = 1 /\ Made("w2") = 2
  BY DEF Eater, Made
<1>4. PICK c : c = Course(1) OBVIOUS
<1>5. c = <<MakePipe(1), Fork(2), Close("w1"), Filter("r1", "stdout"), Close("r1"), Close("r1"),
        Wait, Exit("0")>>
  BY <1>4 DEF Course, FullScript, Parent28
<1>6. DOMAIN c = 1 .. 8 BY <1>5
<1>7. /\ \A k \in DOMAIN c : c[k][1] = "fork" => (k = 2 /\ c[k][2] = 2)
      /\ \A k \in DOMAIN c : c[k][1] = "pipe" => (k = 1 /\ c[k][2] = 1)
  BY <1>5
<1>8. \A p \in Crew : \A k \in DOMAIN Course(p) : \A s \in Slots :
          Holds(p, k)[s] = "w1" => Eater("w1") # 0 /\ (p = 1 => k > Made("w1"))
  <2>1. \A k \in DOMAIN c : \A s \in Slots : Holds(1, k)[s] = "w1" => k > 1
    BY <1>1, <1>6, TableHas DEF On, No
  <2> QED BY <1>2, <1>3, <1>4, <2>1
<1>9. PICK d : d = Course(1) OBVIOUS
<1>10. d = <<MakePipe(1), Fork(2), Close("w1"), Filter("r1", "stdout"), Close("r1"),
          Close("r1"), Wait, Exit("0")>>
  BY <1>4, <1>5, <1>9
<1>11. Work(1) = 4 /\ DOMAIN d = 1 .. 8 /\ d[4][1] # "write"
           /\ d[4][2] = "r1"
  BY <1>10 DEF Work
<1>12. From(1) = "r1" BY <1>1, <1>9, <1>11, TableSlots DEF From, On
<1>13. \A k \in DOMAIN d : k <= 4 /\ k > 1 =>
          Holds(1, k)["r1"] = "r1" \/ Holds(1, k)["stdin"] = "r1"
  BY <1>1, <1>11, TableSlots DEF On
<1>14. /\ \A k \in DOMAIN Course(1) : k <= Work(1) /\ (1 = 1 => k > 1) =>
             \E s \in Slots : Holds(1, k)[s] = "r1"
      /\ \A j, k \in DOMAIN Course(1) : Course(1)[j] = Fork(1) /\ k \in 2 .. j =>
           \E s \in Slots : Holds(1, k)[s] = "r1"
  <2>1. "r1" \in Slots /\ "stdin" \in Slots BY DEF Slots
  <2>2. \A k \in DOMAIN Course(1) : k <= Work(1) /\ (1 = 1 => k > 1) =>
          \E s \in Slots : Holds(1, k)[s] = "r1"
    BY <1>9, <1>11, <1>13, <2>1
  <2>3. \A j \in DOMAIN c : c[j] # Fork(1) BY <1>7
  <2> QED BY <1>4, <2>2, <2>3
<1>15. PipedBy("w1")
  <2>1. ReadEnd("w1") = "r1" BY DEF ReadEnd
  <2>2. 1 \in Crew /\ Work(1) > 0 /\ Course(1)[Work(1)][1] # "write"
    BY <1>2, <1>9, <1>11
  <2> QED BY <1>3, <1>4, <1>7, <1>8, <1>11, <1>12, <1>14, <2>1, <2>2 DEF PipedBy
<1>16. \A p \in Crew : \A k \in DOMAIN Course(p) : \A s \in Slots :
          Holds(p, k)[s] = "w2" => Eater("w2") # 0 /\ (p = 1 => k > Made("w2"))
  <2>1. \A k \in DOMAIN c : \A s \in Slots : Holds(1, k)[s] = "w2" => FALSE
    BY <1>1, <1>6, TableHas DEF On, No
  <2>2. \A k : \A s \in Slots : Holds(2, k)[s] # "w2"
    BY <1>1, TableHas DEF On, No
  <2> QED BY <1>2, <1>3, <1>4, <2>1, <2>2
<1>17. PipedBy("w2")
  BY <1>3, <1>4, <1>7, <1>16 DEF PipedBy
<1>18. \A k \in DOMAIN Course(1) : Course(1)[k][1] = "pipe" =>
          Course(1)[k][2] = (IF k = 1 THEN 1 ELSE 2) /\ k \in {1, 2}
  BY <1>4, <1>7
<1> QED BY <1>15, <1>17, <1>18 DEF Piped, WEnds

LEMMA Piped29 == ASSUME job \in Jobs, Smooth, job.prog = "5_29" PROVE Piped
<1>1. /\ \A k : Holds(1, k) =
             Table("in", "out", On("r1", k \in 2 .. 5), On("w1", k \in 2 .. 10), On("r2", k
               \in 3 .. 6), On("w2", k \in 3 .. 7), No)
      /\ \A k : Holds(2, k) =
             Table(IF k <= 1 THEN "in" ELSE "r1", IF k <= 4 THEN "out" ELSE "w2", On("r1", k
               <= 2), On("w1", k <= 3), On("r2", k <= 5), On("w2", k <= 6), No)
      /\ \A k : Holds(3, k) =
             Table(IF k <= 3 THEN "in" ELSE "r2", "out", On("r1", k <= 1), On("w1", k <= 2),
               On("r2", k <= 4), On("w2", k <= 5), No)
  BY DEF Holds
<1>2. Crew = {1, 2, 3} BY DEF Crew
<1>3. Eater("w1") = 2 /\ Eater("w2") = 3 /\ Made("w1") = 1 /\ Made("w2") = 2
  BY DEF Eater, Made
<1>4. PICK c : c = Course(1) OBVIOUS
<1>5. c = <<MakePipe(1), MakePipe(2), Fork(2), Fork(3), Close("r1"), Close("r2"), Close("w2"),
        IgnorePipe, Write("w1", Numbers), Close("w1"), PutFailure, Close("w1"),
        WaitAll, Exit("0")>>
  BY <1>4 DEF Course, FullScript, Parent29
<1>6. DOMAIN c = 1 .. 14 BY <1>5
<1>7. /\ \A k \in DOMAIN c : c[k][1] = "fork" => (k = 3 /\ c[k][2] = 2) \/ (k = 4 /\ c[k][2] = 3)
      /\ \A k \in DOMAIN c : c[k][1] = "pipe" => (k = 1 /\ c[k][2] = 1) \/ (k = 2 /\ c[k][2] = 2)
  BY <1>5
<1>8. \A p \in Crew : \A k \in DOMAIN Course(p) : \A s \in Slots :
          Holds(p, k)[s] = "w1" => Eater("w1") # 0 /\ (p = 1 => k > Made("w1"))
  <2>1. \A k \in DOMAIN c : \A s \in Slots : Holds(1, k)[s] = "w1" => k > 1
    BY <1>1, <1>6, TableHas DEF On, No
  <2> QED BY <1>2, <1>3, <1>4, <2>1
<1>9. PICK d : d = Course(2) OBVIOUS
<1>10. d = <<Dup2("r1", "stdin"), Close("r1"), Close("w1"), Dup2("w2", "stdout"), Close("r2"),
          Close("w2"), Exec("cat"), Copy("stdin", "stdout"), ExitNow("0")>>
  BY <1>9 DEF Course
<1>11. Work(2) = 8 /\ DOMAIN d = 1 .. 9 /\ d[8][1] # "write"
           /\ d[8][2] = "stdin"
  BY <1>10 DEF Work
<1>12. From(2) = "r1" BY <1>1, <1>9, <1>11, TableSlots DEF From, On
<1>13. \A k \in DOMAIN d : k <= 8 =>
          Holds(2, k)["r1"] = "r1" \/ Holds(2, k)["stdin"] = "r1"
  BY <1>1, <1>11, TableSlots DEF On
<1>14. \A k \in 2 .. 3 : Holds(1, k)["r1"] = "r1"
  BY <1>1, TableSlots DEF On
<1>15. /\ \A k \in DOMAIN Course(2) : k <= Work(2) /\ (2 = 1 => k > 1) =>
             \E s \in Slots : Holds(2, k)[s] = "r1"
      /\ \A j, k \in DOMAIN Course(1) : Course(1)[j] = Fork(2) /\ k \in 2 .. j =>
           \E s \in Slots : Holds(1, k)[s] = "r1"
  <2>1. "r1" \in Slots /\ "stdin" \in Slots BY DEF Slots
  <2>2. \A k \in DOMAIN Course(2) : k <= Work(2) /\ (2 = 1 => k > 1) =>
          \E s \in Slots : Holds(2, k)[s] = "r1"
    BY <1>9, <1>11, <1>13, <2>1
  <2>3. \A j \in DOMAIN c : c[j] = Fork(2) => j = 3
    BY <1>7
  <2> QED BY <1>4, <1>14, <2>1, <2>2, <2>3
<1>16. PipedBy("w1")
  <2>1. ReadEnd("w1") = "r1" BY DEF ReadEnd
  <2>2. 2 \in Crew /\ Work(2) > 0 /\ Course(2)[Work(2)][1] # "write"
    BY <1>2, <1>9, <1>11
  <2> QED BY <1>3, <1>4, <1>7, <1>8, <1>11, <1>12, <1>15, <2>1, <2>2 DEF PipedBy
<1>17. \A p \in Crew : \A k \in DOMAIN Course(p) : \A s \in Slots :
          Holds(p, k)[s] = "w2" => Eater("w2") # 0 /\ (p = 1 => k > Made("w2"))
  <2>1. \A k \in DOMAIN c : \A s \in Slots : Holds(1, k)[s] = "w2" => k > 2
    BY <1>1, <1>6, TableHas DEF On, No
  <2> QED BY <1>2, <1>3, <1>4, <2>1
<1>18. PICK e : e = Course(3) OBVIOUS
<1>19. e = <<Close("r1"), Close("w1"), Dup2("r2", "stdin"), Close("r2"), Close("w2"),
          Count("stdin"), Put("count"), ExitNow("0")>>
  BY <1>18 DEF Course, Child29
<1>20. Work(3) = 6 /\ DOMAIN e = 1 .. 8 /\ e[6][1] # "write"
           /\ e[6][2] = "stdin"
  BY <1>19 DEF Work
<1>21. From(3) = "r2" BY <1>1, <1>18, <1>20, TableSlots DEF From, On
<1>22. \A k \in DOMAIN e : k <= 6 =>
          Holds(3, k)["r2"] = "r2" \/ Holds(3, k)["stdin"] = "r2"
  BY <1>1, <1>20, TableSlots DEF On
<1>23. \A k \in 3 .. 4 : Holds(1, k)["r2"] = "r2"
  BY <1>1, TableSlots DEF On
<1>24. /\ \A k \in DOMAIN Course(3) : k <= Work(3) /\ (3 = 1 => k > 2) =>
             \E s \in Slots : Holds(3, k)[s] = "r2"
      /\ \A j, k \in DOMAIN Course(1) : Course(1)[j] = Fork(3) /\ k \in 3 .. j =>
           \E s \in Slots : Holds(1, k)[s] = "r2"
  <2>1. "r2" \in Slots /\ "stdin" \in Slots BY DEF Slots
  <2>2. \A k \in DOMAIN Course(3) : k <= Work(3) /\ (3 = 1 => k > 2) =>
          \E s \in Slots : Holds(3, k)[s] = "r2"
    BY <1>18, <1>20, <1>22, <2>1
  <2>3. \A j \in DOMAIN c : c[j] = Fork(3) => j = 4
    BY <1>7
  <2> QED BY <1>4, <1>23, <2>1, <2>2, <2>3
<1>25. PipedBy("w2")
  <2>1. ReadEnd("w2") = "r2" BY DEF ReadEnd
  <2>2. 3 \in Crew /\ Work(3) > 0 /\ Course(3)[Work(3)][1] # "write"
    BY <1>2, <1>18, <1>20
  <2> QED BY <1>3, <1>4, <1>7, <1>17, <1>20, <1>21, <1>24, <2>1, <2>2 DEF PipedBy
<1>26. \A k \in DOMAIN Course(1) : Course(1)[k][1] = "pipe" =>
          Course(1)[k][2] = (IF k = 1 THEN 1 ELSE 2) /\ k \in {1, 2}
  BY <1>4, <1>7
<1> QED BY <1>16, <1>25, <1>26 DEF Piped, WEnds

LEMMA Piped30 == ASSUME job \in Jobs, Smooth, job.prog = "5_30" PROVE Piped
<1>1. Rest(job.args) # <<>> BY SmoothWords
<1>2. /\ \A k : Holds(1, k) =
             Table("in", "out", On("r1", k \in 2 .. 8), On("w1", k \in 2 .. 5), On("r2", k
               \in 3 .. 6), On("w2", k \in 3 .. 9), No)
      /\ \A k : Holds(2, k) =
             Table("in", IF k <= 4 THEN "out" ELSE "w1", On("r1", k <= 3), On("w1", k <= 5),
               On("r2", k <= 1), On("w2", k <= 2), No)
      /\ \A k : Holds(3, k) =
             Table(IF k <= 4 THEN "in" ELSE "r2", "out", On("r1", k <= 1), On("w1", k <= 2),
               On("r2", k <= 5), On("w2", k <= 3), No)
  BY DEF Holds
<1>3. Crew = {1, 2, 3} BY DEF Crew
<1>4. Eater("w1") = 1 /\ Eater("w2") = 3 /\ Made("w1") = 1 /\ Made("w2") = 2
  BY DEF Eater, Made
<1>5. PICK c : c = Course(1) OBVIOUS
<1>6. c = <<MakePipe(1), MakePipe(2), Fork(2), Fork(3), Close("w1"), Close("r2"), Filter("r1",
        "w2"), Close("r1"), Close("w2"), Close("r1"), Close("w2"), WaitAll,
        Exit("0")>>
  BY <1>1, <1>5 DEF Course, FullScript, Parent30
<1>7. DOMAIN c = 1 .. 13 BY <1>6
<1>8. /\ \A k \in DOMAIN c : c[k][1] = "fork" => (k = 3 /\ c[k][2] = 2) \/ (k = 4 /\ c[k][2] = 3)
      /\ \A k \in DOMAIN c : c[k][1] = "pipe" => (k = 1 /\ c[k][2] = 1) \/ (k = 2 /\ c[k][2] = 2)
  BY <1>6
<1>9. \A p \in Crew : \A k \in DOMAIN Course(p) : \A s \in Slots :
          Holds(p, k)[s] = "w1" => Eater("w1") # 0 /\ (p = 1 => k > Made("w1"))
  <2>1. \A k \in DOMAIN c : \A s \in Slots : Holds(1, k)[s] = "w1" => k > 1
    BY <1>2, <1>7, TableHas DEF On, No
  <2> QED BY <1>3, <1>4, <1>5, <2>1
<1>10. PICK d : d = Course(1) OBVIOUS
<1>11. d = <<MakePipe(1), MakePipe(2), Fork(2), Fork(3), Close("w1"), Close("r2"), Filter("r1",
          "w2"), Close("r1"), Close("w2"), Close("r1"), Close("w2"), WaitAll,
          Exit("0")>>
  BY <1>5, <1>6, <1>10
<1>12. Work(1) = 7 /\ DOMAIN d = 1 .. 13 /\ d[7][1] # "write"
           /\ d[7][2] = "r1"
  BY <1>11 DEF Work
<1>13. From(1) = "r1" BY <1>2, <1>10, <1>12, TableSlots DEF From, On
<1>14. \A k \in DOMAIN d : k <= 7 /\ k > 1 =>
          Holds(1, k)["r1"] = "r1" \/ Holds(1, k)["stdin"] = "r1"
  BY <1>2, <1>12, TableSlots DEF On
<1>15. /\ \A k \in DOMAIN Course(1) : k <= Work(1) /\ (1 = 1 => k > 1) =>
             \E s \in Slots : Holds(1, k)[s] = "r1"
      /\ \A j, k \in DOMAIN Course(1) : Course(1)[j] = Fork(1) /\ k \in 2 .. j =>
           \E s \in Slots : Holds(1, k)[s] = "r1"
  <2>1. "r1" \in Slots /\ "stdin" \in Slots BY DEF Slots
  <2>2. \A k \in DOMAIN Course(1) : k <= Work(1) /\ (1 = 1 => k > 1) =>
          \E s \in Slots : Holds(1, k)[s] = "r1"
    BY <1>10, <1>12, <1>14, <2>1
  <2>3. \A j \in DOMAIN c : c[j] # Fork(1) BY <1>8
  <2> QED BY <1>5, <2>2, <2>3
<1>16. PipedBy("w1")
  <2>1. ReadEnd("w1") = "r1" BY DEF ReadEnd
  <2>2. 1 \in Crew /\ Work(1) > 0 /\ Course(1)[Work(1)][1] # "write"
    BY <1>3, <1>10, <1>12
  <2> QED BY <1>4, <1>5, <1>8, <1>9, <1>12, <1>13, <1>15, <2>1, <2>2 DEF PipedBy
<1>17. \A p \in Crew : \A k \in DOMAIN Course(p) : \A s \in Slots :
          Holds(p, k)[s] = "w2" => Eater("w2") # 0 /\ (p = 1 => k > Made("w2"))
  <2>1. \A k \in DOMAIN c : \A s \in Slots : Holds(1, k)[s] = "w2" => k > 2
    BY <1>2, <1>7, TableHas DEF On, No
  <2> QED BY <1>3, <1>4, <1>5, <2>1
<1>18. PICK e : e = Course(3) OBVIOUS
<1>19. e = <<Close("r1"), Close("w1"), Close("w2"), Dup2("r2", "stdin"), Close("r2"),
          Exec("cat"), Copy("stdin", "stdout"), ExitNow("0")>>
  BY <1>18 DEF Course
<1>20. Work(3) = 7 /\ DOMAIN e = 1 .. 8 /\ e[7][1] # "write"
           /\ e[7][2] = "stdin"
  BY <1>19 DEF Work
<1>21. From(3) = "r2" BY <1>2, <1>18, <1>20, TableSlots DEF From, On
<1>22. \A k \in DOMAIN e : k <= 7 =>
          Holds(3, k)["r2"] = "r2" \/ Holds(3, k)["stdin"] = "r2"
  BY <1>2, <1>20, TableSlots DEF On
<1>23. \A k \in 3 .. 4 : Holds(1, k)["r2"] = "r2"
  BY <1>2, TableSlots DEF On
<1>24. /\ \A k \in DOMAIN Course(3) : k <= Work(3) /\ (3 = 1 => k > 2) =>
             \E s \in Slots : Holds(3, k)[s] = "r2"
      /\ \A j, k \in DOMAIN Course(1) : Course(1)[j] = Fork(3) /\ k \in 3 .. j =>
           \E s \in Slots : Holds(1, k)[s] = "r2"
  <2>1. "r2" \in Slots /\ "stdin" \in Slots BY DEF Slots
  <2>2. \A k \in DOMAIN Course(3) : k <= Work(3) /\ (3 = 1 => k > 2) =>
          \E s \in Slots : Holds(3, k)[s] = "r2"
    BY <1>18, <1>20, <1>22, <2>1
  <2>3. \A j \in DOMAIN c : c[j] = Fork(3) => j = 4
    BY <1>8
  <2> QED BY <1>5, <1>23, <2>1, <2>2, <2>3
<1>25. PipedBy("w2")
  <2>1. ReadEnd("w2") = "r2" BY DEF ReadEnd
  <2>2. 3 \in Crew /\ Work(3) > 0 /\ Course(3)[Work(3)][1] # "write"
    BY <1>3, <1>18, <1>20
  <2> QED BY <1>4, <1>5, <1>8, <1>17, <1>20, <1>21, <1>24, <2>1, <2>2 DEF PipedBy
<1>26. \A k \in DOMAIN Course(1) : Course(1)[k][1] = "pipe" =>
          Course(1)[k][2] = (IF k = 1 THEN 1 ELSE 2) /\ k \in {1, 2}
  BY <1>5, <1>8
<1> QED BY <1>16, <1>25, <1>26 DEF Piped, WEnds

LEMMA Piped13 == ASSUME job \in Jobs, Smooth, job.prog = "5_13" PROVE Piped
<1>1. PICK n \in {1, 2} : n = Len(Commands13(job.args)) BY SmoothWords
<1>2. \A p, k : Holds(p, k) = Table("in", "out", No, No, No, No, No) BY DEF Holds
<1>3. PICK c : c = Course(1) OBVIOUS
<1>4. c = IF n = 1 THEN <<Fork(2), WaitAll, Exit("0")>>
          ELSE <<Fork(2), Fork(3), WaitAll, Exit("0")>>
  <2>1. Course(1) = Parent13 BY DEF Course, FullScript
  <2> QED BY <1>1, <1>3, <2>1, Parent13Is
<1>5. \A k \in DOMAIN c : c[k][1] \in {"fork", "waitall", "exit"}
  <2>1. CASE n = 1 BY <1>4, <2>1
  <2>2. CASE n = 2 BY <1>4, <2>2
  <2> QED BY <2>1, <2>2
<1>6. ASSUME NEW w \in WEnds PROVE PipedBy(w)
  <2>1. Eater(w) = 0 BY DEF WEnds, Eater
  <2>2. \A p, k : \A s \in Slots : Holds(p, k)[s] # w BY <1>2, TableHas DEF WEnds, No
  <2> QED BY <2>1, <2>2 DEF PipedBy
<1> QED BY <1>3, <1>5, <1>6 DEF Piped

(* For every job: each process goes its course.                             *)
LEMMA AllRouted == ASSUME job \in Jobs, Smooth PROVE Routed
<1>1. job.prog \in Programs BY JobAssumption
<1> QED
  BY <1>1, Routed12, Routed13, Routed14, Routed18Out, Routed18In, Routed25,
     Routed26, Routed27, Routed28, Routed29, Routed30 DEF Programs

(* For every job: the pipes.                                                *)
LEMMA AllPiped == ASSUME job \in Jobs, Smooth PROVE Piped
<1>1. job.prog \in Programs BY JobAssumption
<1> QED
  BY <1>1, Piped12, Piped13, Piped14, Piped18Out, Piped18In, Piped25,
     Piped26, Piped27, Piped28, Piped29, Piped30 DEF Programs

(* What each process moves, and from where to where.                        *)
LEMMA Tasks12 == ASSUME job \in Jobs, Smooth, job.prog = "5_12" PROVE Tasks
<1>1. Crew = {1, 2} BY DEF Crew
<1>2. Writer = 0 BY DEF Writer
<1>3. Work(1) = 0 /\ Work(2) = 2 BY DEF Work, Plain18
<1>4. PICK c : c = Course(1) OBVIOUS
<1>5. c = <<Fork(2), Wait, Exit("0")>>
  BY <1>4 DEF Course, FullScript, Parent12
<1>6. Tasked(1) BY <1>3 DEF Tasked
<1>7. Task(2) = Copy("stdin", "stdout")
  <2>1. PICK d : d = Course(2) OBVIOUS
  <2>2. d = <<Exec("cat"), Copy("stdin", "stdout"), ExitNow("0")>>
    BY <2>1 DEF Course, Plain18
  <2> QED BY <1>3, <2>1, <2>2 DEF Task
<1>8. Holds(2, 2) =
        Table("in", "out", No, No, No, No, No)
  BY DEF Holds
<1>9. From(2) = "in" BY <1>3, <1>7, <1>8, TableSlots DEF From, Task, On
<1>10. Into(2) = "out" BY <1>3, <1>7, <1>8, TableSlots DEF Into, Task, On
<1>11. 2 \in LastStage BY DEF LastStage
<1>12. Tasked(2) BY <1>2, <1>7, <1>9, <1>10, <1>11 DEF Tasked, Fed, IsPipe
<1>13. \A j, k \in DOMAIN c : c[j][1] = "open" =>
         Work(1) = 0 /\ (c[k][1] = "fork" => j < k)
  BY <1>3, <1>5
<1>14. /\ 2 \in Crew /\ Work(2) # 0 /\ Task(2)[1] # "write"
      /\ From(2) = "in"
  BY <1>1, <1>3, <1>7, <1>9
<1>15. job.prog \in Fed <=> TRUE BY DEF Fed
<1> QED BY <1>1, <1>2, <1>4, <1>6, <1>12, <1>13, <1>14, <1>15 DEF Tasks

LEMMA Tasks14 == ASSUME job \in Jobs, Smooth, job.prog = "5_14" PROVE Tasks
<1>1. Crew = {1, 2} BY DEF Crew
<1>2. Writer = 0 BY DEF Writer
<1>3. Work(1) = 0 /\ Work(2) = 0 BY DEF Work, Plain18
<1>4. PICK c : c = Course(1) OBVIOUS
<1>5. c = <<Fork(2), WaitAll, Exit("0")>>
  BY <1>4 DEF Course, FullScript, Parent14
<1>6. Tasked(1) BY <1>3 DEF Tasked
<1>7. Tasked(2) BY <1>3 DEF Tasked
<1>8. \A j, k \in DOMAIN c : c[j][1] = "open" =>
         Work(1) = 0 /\ (c[k][1] = "fork" => j < k)
  BY <1>3, <1>5
<1>9. job.prog \in Fed <=> FALSE BY DEF Fed
<1> QED BY <1>1, <1>2, <1>4, <1>6, <1>7, <1>8, <1>9 DEF Tasks

LEMMA Tasks18Out ==
  ASSUME job \in Jobs, Smooth, job.prog \in {"5_18A", "5_18C", "5_18D"} PROVE Tasks
<1>1. (job.prog = "5_18D" => job.there) /\ job.fails = 0
  BY SmoothWords, SmoothWhole DEF Plain18
<1>2. Crew = {1, 2} BY DEF Crew
<1>3. Writer = 0 BY DEF Writer
<1>4. Work(1) = 0 /\ Work(2) = 2 BY DEF Work, Plain18
<1>5. PICK c : c = Course(1) OBVIOUS
<1>6. c = <<Dup2("stdout", "save"), Open("stdout", Mode18), Fork(2), Dup2("save", "stdout"),
        Close("save"), Wait, Exit("0")>>
  BY <1>1, <1>5 DEF Course, FullScript, Parent18, Mode18
<1>7. Tasked(1) BY <1>4 DEF Tasked
<1>8. Task(2) = Copy("stdin", "stdout")
  <2>1. PICK d : d = Course(2) OBVIOUS
  <2>2. d = <<Exec("cat"), Copy("stdin", "stdout"), ExitNow("0")>>
    BY <2>1 DEF Course, Plain18
  <2> QED BY <1>4, <2>1, <2>2 DEF Task
<1>9. Holds(2, 2) =
        Table("in", Mode18, No, No, No, No, "out")
  BY DEF Holds
<1>10. From(2) = "in" BY <1>4, <1>8, <1>9, TableSlots DEF From, Task, On
<1>11. Into(2) = Mode18 BY <1>4, <1>8, <1>9, TableSlots DEF Into, Task, On
<1>12. Tasked(2) BY <1>3, <1>8, <1>10, <1>11 DEF Tasked, Fed, IsPipe, Mode18
<1>13. \A j, k \in DOMAIN c : c[j][1] = "open" =>
         Work(1) = 0 /\ (c[k][1] = "fork" => j < k)
  BY <1>4, <1>6
<1>14. /\ 2 \in Crew /\ Work(2) # 0 /\ Task(2)[1] # "write"
      /\ From(2) = "in"
  BY <1>2, <1>4, <1>8, <1>10
<1>15. job.prog \in Fed <=> TRUE BY DEF Fed
<1> QED BY <1>2, <1>3, <1>5, <1>7, <1>12, <1>13, <1>14, <1>15 DEF Tasks

LEMMA Tasks18In == ASSUME job \in Jobs, Smooth, job.prog = "5_18B" PROVE Tasks
<1>1. job.there /\ job.fails = 0
  BY SmoothWords, SmoothWhole DEF Plain18
<1>2. Crew = {1, 2} BY DEF Crew
<1>3. Writer = 0 BY DEF Writer
<1>4. Work(1) = 0 /\ Work(2) = 2 BY DEF Work, Plain18
<1>5. PICK c : c = Course(1) OBVIOUS
<1>6. c = <<Dup2("stdin", "save"), Open("stdin", "read"), Fork(2), Dup2("save", "stdin"),
        Close("save"), Wait, Exit("0")>>
  BY <1>1, <1>5 DEF Course, FullScript, Parent18
<1>7. Tasked(1) BY <1>4 DEF Tasked
<1>8. Task(2) = Copy("stdin", "stdout")
  <2>1. PICK d : d = Course(2) OBVIOUS
  <2>2. d = <<Exec("cat"), Copy("stdin", "stdout"), ExitNow("0")>>
    BY <2>1 DEF Course, Plain18
  <2> QED BY <1>4, <2>1, <2>2 DEF Task
<1>9. Holds(2, 2) =
        Table("read", "out", No, No, No, No, "in")
  BY DEF Holds
<1>10. From(2) = "read" BY <1>4, <1>8, <1>9, TableSlots DEF From, Task, On
<1>11. Into(2) = "out" BY <1>4, <1>8, <1>9, TableSlots DEF Into, Task, On
<1>12. 2 \in LastStage BY DEF LastStage
<1>13. Tasked(2) BY <1>3, <1>8, <1>10, <1>11, <1>12 DEF Tasked, Fed, IsPipe
<1>14. \A j, k \in DOMAIN c : c[j][1] = "open" =>
         Work(1) = 0 /\ (c[k][1] = "fork" => j < k)
  BY <1>4, <1>6
<1>15. /\ 2 \in Crew /\ Work(2) # 0 /\ Task(2)[1] # "write"
      /\ From(2) = "read"
  BY <1>2, <1>4, <1>8, <1>10
<1>16. job.prog \in Fed <=> FALSE BY DEF Fed
<1> QED BY <1>2, <1>3, <1>5, <1>7, <1>13, <1>14, <1>15, <1>16 DEF Tasks

LEMMA Tasks25 == ASSUME job \in Jobs, Smooth, job.prog = "5_25" PROVE Tasks
<1>1. Crew = {1, 2} BY DEF Crew
<1>2. Writer = 2 BY DEF Writer
<1>3. Work(1) = 5 /\ Work(2) = 2 BY DEF Work, Plain18
<1>4. PICK c : c = Course(1) OBVIOUS
<1>5. c = <<MakePipe(1), Put("header"), Fork(2), Close("w1"), Copy("r1", "stdout"), Close("r1"),
        Wait, Exit("0")>>
  BY <1>4 DEF Course, FullScript, Parent25
<1>6. Task(1) = Copy("r1", "stdout")
  BY <1>3, <1>4, <1>5 DEF Task
<1>7. Holds(1, 5) =
        Table("in", "out", On("r1", 5 \in 2 .. 6), On("w1", 5 \in 2 .. 4), No, No, No)
  BY DEF Holds
<1>8. From(1) = "r1" BY <1>3, <1>6, <1>7, TableSlots DEF From, Task, On
<1>9. Into(1) = "out" BY <1>3, <1>6, <1>7, TableSlots DEF Into, Task, On
<1>10. 1 \in LastStage BY DEF LastStage
<1>11. WriteEnd("r1") = "w1" /\ Eater("w1") = 1 BY DEF WriteEnd, Eater
<1>12. Tasked(1) BY <1>2, <1>6, <1>8, <1>9, <1>10, <1>11 DEF Tasked, Fed, IsPipe
<1>13. Task(2) = Write("w1", 1)
  <2>1. PICK d : d = Course(2) OBVIOUS
  <2>2. d = <<Close("r1"), Write("w1", 1), Close("w1"), Exit("0")>>
    BY <2>1 DEF Course, Plain18, Child25
  <2> QED BY <1>3, <2>1, <2>2 DEF Task
<1>14. Holds(2, 2) =
        Table("in", "out", On("r1", 2 <= 1), On("w1", 2 <= 3), No, No, No)
  BY DEF Holds
<1>15. Into(2) = "w1" BY <1>3, <1>13, <1>14, TableSlots DEF Into, Task, On
<1>16. Sent = 1 BY DEF Sent
<1>17. Tasked(2) BY <1>2, <1>13, <1>15, <1>16 DEF Tasked, WEnds
<1>18. \A j, k \in DOMAIN c : c[j][1] = "open" =>
         Work(1) = 0 /\ (c[k][1] = "fork" => j < k)
  BY <1>3, <1>5
<1>19. 2 \in Crew /\ Work(2) # 0 /\ Task(2)[1] = "write" BY <1>1, <1>3, <1>13
<1>20. job.prog \in Fed <=> FALSE BY DEF Fed
<1> QED BY <1>1, <1>2, <1>4, <1>12, <1>17, <1>18, <1>19, <1>20 DEF Tasks

LEMMA Tasks26 == ASSUME job \in Jobs, Smooth, job.prog = "5_26" PROVE Tasks
<1>1. Rest(job.args) # <<>> BY SmoothWords
<1>2. Crew = {1, 2, 3} BY DEF Crew
<1>3. Writer = 0 BY DEF Writer
<1>4. Work(1) = 0 /\ Work(2) = 5 /\ Work(3) = 5 BY DEF Work, Plain18
<1>5. PICK c : c = Course(1) OBVIOUS
<1>6. c = <<MakePipe(1), Fork(2), Fork(3), Close("r1"), Close("w1"), WaitAll, Exit("0")>>
  BY <1>1, <1>5 DEF Course, FullScript, Parent26
<1>7. Tasked(1) BY <1>4 DEF Tasked
<1>8. Task(2) = Copy("stdin", "stdout")
  <2>1. PICK d : d = Course(2) OBVIOUS
  <2>2. d = <<Dup2("w1", "stdout"), Close("r1"), Close("w1"), Exec("cat"), Copy("stdin",
          "stdout"), ExitNow("0")>>
    BY <2>1 DEF Course, Plain18
  <2> QED BY <1>4, <2>1, <2>2 DEF Task
<1>9. Holds(2, 5) =
        Table("in", IF 5 <= 1 THEN "out" ELSE "w1", On("r1", 5 <= 2), On("w1", 5 <= 3), No,
          No, No)
  BY DEF Holds
<1>10. From(2) = "in" BY <1>4, <1>8, <1>9, TableSlots DEF From, Task, On
<1>11. Into(2) = "w1" BY <1>4, <1>8, <1>9, TableSlots DEF Into, Task, On
<1>12. Tasked(2) BY <1>3, <1>8, <1>10, <1>11 DEF Tasked, Fed, IsPipe
<1>13. Task(3) = Copy("stdin", "stdout")
  <2>1. PICK d : d = Course(3) OBVIOUS
  <2>2. d = <<Dup2("r1", "stdin"), Close("r1"), Close("w1"), Exec("cat"), Copy("stdin",
          "stdout"), ExitNow("0")>>
    BY <2>1 DEF Course, Plain18
  <2> QED BY <1>4, <2>1, <2>2 DEF Task
<1>14. Holds(3, 5) =
        Table(IF 5 <= 1 THEN "in" ELSE "r1", "out", On("r1", 5 <= 2), On("w1", 5 <= 3), No,
          No, No)
  BY DEF Holds
<1>15. From(3) = "r1" BY <1>4, <1>13, <1>14, TableSlots DEF From, Task, On
<1>16. Into(3) = "out" BY <1>4, <1>13, <1>14, TableSlots DEF Into, Task, On
<1>17. 3 \in LastStage BY DEF LastStage
<1>18. WriteEnd("r1") = "w1" /\ Eater("w1") = 3 BY DEF WriteEnd, Eater
<1>19. Tasked(3) BY <1>3, <1>13, <1>15, <1>16, <1>17, <1>18 DEF Tasked, Fed, IsPipe
<1>20. \A j, k \in DOMAIN c : c[j][1] = "open" =>
         Work(1) = 0 /\ (c[k][1] = "fork" => j < k)
  BY <1>4, <1>6
<1>21. /\ 2 \in Crew /\ Work(2) # 0 /\ Task(2)[1] # "write"
      /\ From(2) = "in"
  BY <1>2, <1>4, <1>8, <1>10
<1>22. job.prog \in Fed <=> TRUE BY DEF Fed
<1> QED BY <1>2, <1>3, <1>5, <1>7, <1>12, <1>19, <1>20, <1>21, <1>22 DEF Tasks

LEMMA Tasks27 == ASSUME job \in Jobs, Smooth, job.prog = "5_27" PROVE Tasks
<1>1. Crew = {1, 2} BY DEF Crew
<1>2. Writer = 1 BY DEF Writer
<1>3. Work(1) = 5 /\ Work(2) = 5 BY DEF Work, Plain18
<1>4. PICK c : c = Course(1) OBVIOUS
<1>5. c = <<MakePipe(1), Fork(2), Close("r1"), IgnorePipe, Write("w1", Numbers), Close("w1"),
        PutFailure, Close("w1"), Wait, Exit("0")>>
  BY <1>4 DEF Course, FullScript, Parent27
<1>6. Task(1) = Write("w1", Numbers)
  BY <1>3, <1>4, <1>5 DEF Task
<1>7. Holds(1, 5) =
        Table("in", "out", On("r1", 5 \in 2 .. 3), On("w1", 5 \in 2 .. 6), No, No, No)
  BY DEF Holds
<1>8. Into(1) = "w1" BY <1>3, <1>6, <1>7, TableSlots DEF Into, Task, On
<1>9. Sent = Numbers BY DEF Sent
<1>10. Tasked(1) BY <1>2, <1>6, <1>8, <1>9 DEF Tasked, WEnds
<1>11. Task(2) = Copy("stdin", "stdout")
  <2>1. PICK d : d = Course(2) OBVIOUS
  <2>2. d = <<Dup2("r1", "stdin"), Close("r1"), Close("w1"), Exec("cat"), Copy("stdin",
          "stdout"), ExitNow("0")>>
    BY <2>1 DEF Course, Plain18
  <2> QED BY <1>3, <2>1, <2>2 DEF Task
<1>12. Holds(2, 5) =
        Table(IF 5 <= 1 THEN "in" ELSE "r1", "out", On("r1", 5 <= 2), On("w1", 5 <= 3), No,
          No, No)
  BY DEF Holds
<1>13. From(2) = "r1" BY <1>3, <1>11, <1>12, TableSlots DEF From, Task, On
<1>14. Into(2) = "out" BY <1>3, <1>11, <1>12, TableSlots DEF Into, Task, On
<1>15. 2 \in LastStage BY DEF LastStage
<1>16. WriteEnd("r1") = "w1" /\ Eater("w1") = 2 BY DEF WriteEnd, Eater
<1>17. Tasked(2) BY <1>2, <1>11, <1>13, <1>14, <1>15, <1>16 DEF Tasked, Fed, IsPipe
<1>18. \A j, k \in DOMAIN c : c[j][1] = "open" =>
         Work(1) = 0 /\ (c[k][1] = "fork" => j < k)
  BY <1>3, <1>5
<1>19. 1 \in Crew /\ Work(1) # 0 /\ Task(1)[1] = "write" BY <1>1, <1>3, <1>6
<1>20. job.prog \in Fed <=> FALSE BY DEF Fed
<1> QED BY <1>1, <1>2, <1>4, <1>10, <1>17, <1>18, <1>19, <1>20 DEF Tasks

LEMMA Tasks28 == ASSUME job \in Jobs, Smooth, job.prog = "5_28" PROVE Tasks
<1>1. Crew = {1, 2} BY DEF Crew
<1>2. Writer = 0 BY DEF Writer
<1>3. Work(1) = 4 /\ Work(2) = 5 BY DEF Work, Plain18
<1>4. PICK c : c = Course(1) OBVIOUS
<1>5. c = <<MakePipe(1), Fork(2), Close("w1"), Filter("r1", "stdout"), Close("r1"), Close("r1"),
        Wait, Exit("0")>>
  BY <1>4 DEF Course, FullScript, Parent28
<1>6. Task(1) = Filter("r1", "stdout")
  BY <1>3, <1>4, <1>5 DEF Task
<1>7. Holds(1, 4) =
        Table("in", "out", On("r1", 4 \in 2 .. 5), On("w1", 4 \in 2 .. 3), No, No, No)
  BY DEF Holds
<1>8. From(1) = "r1" BY <1>3, <1>6, <1>7, TableSlots DEF From, Task, On
<1>9. Into(1) = "out" BY <1>3, <1>6, <1>7, TableSlots DEF Into, Task, On
<1>10. 1 \in LastStage BY DEF LastStage
<1>11. WriteEnd("r1") = "w1" /\ Eater("w1") = 1 BY DEF WriteEnd, Eater
<1>12. Tasked(1) BY <1>2, <1>6, <1>8, <1>9, <1>10, <1>11 DEF Tasked, Fed, IsPipe
<1>13. Task(2) = Copy("stdin", "stdout")
  <2>1. PICK d : d = Course(2) OBVIOUS
  <2>2. d = <<Dup2("w1", "stdout"), Close("w1"), Close("r1"), Exec("cat"), Copy("stdin",
          "stdout"), ExitNow("0")>>
    BY <2>1 DEF Course, Plain18
  <2> QED BY <1>3, <2>1, <2>2 DEF Task
<1>14. Holds(2, 5) =
        Table("in", IF 5 <= 1 THEN "out" ELSE "w1", On("r1", 5 <= 3), On("w1", 5 <= 2), No,
          No, No)
  BY DEF Holds
<1>15. From(2) = "in" BY <1>3, <1>13, <1>14, TableSlots DEF From, Task, On
<1>16. Into(2) = "w1" BY <1>3, <1>13, <1>14, TableSlots DEF Into, Task, On
<1>17. Tasked(2) BY <1>2, <1>13, <1>15, <1>16 DEF Tasked, Fed, IsPipe
<1>18. \A j, k \in DOMAIN c : c[j][1] = "open" =>
         Work(1) = 0 /\ (c[k][1] = "fork" => j < k)
  BY <1>3, <1>5
<1>19. /\ 2 \in Crew /\ Work(2) # 0 /\ Task(2)[1] # "write"
      /\ From(2) = "in"
  BY <1>1, <1>3, <1>13, <1>15
<1>20. job.prog \in Fed <=> TRUE BY DEF Fed
<1> QED BY <1>1, <1>2, <1>4, <1>12, <1>17, <1>18, <1>19, <1>20 DEF Tasks

LEMMA Tasks29 == ASSUME job \in Jobs, Smooth, job.prog = "5_29" PROVE Tasks
<1>1. Crew = {1, 2, 3} BY DEF Crew
<1>2. Writer = 1 BY DEF Writer
<1>3. Work(1) = 9 /\ Work(2) = 8 /\ Work(3) = 6 BY DEF Work, Plain18
<1>4. PICK c : c = Course(1) OBVIOUS
<1>5. c = <<MakePipe(1), MakePipe(2), Fork(2), Fork(3), Close("r1"), Close("r2"), Close("w2"),
        IgnorePipe, Write("w1", Numbers), Close("w1"), PutFailure, Close("w1"),
        WaitAll, Exit("0")>>
  BY <1>4 DEF Course, FullScript, Parent29
<1>6. Task(1) = Write("w1", Numbers)
  BY <1>3, <1>4, <1>5 DEF Task
<1>7. Holds(1, 9) =
        Table("in", "out", On("r1", 9 \in 2 .. 5), On("w1", 9 \in 2 .. 10), On("r2", 9 \in 3
          .. 6), On("w2", 9 \in 3 .. 7), No)
  BY DEF Holds
<1>8. Into(1) = "w1" BY <1>3, <1>6, <1>7, TableSlots DEF Into, Task, On
<1>9. Sent = Numbers BY DEF Sent
<1>10. Tasked(1) BY <1>2, <1>6, <1>8, <1>9 DEF Tasked, WEnds
<1>11. Task(2) = Copy("stdin", "stdout")
  <2>1. PICK d : d = Course(2) OBVIOUS
  <2>2. d = <<Dup2("r1", "stdin"), Close("r1"), Close("w1"), Dup2("w2", "stdout"), Close("r2"),
          Close("w2"), Exec("cat"), Copy("stdin", "stdout"), ExitNow("0")>>
    BY <2>1 DEF Course, Plain18
  <2> QED BY <1>3, <2>1, <2>2 DEF Task
<1>12. Holds(2, 8) =
        Table(IF 8 <= 1 THEN "in" ELSE "r1", IF 8 <= 4 THEN "out" ELSE "w2", On("r1", 8 <=
          2), On("w1", 8 <= 3), On("r2", 8 <= 5), On("w2", 8 <= 6), No)
  BY DEF Holds
<1>13. From(2) = "r1" BY <1>3, <1>11, <1>12, TableSlots DEF From, Task, On
<1>14. Into(2) = "w2" BY <1>3, <1>11, <1>12, TableSlots DEF Into, Task, On
<1>15. WriteEnd("r1") = "w1" /\ Eater("w1") = 2 BY DEF WriteEnd, Eater
<1>16. Tasked(2) BY <1>2, <1>11, <1>13, <1>14, <1>15 DEF Tasked, Fed, IsPipe
<1>17. Task(3) = Count("stdin")
  <2>1. PICK d : d = Course(3) OBVIOUS
  <2>2. d = <<Close("r1"), Close("w1"), Dup2("r2", "stdin"), Close("r2"), Close("w2"),
          Count("stdin"), Put("count"), ExitNow("0")>>
    BY <2>1 DEF Course, Plain18, Child29
  <2> QED BY <1>3, <2>1, <2>2 DEF Task
<1>18. Holds(3, 6) =
        Table(IF 6 <= 3 THEN "in" ELSE "r2", "out", On("r1", 6 <= 1), On("w1", 6 <= 2),
          On("r2", 6 <= 4), On("w2", 6 <= 5), No)
  BY DEF Holds
<1>19. From(3) = "r2" BY <1>3, <1>17, <1>18, TableSlots DEF From, Task, On
<1>20. WriteEnd("r2") = "w2" /\ Eater("w2") = 3 BY DEF WriteEnd, Eater
<1>21. Tasked(3) BY <1>2, <1>17, <1>19, <1>20 DEF Tasked, Fed, IsPipe
<1>22. \A j, k \in DOMAIN c : c[j][1] = "open" =>
         Work(1) = 0 /\ (c[k][1] = "fork" => j < k)
  BY <1>3, <1>5
<1>23. 1 \in Crew /\ Work(1) # 0 /\ Task(1)[1] = "write" BY <1>1, <1>3, <1>6
<1>24. job.prog \in Fed <=> FALSE BY DEF Fed
<1> QED BY <1>1, <1>2, <1>4, <1>10, <1>16, <1>21, <1>22, <1>23, <1>24 DEF Tasks

LEMMA Tasks30 == ASSUME job \in Jobs, Smooth, job.prog = "5_30" PROVE Tasks
<1>1. Rest(job.args) # <<>> BY SmoothWords
<1>2. Crew = {1, 2, 3} BY DEF Crew
<1>3. Writer = 0 BY DEF Writer
<1>4. Work(1) = 7 /\ Work(2) = 7 /\ Work(3) = 7 BY DEF Work, Plain18
<1>5. PICK c : c = Course(1) OBVIOUS
<1>6. c = <<MakePipe(1), MakePipe(2), Fork(2), Fork(3), Close("w1"), Close("r2"), Filter("r1",
        "w2"), Close("r1"), Close("w2"), Close("r1"), Close("w2"), WaitAll,
        Exit("0")>>
  BY <1>1, <1>5 DEF Course, FullScript, Parent30
<1>7. Task(1) = Filter("r1", "w2")
  BY <1>4, <1>5, <1>6 DEF Task
<1>8. Holds(1, 7) =
        Table("in", "out", On("r1", 7 \in 2 .. 8), On("w1", 7 \in 2 .. 5), On("r2", 7 \in 3
          .. 6), On("w2", 7 \in 3 .. 9), No)
  BY DEF Holds
<1>9. From(1) = "r1" BY <1>4, <1>7, <1>8, TableSlots DEF From, Task, On
<1>10. Into(1) = "w2" BY <1>4, <1>7, <1>8, TableSlots DEF Into, Task, On
<1>11. WriteEnd("r1") = "w1" /\ Eater("w1") = 1 BY DEF WriteEnd, Eater
<1>12. Tasked(1) BY <1>3, <1>7, <1>9, <1>10, <1>11 DEF Tasked, Fed, IsPipe
<1>13. Task(2) = Copy("stdin", "stdout")
  <2>1. PICK d : d = Course(2) OBVIOUS
  <2>2. d = <<Close("r2"), Close("w2"), Close("r1"), Dup2("w1", "stdout"), Close("w1"),
          Exec("cat"), Copy("stdin", "stdout"), ExitNow("0")>>
    BY <2>1 DEF Course, Plain18
  <2> QED BY <1>4, <2>1, <2>2 DEF Task
<1>14. Holds(2, 7) =
        Table("in", IF 7 <= 4 THEN "out" ELSE "w1", On("r1", 7 <= 3), On("w1", 7 <= 5),
          On("r2", 7 <= 1), On("w2", 7 <= 2), No)
  BY DEF Holds
<1>15. From(2) = "in" BY <1>4, <1>13, <1>14, TableSlots DEF From, Task, On
<1>16. Into(2) = "w1" BY <1>4, <1>13, <1>14, TableSlots DEF Into, Task, On
<1>17. Tasked(2) BY <1>3, <1>13, <1>15, <1>16 DEF Tasked, Fed, IsPipe
<1>18. Task(3) = Copy("stdin", "stdout")
  <2>1. PICK d : d = Course(3) OBVIOUS
  <2>2. d = <<Close("r1"), Close("w1"), Close("w2"), Dup2("r2", "stdin"), Close("r2"),
          Exec("cat"), Copy("stdin", "stdout"), ExitNow("0")>>
    BY <2>1 DEF Course, Plain18
  <2> QED BY <1>4, <2>1, <2>2 DEF Task
<1>19. Holds(3, 7) =
        Table(IF 7 <= 4 THEN "in" ELSE "r2", "out", On("r1", 7 <= 1), On("w1", 7 <= 2),
          On("r2", 7 <= 5), On("w2", 7 <= 3), No)
  BY DEF Holds
<1>20. From(3) = "r2" BY <1>4, <1>18, <1>19, TableSlots DEF From, Task, On
<1>21. Into(3) = "out" BY <1>4, <1>18, <1>19, TableSlots DEF Into, Task, On
<1>22. 3 \in LastStage BY DEF LastStage
<1>23. WriteEnd("r2") = "w2" /\ Eater("w2") = 3 BY DEF WriteEnd, Eater
<1>24. Tasked(3) BY <1>3, <1>18, <1>20, <1>21, <1>22, <1>23 DEF Tasked, Fed, IsPipe
<1>25. \A j, k \in DOMAIN c : c[j][1] = "open" =>
         Work(1) = 0 /\ (c[k][1] = "fork" => j < k)
  BY <1>4, <1>6
<1>26. /\ 2 \in Crew /\ Work(2) # 0 /\ Task(2)[1] # "write"
      /\ From(2) = "in"
  BY <1>2, <1>4, <1>13, <1>15
<1>27. job.prog \in Fed <=> TRUE BY DEF Fed
<1> QED BY <1>2, <1>3, <1>5, <1>12, <1>17, <1>24, <1>25, <1>26, <1>27 DEF Tasks

LEMMA Tasks13 == ASSUME job \in Jobs, Smooth, job.prog = "5_13" PROVE Tasks
<1>1. PICK n \in {1, 2} : n = Len(Commands13(job.args)) BY SmoothWords
<1>2. 2 \in Crew /\ \A p \in Crew : p \in {1, 2, 3} BY <1>1 DEF Crew
<1>3. Writer = 0 /\ Work(1) = 0 BY DEF Writer, Work, Plain18
<1>4. ASSUME NEW p \in Kids
      PROVE  Work(p) = 2 /\ Task(p) = Copy("stdin", "stdout") /\ From(p) = "in" /\ Into(p) = "out"
  <2>1. p # 1 BY DEF Kids
  <2>2. Work(p) = 2 BY <2>1 DEF Work, Plain18
  <2>3. PICK d : d = Course(p) OBVIOUS
  <2>4. d = <<Exec("cat"), Copy("stdin", "stdout"), ExitNow("0")>>
    BY <2>1, <2>3 DEF Course, Plain18
  <2>5. Task(p) = Copy("stdin", "stdout") BY <2>2, <2>3, <2>4 DEF Task
  <2>6. Holds(p, 2) = Table("in", "out", No, No, No, No, No) BY DEF Holds
  <2>7. From(p) = "in" BY <2>2, <2>5, <2>6, TableSlots DEF From, Task
  <2>8. Into(p) = "out" BY <2>2, <2>5, <2>6, TableSlots DEF Into, Task
  <2> QED BY <2>2, <2>5, <2>7, <2>8
<1>5. 2 \in Kids /\ \A p \in Crew : p = 1 \/ p \in Kids BY <1>2 DEF Kids
<1>6. \A p \in Kids : p \in LastStage BY DEF LastStage, Kids
<1>7. job.prog \in Fed BY DEF Fed
<1>8. ASSUME NEW p \in Crew PROVE Tasked(p)
  <2>1. CASE p = 1 BY <1>3, <2>1 DEF Tasked
  <2>2. CASE p \in Kids BY <1>3, <1>4, <1>6, <1>7, <2>2 DEF Tasked, IsPipe, Kids
  <2> QED BY <1>5, <2>1, <2>2
<1>9. \A k \in DOMAIN Course(1) : Course(1)[k][1] # "open"
  <2>1. Course(1) = Parent13 BY DEF Course, FullScript
  <2>2. PICK c : c = Course(1) OBVIOUS
  <2>3. c = IF n = 1 THEN <<Fork(2), WaitAll, Exit("0")>>
            ELSE <<Fork(2), Fork(3), WaitAll, Exit("0")>>
    BY <1>1, <2>1, <2>2, Parent13Is
  <2>4. CASE n = 1 BY <2>2, <2>3, <2>4
  <2>5. CASE n = 2 BY <2>2, <2>3, <2>5
  <2> QED BY <2>4, <2>5
<1>10. 2 \in Crew /\ Work(2) # 0 /\ Task(2)[1] # "write" /\ From(2) = "in" BY <1>2, <1>4, <1>5
<1> QED BY <1>3, <1>8, <1>9, <1>10 DEF Tasks

(* For every job: the moving calls.                                         *)
LEMMA AllTasks == ASSUME job \in Jobs, Smooth PROVE Tasks
<1>1. job.prog \in Programs BY JobAssumption
<1> QED
  BY <1>1, Tasks12, Tasks13, Tasks14, Tasks18Out, Tasks18In, Tasks25,
     Tasks26, Tasks27, Tasks28, Tasks29, Tasks30 DEF Programs

-----------------------------------------------------------------------------
(* The descriptors, step by step.                                           *)

(* Nothing of this changes while the program runs.                          *)
LEMMA CourseStays ==
  ASSUME job' = job
  PROVE  /\ Crew' = Crew /\ Smooth' = Smooth
         /\ \A p \in Procs : /\ Course(p)' = Course(p) /\ Work(p)' = Work(p)
                             /\ Turn(p)' = Turn(p) /\ Base(p)' = Base(p)
         /\ \A p \in Procs : \A k : Holds(p, k)' = Holds(p, k)
         /\ \A w : Eater(w)' = Eater(w)
<1>1. /\ FullScript' = FullScript
      /\ \A p \in Procs : ChildScript(p)' = ChildScript(p)
  BY ScriptsStay
<1>2. Crew' = Crew BY DEF Crew
<1>3. Smooth' = Smooth BY DEF Smooth, AllCopy
<1>4. Child29(3)' = Child29(3) /\ Child14' = Child14 /\ Child25' = Child25
  BY DEF Child29, Child14, Child25
<1>5. ASSUME NEW p \in Procs
      PROVE  /\ Course(p)' = Course(p) /\ Work(p)' = Work(p)
             /\ Turn(p)' = Turn(p) /\ Base(p)' = Base(p)
  <2>1. Course(p)' = Course(p) BY <1>1, <1>4 DEF Course
  <2>2. Work(p)' = Work(p) BY DEF Work
  <2>3. Turn(p)' = Turn(p) BY <1>1 DEF Turn
  <2>4. Base(p)' = Base(p) BY <1>1 DEF Base
  <2> QED BY <2>1, <2>2, <2>3, <2>4
<1>6. Mode18' = Mode18 BY DEF Mode18
<1>7. \A p \in Procs : \A k : Holds(p, k)' = Holds(p, k) BY <1>6 DEF Holds
<1>8. \A w : Eater(w)' = Eater(w) BY DEF Eater
<1> QED BY <1>2, <1>3, <1>5, <1>7, <1>8

(* Where a process that runs is, and what it holds.                         *)
LEMMA OnCourse ==
  ASSUME HInv, NEW p \in Procs, life[p] = "run"
  PROVE  /\ p \in Crew /\ Place(p) \in DOMAIN Course(p)
         /\ Call(p) = Course(p)[Place(p)] /\ fds[p] = Holds(p, Place(p))
BY DEF HInv, OnPath

LEMMA CrewAre == Crew \subseteq Procs /\ 1 \in Crew
<1>1. Crew = {1, 2} \/ Crew = {1, 2, 3} BY DEF Crew
<1> QED BY <1>1 DEF Procs

(* The places of a course are numbers, and the first is in it.              *)
LEMMA Steps ==
  ASSUME CInv, Smooth, NEW p \in Crew
  PROVE  /\ WellRun(p) /\ step[p] \in Nat \ {0} /\ Turn(p) \in Nat /\ Work(p) \in Nat
         /\ Place(p) \in Nat /\ DOMAIN Course(p) = 1 .. Len(Course(p)) /\ Len(Course(p)) \in Nat
<1>1. Routed BY AllRouted DEF CInv
<1>2. WellRun(p) BY <1>1 DEF Routed
<1>3. p \in Procs BY CrewAre
<1>4. step[p] \in Nat \ {0} BY <1>3, ScriptRuns DEF CInv, Runs
<1>5. Len(Course(p)) \in Nat /\ DOMAIN Course(p) = 1 .. Len(Course(p)) BY <1>2 DEF WellRun
<1> QED BY <1>2, <1>4, <1>5 DEF WellRun, Place

(* A process that moves data does so in its one place.                      *)
LEMMA Moving ==
  ASSUME CInv, Smooth, HInv, NEW p \in Procs, life[p] = "run", Call(p)[1] \in Moves
  PROVE  /\ p \in Crew /\ Place(p) = Work(p) /\ Work(p) # 0 /\ Call(p) = Task(p)
         /\ Tasked(p)
         /\ Call(p)[1] # "count" => Target(p) = Into(p)
         /\ Call(p)[1] # "write" => fds[p][Call(p)[2]] = From(p)
<1>1. /\ p \in Crew /\ Place(p) \in DOMAIN Course(p)
      /\ Call(p) = Course(p)[Place(p)] /\ fds[p] = Holds(p, Place(p))
  BY OnCourse
<1>2. WellRun(p) /\ DOMAIN Course(p) = 1 .. Len(Course(p)) BY <1>1, Steps
<1>3. Place(p) = Work(p) BY <1>1, <1>2 DEF WellRun
<1>4. Work(p) # 0 BY <1>1, <1>2, <1>3
<1>5. Tasked(p) BY <1>1, AllTasks DEF CInv, Tasks
<1>6. ASSUME Call(p)[1] # "count" PROVE Target(p) = Into(p)
  <2>1. CASE Call(p)[1] = "write"
    BY <1>1, <1>3, <2>1 DEF Target, Calls, Arg, Into
  <2>2. CASE Call(p)[1] # "write"
    BY <1>1, <1>3, <2>2 DEF Target, Calls, Into
  <2> QED BY <2>1, <2>2
<1>7. Call(p)[1] # "write" => fds[p][Call(p)[2]] = From(p)
  BY <1>1, <1>3 DEF From
<1> QED BY <1>1, <1>3, <1>4, <1>5, <1>6, <1>7 DEF Task

(* When a child is born.                                                    *)
LEMMA BornAt ==
  ASSUME CInv, FInv, Smooth, NEW q \in Crew, q # 1
  PROVE  \E j \in DOMAIN Course(1) :
           Course(1)[j] = Fork(q) /\ j < Len(Course(1)) /\ (life[q] = "none" <=> step[1] <= j)
<1>1. Routed BY AllRouted DEF CInv
<1>2. PICK j \in DOMAIN Course(1) : Course(1)[j] = Fork(q)
  <2>1. q \in Crew \ {1} OBVIOUS
  <2> QED BY <1>1, <2>1 DEF Routed
<1>3. Course(1) = ParentScript BY SmoothWhole DEF Course
<1>4. Forks(j) /\ ParentScript[j][2] = q BY <1>2, <1>3 DEF Forks
<1>5. life[q] = "none" <=> step[1] <= j BY <1>2, <1>3, <1>4 DEF FInv
<1>6. j < Len(Course(1))
  <2>1. /\ WellRun(1) /\ DOMAIN Course(1) = 1 .. Len(Course(1)) /\ Len(Course(1)) \in Nat
    BY CrewAre, Steps
  <2>2. j # Len(Course(1)) BY <1>2, <2>1 DEF WellRun
  <2> QED BY <1>2, <2>1, <2>2
<1> QED BY <1>2, <1>5, <1>6

(* Who holds what.                                                          *)
LEMMA Holder ==
  ASSUME CInv, HInv, NEW p \in Procs, NEW s \in Slots, fds[p][s] # "closed"
  PROVE  life[p] = "run" /\ p \in Crew
<1>1. Closed[s] = "closed" BY DEF Closed
<1>2. life[p] \in Lives BY DEF CInv
<1>3. p \in Crew BY <1>1 DEF HInv
<1> QED BY <1>1, <1>2, <1>3 DEF HInv, OnPath, Lives

(* A pipe that somebody can write has been made, and has a reader.          *)
LEMMA OpenLater ==
  ASSUME CInv, FInv, Smooth, HInv, NEW w \in WEnds, IsOpen(w)
  PROVE  Eater(w) # 0 /\ step[1] > Made(w) /\ PipedBy(w)
<1>1. PICK p \in Procs, s \in Slots : fds[p][s] = w BY DEF IsOpen
<1>2. w # "closed" BY DEF WEnds
<1>3. life[p] = "run" /\ p \in Crew BY <1>1, <1>2, Holder
<1>4. fds[p] = Holds(p, Place(p)) /\ Place(p) \in DOMAIN Course(p) BY <1>3, OnCourse
<1>5. PipedBy(w) BY AllPiped DEF CInv, Piped
<1>6. Eater(w) # 0 /\ (p = 1 => Place(p) > Made(w)) BY <1>1, <1>3, <1>4, <1>5 DEF PipedBy
<1>7. CASE p = 1
  <2>1. Place(1) = step[1] BY DEF Place, CInv
  <2> QED BY <1>5, <1>6, <1>7, <2>1
<1>8. CASE p # 1
  <2>1. PICK j \in DOMAIN Course(1) :
           Course(1)[j] = Fork(p) /\ (life[p] = "none" <=> step[1] <= j)
    BY <1>3, <1>8, BornAt
  <2>2. j > Made(w) BY <1>5, <1>6, <2>1 DEF PipedBy
  <2>3. j \in Nat /\ step[1] \in Nat /\ Made(w) \in Nat
    <3>1. DOMAIN Course(1) = 1 .. Len(Course(1)) /\ step[1] \in Nat BY CrewAre, Steps
    <3> QED BY <3>1 DEF Made
  <2>4. ~(step[1] <= j) BY <1>3, <2>1
  <2> QED BY <1>5, <1>6, <2>2, <2>3, <2>4
<1> QED BY <1>7, <1>8

(* As long as a pipe can be written, somebody can read it.                  *)
LEMMA Readable ==
  ASSUME CInv, FInv, Smooth, HInv, GInv, NEW w \in WEnds, IsOpen(w)
  PROVE  IsOpen(ReadEnd(w))
<1> DEFINE e == Eater(w)
<1>1. e # 0 /\ step[1] > Made(w) /\ PipedBy(w) BY OpenLater
<1>2. e \in Crew /\ e \in Procs /\ 1 \in Crew /\ 1 \in Procs BY <1>1, CrewAre DEF PipedBy
<1>3. ~(Place(e) > Work(e)) BY <1>1 DEF GInv
<1>4. Place(e) \in Nat /\ Work(e) \in Nat /\ WellRun(e) /\ Len(Course(e)) \in Nat BY <1>2, Steps
<1>5. Place(1) = step[1] /\ step[1] \in Nat BY <1>2, Steps DEF Place, CInv
<1>6. life[e] \in Lives BY <1>2 DEF CInv
<1>7. CASE life[e] = "run"
  <2>1. fds[e] = Holds(e, Place(e)) /\ Place(e) \in DOMAIN Course(e) BY <1>2, <1>7, OnCourse
  <2>2. e = 1 => Place(e) > Made(w) BY <1>1, <1>5
  <2>3. Place(e) <= Work(e) BY <1>3, <1>4
  <2>4. \E s \in Slots : Holds(e, Place(e))[s] = ReadEnd(w)
    BY <1>1, <2>1, <2>2, <2>3 DEF PipedBy
  <2> QED BY <1>2, <2>1, <2>4 DEF IsOpen
<1>8. CASE life[e] = "none"
  <2>1. e # 1 BY <1>8 DEF CInv
  <2>2. PICK j \in DOMAIN Course(1) :
           Course(1)[j] = Fork(e) /\ j < Len(Course(1)) /\ (life[e] = "none" <=> step[1] <= j)
    BY <1>2, <2>1, BornAt
  <2>3. life[1] = "run"
    <3>1. life[1] = "zombie" => Place(1) = Len(Course(1)) BY <1>2 DEF HInv, OnPath
    <3>2. Len(Course(1)) \in Nat /\ DOMAIN Course(1) = 1 .. Len(Course(1)) BY <1>2, Steps
    <3> QED BY <1>2, <1>5, <1>8, <2>2, <3>1, <3>2 DEF CInv
  <2>4. fds[1] = Holds(1, step[1]) /\ step[1] \in DOMAIN Course(1) BY <1>2, <1>5, <2>3, OnCourse
  <2>5. step[1] \in Made(w) + 1 .. j
    <3>1. DOMAIN Course(1) = 1 .. Len(Course(1)) /\ Made(w) \in Nat BY <1>2, Steps DEF Made
    <3> QED BY <1>1, <1>5, <1>8, <2>2, <3>1
  <2>6. \E s \in Slots : Holds(1, step[1])[s] = ReadEnd(w)
    BY <1>1, <2>2, <2>4, <2>5 DEF PipedBy
  <2> QED BY <1>2, <2>4, <2>6 DEF IsOpen
<1>9. CASE life[e] \in {"zombie", "gone"}
  <2>1. Place(e) = Len(Course(e)) BY <1>2, <1>9 DEF HInv, OnPath
  <2>2. Work(e) \in 0 .. Len(Course(e)) - 1 BY <1>4 DEF WellRun
  <2> QED BY <1>3, <1>4, <2>1, <2>2
<1> QED BY <1>6, <1>7, <1>8, <1>9 DEF Lives

(* So no write() fails,                                                     *)
LEMMA Unbroken ==
  ASSUME CInv, FInv, Smooth, HInv, GInv, NEW p \in Procs
  PROVE  ~DoBrokenPipe(p)
<1> SUFFICES ASSUME DoBrokenPipe(p) PROVE FALSE OBVIOUS
<1>1. Writing(p) /\ IsPipe(Target(p)) /\ ~IsOpen(ReadEnd(Target(p))) BY DEF DoBrokenPipe
<1>2. life[p] = "run" /\ Call(p)[1] \in {"copy", "filter", "write"}
  BY <1>1 DEF Writing, Calls, CInv
<1>3. p \in Crew /\ Tasked(p) /\ Target(p) = Into(p) /\ Work(p) # 0 /\ Call(p) = Task(p)
  BY <1>2, Moving DEF Moves
<1>4. Into(p) \in WEnds BY <1>1, <1>2, <1>3 DEF Tasked, IsPipe, WEnds
<1>5. IsOpen(Into(p))
  <2>1. \E s \in Slots : fds[p][s] = Target(p)
    <3>1. WellFormed(Call(p)) BY CallIs
    <3>2. (IF Calls(p, "write") THEN Arg(p) ELSE Call(p)[3]) \in Slots
      BY <1>2, <3>1 DEF WellFormed, Calls, Arg
    <3> QED BY <3>2 DEF Target
  <2> QED BY <1>3, <2>1 DEF IsOpen
<1>6. IsOpen(ReadEnd(Into(p))) BY <1>4, <1>5, Readable
<1> QED BY <1>1, <1>3, <1>6

(* and a process ends only by a call that ends it.                          *)
LEMMA OnlyBroken ==
  ASSUME NEW p \in Procs, Step(p)
  PROVE  /\ failed' = failed \/ DoBrokenPipe(p)
         /\ Stops(p) => Call(p)[1] \in {"exit", "_exit", "die"} \/ DoBrokenPipe(p)
<1>1. failed' = failed \/ DoBrokenPipe(p)
  BY DEF Step, DoClose, DoDup2, DoPipe, DoOpen, DoIgnore, DoPut, DoPutFailure, DoReadEnd,
         DoRead, DoExec, DoWrite, DoWritePipe, DoFork, DoExit, DoDie, DoWait, NoChildLeft
<1>2. ASSUME Stops(p) PROVE Call(p)[1] \in {"exit", "_exit", "die"} \/ DoBrokenPipe(p)
  <2>1. life[p] = "run" /\ life'[p] = "zombie" BY <1>2 DEF Stops
  <2>2. life' # life BY <2>1
  <2>3. DoExit(p) \/ DoDie(p) => Call(p)[1] \in {"exit", "_exit", "die"}
    BY DEF DoExit, DoDie, Calls
  <2>4. ~DoFork(p)
    <3>1. ASSUME DoFork(p) PROVE FALSE
      <4>1. \E q : life' = [life EXCEPT ![q] = "run"] BY <3>1 DEF DoFork
      <4> QED BY <2>1, <4>1
    <3> QED BY <3>1
  <2>5. ~DoWait(p)
    <3>1. ASSUME DoWait(p) PROVE FALSE
      <4>1. \E q : life' = [life EXCEPT ![q] = "gone"] BY <3>1 DEF DoWait
      <4> QED BY <2>1, <4>1
    <3> QED BY <3>1
  <2> QED
    BY <2>2, <2>3, <2>4, <2>5
       DEF Step, DoClose, DoDup2, DoPipe, DoOpen, DoIgnore, DoPut, DoPutFailure, DoReadEnd,
           DoRead, DoExec, DoWrite, DoWritePipe, NoChildLeft
<1> QED BY <1>1, <1>2

(* A status is that of the process which ends.                              *)
LEMMA StatusKept ==
  ASSUME CInv, FInv, NEW o \in Procs, Step(o), NEW p \in Procs
  PROVE  /\ ~Stops(p) => status'[p] = status[p]
         /\ Stops(p) => p = o
<1>1. status \in [Procs -> Codes] BY DEF FInv
<1>2. Stops(p) => p = o
  <2>1. \A q \in Procs : q = 1 \/ q \in Kids BY DEF Procs, Kids
  <2> QED BY <2>1, Kinds DEF Stops, Alone, Births, Burials, Stays, Advances, IsBorn, IsReaped
<1>3. \E st : (status' = [status EXCEPT ![o] = st] /\ Stops(o)) \/ status' = status
  BY StatusStep
<1> QED BY <1>1, <1>2, <1>3

(* A step leaves every process on its course.                               *)
LEMMA PathStays ==
  ASSUME CInv, FInv, Smooth, HInv, GInv, NEW o \in Procs, Step(o),
         NEW p \in Crew, life'[p] # "none"
  PROVE  OnPath(p)'
<1>1. job' = job BY Shapes
<1>2. p \in Procs /\ 1 \in Crew /\ 1 \in Procs BY CrewAre
<1>3. PICK c, n, t : c = Course(p) /\ n = Len(Course(p)) /\ t = Turn(p) OBVIOUS
<1>4. /\ Course(p)' = c /\ Turn(p)' = t /\ Len(Course(p))' = n /\ Base(p)' = Base(p)
      /\ \A k : Holds(p, k)' = Holds(p, k)
  BY <1>1, <1>2, <1>3, CourseStays
<1>5. /\ n \in Nat /\ DOMAIN c = 1 .. n /\ t \in 1 .. n
      /\ \A k \in DOMAIN c :
           /\ c[k][1] \in EndingCalls <=> k = n
           /\ k = n => c[k][1] \in {"exit", "_exit"} /\ c[k][2] = "0"
           /\ k <= t => k \in DOMAIN Base(p) /\ Base(p)[k] = c[k]
           /\ c[k][1] = "exec" => k = t /\ t # n /\ c[k][2] = "cat"
           /\ k # n => After(Holds(p, k), c[k]) = Holds(p, k + 1)
      /\ t # n => /\ n = t + 2 /\ c[t][1] = "exec"
                  /\ c[t + 1] = Cat[1] /\ c[t + 2] = Cat[2]
  <2>1. WellRun(p) BY Steps
  <2> QED BY ONLY <1>3, <2>1 DEF WellRun
<1>6. step[p] \in Nat \ {0} BY Steps
<1>7. life[p] # "none" =>
        /\ image[p] \in {"main", "cat"} /\ (image[p] = "cat" => t # n)
        /\ Place(p) \in 1 .. n /\ (image[p] = "main" => step[p] <= t)
        /\ Place(p) = IF image[p] = "main" THEN step[p] ELSE t + step[p]
        /\ Call(p) = c[Place(p)]
        /\ life[p] = "run" => fds[p] = Holds(p, Place(p))
        /\ life[p] \in {"zombie", "gone"} =>
             Place(p) = n /\ fds[p] = Closed /\ status[p] = "0"
  BY <1>3, <1>5 DEF HInv, OnPath, Place
<1>8. /\ \A k : image'[p] = "main" => Script(p)'[k] = Base(p)[k]
      /\ \A k : image'[p] = "cat" => Script(p)'[k] = Cat[k]
  <2>1. ParentScript' = FullScript /\ ChildScript(p)' = ChildScript(p)
    BY <1>1, <1>2, ScriptsStay, SmoothWhole
  <2> QED BY <2>1 DEF Script, Base, Cat
<1>9. Call(p)' = Script(p)'[step'[p]] BY DEF Call
<1>10. Place(p)' = IF image'[p] = "main" THEN step'[p] ELSE t + step'[p] BY <1>4 DEF Place
<1> SUFFICES /\ image'[p] \in {"main", "cat"} /\ (image'[p] = "cat" => t # n)
             /\ Place(p)' \in 1 .. n /\ (image'[p] = "main" => step'[p] <= t)
             /\ Call(p)' = c[Place(p)']
             /\ life'[p] = "run" => fds'[p] = Holds(p, Place(p)')
             /\ life'[p] \in {"zombie", "gone"} =>
                  Place(p)' = n /\ fds'[p] = Closed /\ status'[p] = "0"
  BY <1>4, <1>5 DEF OnPath, Closed
<1>11. CASE Stays(p)
  <2>1. Place(p)' = Place(p) BY <1>7, <1>10, <1>11 DEF Stays
  <2>2. Call(p)' = Call(p)
    <3>1. Script(p)' = Script(p) BY <1>1, <1>2, <1>11, ScriptStays DEF Stays
    <3> QED BY <3>1, <1>11 DEF Stays, Call
  <2>3. life[p] # "none" /\ (life[p] # "run" => status'[p] = status[p])
    BY <1>2, <1>11, StatusKept DEF Stays, Stops
  <2> QED BY <1>7, <1>11, <2>1, <2>2, <2>3 DEF Stays
<1>12. CASE Advances(p)
  <2>1. /\ life[p] = "run" /\ life'[p] = "run" /\ image'[p] = image[p] /\ step'[p] = step[p] + 1
        /\ fds'[p] = After(fds[p], Call(p)) /\ Call(p)[1] \notin EndingCalls
        /\ Call(p)[1] = "exec" => Call(p)[2] \notin Images
    BY <1>12 DEF Advances
  <2>2. PICK k \in 1 .. n : k = Place(p) BY <1>7, <2>1
  <2>3. /\ Call(p) = c[k] /\ k # n /\ fds[p] = Holds(p, k) /\ c[k][1] # "exec"
    <3>1. "cat" \in Images BY DEF Images
    <3> QED BY <1>5, <1>7, <2>1, <2>2, <3>1
  <2>4. Place(p)' = k + 1 BY <1>6, <1>7, <1>10, <2>1, <2>2, <1>5
  <2>5. fds'[p] = Holds(p, k + 1) BY <1>5, <2>1, <2>3
  <2>6. CASE image[p] = "main"
    <3>1. k = step[p] /\ k <= t BY <1>7, <2>1, <2>2, <2>6
    <3>2. k # t BY <1>5, <2>3
    <3>3. k + 1 <= t BY <1>5, <3>1, <3>2
    <3>4. Call(p)' = c[k + 1] BY <1>5, <1>8, <1>9, <2>1, <2>2, <2>6, <3>1, <3>3
    <3> QED BY <1>5, <2>1, <2>2, <2>4, <2>5, <2>6, <3>1, <3>3, <3>4
  <2>7. CASE image[p] = "cat"
    <3>1. t # n /\ n = t + 2 /\ k = t + step[p] BY <1>5, <1>7, <2>1, <2>2, <2>7
    <3>2. step[p] = 1 /\ k = t + 1 BY <1>5, <1>6, <2>2, <2>3, <3>1
    <3>3. Call(p)' = c[t + 2] BY <1>5, <1>8, <1>9, <2>1, <2>7, <3>1, <3>2
    <3> QED BY <1>5, <2>1, <2>4, <2>5, <2>7, <3>1, <3>2, <3>3
  <2> QED BY <1>7, <2>1, <2>6, <2>7
<1>13. CASE Becomes(p)
  <2>1. /\ life[p] = "run" /\ life'[p] = "run" /\ Call(p)[1] = "exec"
        /\ image'[p] = Call(p)[2] /\ step'[p] = 1 /\ fds'[p] = fds[p]
    BY <1>13 DEF Becomes
  <2>2. PICK k \in 1 .. n : k = Place(p) BY <1>7, <2>1
  <2>3. Call(p) = c[k] /\ fds[p] = Holds(p, k) BY <1>7, <2>1, <2>2
  <2>4. k = t /\ t # n /\ image'[p] = "cat" BY <1>5, <2>1, <2>2, <2>3
  <2>5. Place(p)' = t + 1 BY <1>10, <2>1, <2>4
  <2>6. Call(p)' = c[t + 1] BY <1>5, <1>8, <1>9, <2>1, <2>4
  <2>7. fds'[p] = Holds(p, t + 1)
    <3>1. After(Holds(p, k), c[k]) = Holds(p, k) BY <2>1, <2>3, AfterSame
    <3> QED BY <1>5, <2>1, <2>2, <2>3, <2>4, <3>1
  <2> QED BY <1>5, <2>1, <2>4, <2>5, <2>6, <2>7
<1>14. CASE Stops(p)
  <2>1. p = o /\ ~DoBrokenPipe(p) BY <1>2, <1>14, StatusKept, Unbroken
  <2>2. Call(p)[1] \in {"exit", "_exit", "die"} BY <1>2, <1>14, <2>1, OnlyBroken
  <2>3. /\ life[p] = "run" /\ life'[p] = "zombie" /\ fds'[p] = Closed
        /\ image'[p] = image[p] /\ step'[p] = step[p]
    BY <1>14 DEF Stops
  <2>4. Place(p)' = Place(p) /\ Call(p) = c[Place(p)] /\ Place(p) \in 1 .. n
    BY <1>7, <1>10, <2>3
  <2>5. Place(p) = n /\ Call(p)[2] = "0" BY <1>5, <2>2, <2>4 DEF EndingCalls
  <2>6. status'[p] = "0"
    <3>1. status \in [Procs -> Codes] BY DEF FInv
    <3>2. PICK st : status' = [status EXCEPT ![p] = st] /\ st = Call(p)[2]
      BY <1>2, <1>14, <2>1, <2>2, StatusStep
    <3> QED BY <1>2, <2>5, <3>1, <3>2
  <2>7. Call(p)' = Call(p)
    <3>1. Script(p)' = Script(p) BY <1>1, <1>2, <2>3, ScriptStays
    <3> QED BY <3>1, <2>3 DEF Call
  <2> QED BY <1>7, <2>3, <2>4, <2>5, <2>6, <2>7
<1>15. CASE p # 1 /\ IsBorn(p)
  <2>1. /\ Call(1)[1] = "fork" /\ Call(1)[2] = p /\ life[1] = "run" /\ life'[p] = "run"
        /\ image'[p] = image[p] /\ step'[p] = step[p] /\ fds'[p] = fds[1]
    BY <1>15 DEF IsBorn
  <2>2. PICK k \in DOMAIN Course(1) : Call(1) = Course(1)[k] /\ fds[1] = Holds(1, k)
    BY <1>2, <2>1, OnCourse
  <2>3. Holds(p, 1) = Holds(1, k)
    <3>1. Routed BY AllRouted DEF CInv
    <3> QED BY <2>1, <2>2, <3>1 DEF Routed
  <2>4. life[p] = "none"
    <3>1. /\ Call(1) = ParentScript[step[1]] /\ step[1] \in DOMAIN ParentScript
          /\ step[1] \in Nat
      BY <1>2, ParentIs DEF Call, CInv
    <3>2. Forks(step[1]) /\ ParentScript[step[1]][2] = p BY <2>1, <3>1 DEF Forks
    <3> QED BY <3>1, <3>2 DEF FInv
  <2>5. image[p] = "main" /\ step[p] = 1
    <3>1. p \in Kids BY <1>2, <1>15 DEF Procs, Kids
    <3> QED BY <2>4, <3>1 DEF CInv
  <2>6. Place(p)' = 1 /\ Call(p)' = c[1] BY <1>5, <1>8, <1>9, <1>10, <2>1, <2>5
  <2> QED BY <1>5, <2>1, <2>2, <2>3, <2>5, <2>6
<1>16. CASE p # 1 /\ IsReaped(p)
  <2>1. /\ life[p] = "zombie" /\ life'[p] = "gone"
        /\ image'[p] = image[p] /\ step'[p] = step[p] /\ fds'[p] = fds[p]
    BY <1>16 DEF IsReaped
  <2>2. Place(p)' = Place(p) BY <1>7, <1>10, <2>1
  <2>3. Call(p)' = Call(p)
    <3>1. Script(p)' = Script(p) BY <1>1, <1>2, <2>1, ScriptStays
    <3> QED BY <3>1, <2>1 DEF Call
  <2>4. status'[p] = status[p] BY <1>2, <2>1, StatusKept DEF Stops
  <2> QED BY <1>7, <2>1, <2>2, <2>3, <2>4
<1> QED BY <1>2, <1>11, <1>12, <1>13, <1>14, <1>15, <1>16, Everyone

LEMMA HInit == Init /\ Smooth => HInv
<1> SUFFICES ASSUME Init, Smooth PROVE HInv OBVIOUS
<1>1. CInv BY CInit
<1>2. Routed BY <1>1, AllRouted DEF CInv
<1>3. /\ \A p \in Procs : image[p] = "main" /\ step[p] = 1 /\ life[p] = (IF p = 1 THEN "run" ELSE "none")
      /\ failed = FALSE
  BY DEF Init
<1>4. /\ \A p \in Procs \ {1} : fds[p] = Closed
      /\ fds[1] = Table("in", "out", No, No, No, No, No)
  <2>1. \A p \in Procs : fds[p] = [s \in Slots |->
              IF p # 1 THEN "closed"
              ELSE CASE s = "stdin" -> "in" [] s = "stdout" -> "out" [] OTHER -> "closed"]
    BY DEF Init
  <2>2. \A p \in Procs \ {1} : fds[p] = Closed BY <2>1 DEF Closed
  <2>3. fds[1] = [s \in Slots |->
              CASE s = "stdin" -> "in" [] s = "stdout" -> "out" [] OTHER -> "closed"]
    BY <2>1 DEF Procs
  <2>4. \A s \in Slots :
          (CASE s = "stdin" -> "in" [] s = "stdout" -> "out" [] OTHER -> "closed")
            = (IF s = "stdin" THEN "in" ELSE IF s = "stdout" THEN "out" ELSE "closed")
    BY DEF Slots
  <2> QED BY <2>2, <2>3, <2>4 DEF Table, No, Slots
<1>5. 1 \in Crew /\ 1 \in Procs /\ Crew \subseteq Procs BY CrewAre
<1>6. OnPath(1)
  <2>1. WellRun(1) BY <1>5, Steps, <1>1
  <2>2. /\ Len(Course(1)) \in Nat /\ DOMAIN Course(1) = 1 .. Len(Course(1))
        /\ Turn(1) \in 1 .. Len(Course(1))
    BY <2>1 DEF WellRun
  <2>3. Place(1) = 1 /\ Call(1) = ParentScript[1] BY <1>3, <1>5 DEF Place, Call, Script
  <2>4. Course(1) = ParentScript BY SmoothWhole DEF Course
  <2>5. fds[1] = Holds(1, 1) BY <1>2, <1>4 DEF Routed
  <2> QED BY <1>3, <1>5, <2>2, <2>3, <2>4, <2>5 DEF OnPath
<1> QED BY <1>3, <1>4, <1>5, <1>6 DEF HInv

(* With every step, everybody stays on course.                              *)
LEMMA HStep ==
  ASSUME CInv, FInv, Smooth, HInv, GInv, [Next]_vars PROVE HInv'
<1>1. CASE UNCHANGED vars
  <2>1. job' = job BY <1>1 DEF vars
  <2>2. \A p \in Procs : Call(p)' = Call(p) BY <1>1, ScriptStays DEF vars, Call
  <2>3. /\ Crew' = Crew /\ Crew \subseteq Procs
        /\ \A p \in Procs : /\ Course(p)' = Course(p) /\ Turn(p)' = Turn(p)
                            /\ \A k : Holds(p, k)' = Holds(p, k)
    BY <2>1, CourseStays, CrewAre
  <2>4. \A p \in Procs : Place(p)' = Place(p) BY <1>1, <2>3 DEF Place, vars
  <2>5. \A p \in Crew : OnPath(p) => OnPath(p)'
    BY <1>1, <2>2, <2>3, <2>4 DEF OnPath, vars, Closed
  <2> QED BY <1>1, <2>3, <2>5 DEF HInv, vars, Closed
<1>2. ASSUME NEW o \in Procs, Step(o) PROVE HInv'
  <2>1. job' = job BY <1>2, Shapes
  <2>2. Crew' = Crew /\ Crew \subseteq Procs /\ 1 \in Crew /\ 1 \in Procs
    BY <2>1, CourseStays, CrewAre
  <2>3. ASSUME NEW p \in Crew, life'[p] # "none" PROVE OnPath(p)'
    BY <1>2, <2>3, PathStays
  <2>4. failed' = FALSE BY <1>2, OnlyBroken, Unbroken DEF HInv
  <2>5. ASSUME NEW p \in Procs, life[p] = "none"
        PROVE  Stays(p) \/ (IsBorn(p) /\ p \in Crew)
    <3>1. Stays(p) \/ IsBorn(p)
      BY <1>2, <2>5, Everyone DEF Advances, Becomes, Stops, IsReaped
    <3>2. ASSUME IsBorn(p) PROVE p \in Crew
      <4>1. Call(1)[1] = "fork" /\ Call(1)[2] = p /\ life[1] = "run" BY <3>2 DEF IsBorn
      <4>2. PICK k \in DOMAIN Course(1) : Call(1) = Course(1)[k] BY <2>2, <4>1, OnCourse
      <4>3. Routed BY AllRouted DEF CInv
      <4> QED BY <4>1, <4>2, <4>3 DEF Routed
    <3> QED BY <3>1, <3>2
  <2>6. ASSUME NEW p \in Procs, life[p] # "none" PROVE life'[p] # "none"
    <3>1. ~IsBorn(p) \/ life'[p] = "run" BY DEF IsBorn
    <3> QED BY <1>2, <2>6, <3>1, Everyone DEF Stays, Advances, Becomes, Stops, IsReaped
  <2>7. \A p \in Procs : p \notin Crew => life'[p] = "none"
    BY <2>5 DEF Stays, HInv
  <2>8. \A p \in Procs : life'[p] = "none" => fds'[p] = Closed
    <3>1. ASSUME NEW p \in Procs, life'[p] = "none" PROVE fds'[p] = Closed
      <4>1. life[p] = "none" BY <2>6, <3>1
      <4>2. Stays(p) BY <2>5, <3>1, <4>1 DEF IsBorn
      <4> QED BY <4>1, <4>2 DEF Stays, HInv
    <3> QED BY <3>1
  <2>9. Closed' = Closed BY DEF Closed
  <2> QED BY <2>2, <2>3, <2>4, <2>7, <2>8, <2>9 DEF HInv
<1> QED BY <1>1, <1>2 DEF Next

(* A process goes one place further, or stays where it is.                  *)
LEMMA PlaceStep ==
  ASSUME CInv, FInv, Smooth, HInv, NEW o \in Procs, Step(o), NEW p \in Crew
  PROVE  \/ Place(p)' = Place(p)
         \/ Place(p)' = Place(p) + 1 /\ life[p] = "run" /\ (Advances(p) \/ Becomes(p))
<1>1. job' = job BY Shapes
<1>2. p \in Procs BY CrewAre
<1>3. Turn(p)' = Turn(p) BY <1>1, <1>2, CourseStays
<1>4. Place(p)' = IF image'[p] = "main" THEN step'[p] ELSE Turn(p) + step'[p]
  BY <1>3 DEF Place
<1>5. step[p] \in Nat /\ Turn(p) \in Nat BY Steps
<1>6. CASE Stays(p) \/ Stops(p) \/ IsBorn(p) \/ IsReaped(p)
  BY <1>4, <1>6 DEF Stays, Stops, IsBorn, IsReaped, Place
<1>7. CASE Advances(p)
  BY <1>4, <1>5, <1>7 DEF Advances, Place
<1>8. CASE Becomes(p)
  <2>1. /\ life[p] = "run" /\ Call(p)[1] = "exec"
        /\ image'[p] = Call(p)[2] /\ Call(p)[2] \in Images /\ step'[p] = 1
    BY <1>8 DEF Becomes
  <2>2. Place(p) \in DOMAIN Course(p) /\ Call(p) = Course(p)[Place(p)]
    BY <1>2, <2>1, OnCourse
  <2>3. WellRun(p) BY Steps
  <2>4. Place(p) = Turn(p) BY <2>1, <2>2, <2>3 DEF WellRun
  <2>5. image'[p] # "main" BY <2>1 DEF Images
  <2> QED BY <1>4, <1>5, <1>8, <2>1, <2>4, <2>5
<1> QED BY <1>2, <1>6, <1>7, <1>8, Everyone

LEMMA DomEl ==
  ASSUME CInv, Smooth, NEW p \in Crew
  PROVE  DOMAIN Course(p) \subseteq Nat /\ Len(Course(p)) \in Nat
BY Steps

(* An end of a pipe to write into is open where it was made.                *)
LEMMA Openings ==
  ASSUME CInv, FInv, Smooth, HInv, NEW o \in Procs, Step(o), NEW w \in WEnds, IsOpen(w)'
  PROVE  IsOpen(w) \/ step[1] = Made(w)
<1>1. PICK q \in Procs, s \in Slots : fds'[q][s] = w BY DEF IsOpen
<1>2. w \in {"w1", "w2"} BY DEF WEnds
<1>3. fds \in [Procs -> [Slots -> Objects]] BY DEF CInv
<1>4. CASE Stays(q) \/ Becomes(q) \/ IsReaped(q)
  BY <1>1, <1>4 DEF Stays, Becomes, IsReaped, IsOpen
<1>5. CASE Stops(q)
  <2>1. fds'[q][s] = "closed" BY <1>5 DEF Stops, Closed
  <2> QED BY <1>1, <1>2, <2>1
<1>6. CASE IsBorn(q)
  BY <1>1, <1>6 DEF IsBorn, IsOpen, Procs
<1>7. CASE Advances(q)
  <2>1. fds'[q] = After(fds[q], Call(q)) /\ life[q] = "run" BY <1>7 DEF Advances
  <2>2. WellFormed(Call(q)) BY CallIs
  <2>3. fds[q] \in [Slots -> Objects] BY <1>3
  <2>4. CASE Call(q)[1] # "pipe"
    <3>1. \/ \E t \in Slots : fds'[q][s] = fds[q][t]
          \/ fds'[q][s] \in {"closed", "read", "over", "append"}
      BY <2>1, <2>2, <2>3, <2>4 DEF After, WellFormed
    <3> QED BY <1>1, <1>2, <3>1 DEF IsOpen
  <2>5. CASE Call(q)[1] = "pipe"
    <3>1. q = 1 BY <2>5, CallIs DEF ChildCalls
    <3>2. PICK k \in DOMAIN Course(1) : k = Place(1) /\ Call(1) = Course(1)[k]
      BY <2>1, <3>1, OnCourse
    <3>3. Place(1) = step[1] BY DEF Place, CInv
    <3>4. Call(1)[2] = (IF k = 1 THEN 1 ELSE 2) /\ k \in {1, 2}
      <4>1. Piped BY AllPiped DEF CInv
      <4> QED BY <2>5, <3>1, <3>2, <4>1 DEF Piped
    <3>5. CASE k = 1
      <4>1. fds'[1] = [fds[1] EXCEPT !["r1"] = "r1", !["w1"] = "w1"]
        BY <2>1, <2>5, <3>1, <3>4, <3>5 DEF After
      <4>2. fds'[1][s] \in {"r1", "w1", fds[1][s]} BY <2>3, <3>1, <4>1
      <4> QED BY <1>1, <1>2, <3>1, <3>2, <3>3, <3>5, <4>2 DEF IsOpen, Made
    <3>6. CASE k = 2
      <4>1. fds'[1] = [fds[1] EXCEPT !["r2"] = "r2", !["w2"] = "w2"]
        BY <2>1, <2>5, <3>1, <3>4, <3>6 DEF After
      <4>2. fds'[1][s] \in {"r2", "w2", fds[1][s]} BY <2>3, <3>1, <4>1
      <4> QED BY <1>1, <1>2, <3>1, <3>2, <3>3, <3>6, <4>2 DEF IsOpen, Made
    <3> QED BY <3>4, <3>5, <3>6
  <2> QED BY <2>4, <2>5
<1> QED BY <1>4, <1>5, <1>6, <1>7, Everyone

(* What is in the pipes.                                                    *)
LEMMA PipeStep ==
  ASSUME CInv, FInv, Smooth, HInv, GInv, NEW o \in Procs, Step(o)
  PROVE  /\ pipe' \in [{"1", "2"} -> Nat]
         /\ \A w \in WEnds : pipe[PipeOf(w)] = 0 /\ ~IsOpen(w) => pipe'[PipeOf(w)] = 0
<1>1. pipe \in [{"1", "2"} -> Nat] BY DEF GInv
<1>2. \A w \in WEnds : PipeOf(w) \in {"1", "2"} BY DEF PipeOf
<1>3. CASE DoRead(o)
  <2>1. PICK b : b = fds[o][Arg(o)] OBVIOUS
  <2>2. HasBlock(b) /\ TakesBlock(b) BY <1>3, <2>1 DEF DoRead
  <2>3. CASE IsPipe(b)
    <3>1. PipeOf(b) \in {"1", "2"} /\ pipe[PipeOf(b)] > 0
      BY <2>2, <2>3 DEF HasBlock, IsPipe, PipeOf
    <3>2. pipe' = [pipe EXCEPT ![PipeOf(b)] = @ - 1] BY <2>2, <2>3 DEF TakesBlock
    <3>3. pipe[PipeOf(b)] - 1 \in Nat BY <1>1, <3>1
    <3> QED BY <1>1, <1>2, <3>1, <3>2, <3>3
  <2>4. CASE ~IsPipe(b) BY <1>1, <2>2, <2>4 DEF TakesBlock
  <2> QED BY <2>3, <2>4
<1>4. CASE DoWritePipe(o)
  <2>1. Writing(o) /\ IsPipe(Target(o)) /\ pipe' = [pipe EXCEPT ![PipeOf(Target(o))] = @ + 1]
    BY <1>4 DEF DoWritePipe
  <2>2. life[o] = "run" /\ Call(o)[1] \in {"copy", "filter", "write"}
    BY <2>1 DEF Writing, Calls, CInv
  <2>3. o \in Crew /\ Tasked(o) /\ Target(o) = Into(o) /\ Work(o) # 0 /\ Call(o) = Task(o)
    BY <2>2, Moving DEF Moves
  <2>4. Into(o) \in WEnds BY <2>1, <2>2, <2>3 DEF Tasked, IsPipe, WEnds
  <2>5. IsOpen(Into(o))
    <3>1. WellFormed(Call(o)) BY CallIs
    <3>2. (IF Calls(o, "write") THEN Arg(o) ELSE Call(o)[3]) \in Slots
      BY <2>2, <3>1 DEF WellFormed, Calls, Arg
    <3>3. \E s \in Slots : fds[o][s] = Target(o) BY <3>2 DEF Target
    <3> QED BY <2>3, <3>3 DEF IsOpen
  <2>6. \A w \in WEnds : PipeOf(w) = PipeOf(Into(o)) => w = Into(o)
    BY <2>4 DEF WEnds, PipeOf
  <2>7. PipeOf(Into(o)) \in {"1", "2"} BY <2>4, <1>2
  <2> QED BY <1>1, <1>2, <2>1, <2>3, <2>5, <2>6, <2>7
<1>5. CASE ~DoRead(o) /\ ~DoWritePipe(o)
  <2>1. pipe' = pipe
    BY <1>5 DEF Step, DoClose, DoDup2, DoPipe, DoOpen, DoIgnore, DoPut, DoPutFailure, DoReadEnd,
       DoExec, DoWrite, DoBrokenPipe, DoFork, DoExit, DoDie, DoWait, NoChildLeft
  <2> QED BY <1>1, <2>1
<1> QED BY <1>3, <1>4, <1>5

LEMMA GInit == Init /\ Smooth => GInv
<1> SUFFICES ASSUME Init, Smooth PROVE GInv OBVIOUS
<1>1. pipe \in [{"1", "2"} -> Nat] BY DEF Init
<1>2. CInv BY CInit
<1>3. ASSUME NEW w \in WEnds, Eater(w) # 0 PROVE ~(Place(Eater(w)) > Work(Eater(w)))
  <2>1. PipedBy(w) BY <1>2, AllPiped DEF CInv, Piped
  <2>2. Eater(w) \in Crew /\ Work(Eater(w)) > 0 BY <1>3, <2>1 DEF PipedBy
  <2>3. Place(Eater(w)) = 1 BY <2>2, CrewAre DEF Init, Place
  <2>4. Work(Eater(w)) \in Nat BY <1>2, <2>2, Steps
  <2> QED BY <2>2, <2>3, <2>4
<1> QED BY <1>1, <1>3 DEF GInv

(* Who has read a pipe to its end finds nobody to write into it any more.   *)
LEMMA GStep ==
  ASSUME CInv, FInv, Smooth, HInv, GInv, [Next]_vars PROVE GInv'
<1>1. CASE UNCHANGED vars
  <2>1. job' = job BY <1>1 DEF vars
  <2>2. ASSUME NEW w \in WEnds, Eater(w) # 0
        PROVE  Place(Eater(w))' = Place(Eater(w)) /\ Work(Eater(w))' = Work(Eater(w))
               /\ Eater(w)' = Eater(w)
    <3>1. PipedBy(w) BY AllPiped DEF CInv, Piped
    <3>2. Eater(w) \in Crew /\ Eater(w) \in Procs BY <2>2, <3>1, CrewAre DEF PipedBy
    <3> QED BY <1>1, <2>1, <3>2, CourseStays DEF Place, vars
  <2>3. \A w : Eater(w)' = Eater(w) BY <2>1, CourseStays
  <2> QED BY <1>1, <2>2, <2>3 DEF GInv, vars, IsOpen
<1>2. ASSUME NEW o \in Procs, Step(o) PROVE GInv'
  <2>1. job' = job BY <1>2, Shapes
  <2>2. \A w : Eater(w)' = Eater(w) BY <2>1, CourseStays
  <2>3. pipe' \in [{"1", "2"} -> Nat] BY <1>2, PipeStep
  <2>4. ASSUME NEW w \in WEnds, Eater(w) # 0, NEW e \in Crew, e = Eater(w),
               Place(e)' > Work(e)'
        PROVE  pipe'[PipeOf(w)] = 0 /\ ~IsOpen(w)'
    <3>1. PipedBy(w) BY AllPiped DEF CInv, Piped
    <3>2. e \in Procs /\ Work(e) > 0 /\ 1 \in Crew BY <2>4, <3>1, CrewAre DEF PipedBy
    <3>3. Work(e)' = Work(e) BY <2>1, <3>2, CourseStays
    <3>4. Place(e) \in Nat /\ Work(e) \in Nat /\ WellRun(e) /\ step[1] \in Nat BY <3>2, Steps
    <3>5. CASE Place(e) > Work(e)
      <4>1. pipe[PipeOf(w)] = 0 /\ ~IsOpen(w) BY <2>4, <3>5 DEF GInv
      <4>2. pipe'[PipeOf(w)] = 0 BY <1>2, <4>1, PipeStep
      <4>3. step[1] # Made(w)
        <5>1. CASE e = 1
          <6>1. Place(1) = step[1] BY DEF Place, CInv
          <6>2. Work(1) > Made(w) BY <2>4, <3>1, <5>1 DEF PipedBy
          <6>3. Made(w) \in Nat BY DEF Made
          <6> QED BY <3>4, <3>5, <5>1, <6>1, <6>2, <6>3
        <5>2. CASE e # 1
          <6>1. life[e] # "none"
            <7>1. ASSUME life[e] = "none" PROVE FALSE
              <8>1. e \in Kids BY <3>2, <5>2 DEF Procs, Kids
              <8>2. Place(e) = 1 BY <7>1, <8>1 DEF CInv, Place
              <8> QED BY <3>2, <3>4, <3>5, <8>2
            <7> QED BY <7>1
          <6>2. PICK j \in DOMAIN Course(1) :
                   Course(1)[j] = Fork(e) /\ (life[e] = "none" <=> step[1] <= j)
            BY <5>2, BornAt
          <6>3. j > Made(w) /\ j \in Nat /\ Made(w) \in Nat
            <7>1. j > Made(w) BY <2>4, <3>1, <6>2 DEF PipedBy
            <7>2. DOMAIN Course(1) \subseteq Nat BY <3>2, DomEl
            <7> QED BY <7>1, <7>2 DEF Made
          <6>4. ~(step[1] <= j) BY <6>1, <6>2
          <6> QED BY <3>4, <6>3, <6>4
        <5> QED BY <5>1, <5>2
      <4>4. ~IsOpen(w)' BY <1>2, <4>1, <4>3, Openings
      <4> QED BY <4>2, <4>4
    <3>6. CASE ~(Place(e) > Work(e))
      <4>1. /\ Place(e)' = Place(e) + 1 /\ life[e] = "run" /\ (Advances(e) \/ Becomes(e))
            /\ Place(e) = Work(e)
        BY <1>2, <2>4, <3>3, <3>4, <3>6, PlaceStep
      <4>2. Place(e) \in DOMAIN Course(e) /\ Call(e) = Course(e)[Place(e)]
        BY <3>2, <4>1, OnCourse
      <4>3. Call(e)[1] \in Moves BY <3>4, <4>1, <4>2 DEF WellRun
      <4>4. Call(e)[1] # "write" /\ From(e) = ReadEnd(w)
        BY <2>4, <3>1, <4>1, <4>2 DEF PipedBy
      <4>5. fds[e][Call(e)[2]] = From(e) BY <3>2, <4>1, <4>3, <4>4, Moving
      <4>6. e = o
        <5>1. ~Stays(e)
          <6>1. step[e] \in Nat BY <3>2 DEF CInv
          <6>2. Advances(e) BY <4>1, <4>3 DEF Becomes, Moves
          <6> QED BY <6>1, <6>2 DEF Advances, Stays
        <5>2. CASE Alone(o) BY <3>2, <5>1, <5>2 DEF Alone
        <5>3. CASE Births \/ Burials
          <6>1. e = 1
            <7>1. e \in Kids => Stays(e) \/ IsBorn(e) \/ IsReaped(e)
              BY <5>3 DEF Births, Burials
            <7>2. ~IsBorn(e) \/ e = 1
              <8>1. ASSUME IsBorn(e), e # 1 PROVE FALSE
                <9>1. step'[e] = step[e] /\ image'[e] = image[e] BY <8>1 DEF IsBorn
                <9>2. step[e] \in Nat BY <3>2 DEF CInv
                <9> QED BY <4>1, <4>3, <9>1, <9>2 DEF Advances, Becomes, Moves
              <8> QED BY <8>1
            <7>3. ~IsReaped(e) BY <4>1 DEF IsReaped
            <7>4. e = 1 \/ e \in Kids BY <3>2 DEF Procs, Kids
            <7> QED BY <5>1, <7>1, <7>2, <7>3, <7>4
          <6> QED BY <4>3, <5>3, <6>1 DEF Births, Burials, Moves, Stays, Advances
        <5> QED BY <1>2, <5>2, <5>3, Kinds
      <4>7. DoReadEnd(e)
        <5>1. Advances(e) BY <4>1, <4>3 DEF Becomes, Moves
        <5>2. step'[e] = step[e] + 1 /\ step[e] \in Nat BY <3>2, <5>1 DEF Advances, CInv
        <5>3. ~UNCHANGED control BY <5>2 DEF control
        <5>4. ~DoRead(e) /\ ~DoWrite(e) /\ ~DoWritePipe(e)
          BY <4>4, <5>3 DEF DoRead, DoWrite, DoWritePipe, Written, Calls
        <5>5. ~DoBrokenPipe(e) BY <3>2, Unbroken
        <5> QED
          BY <1>2, <4>3, <4>6, <5>4, <5>5
             DEF Step, DoClose, DoDup2, DoPipe, DoOpen, DoIgnore, DoPut, DoPutFailure,
                 DoExec, DoFork, DoExit, DoDie, DoWait, NoChildLeft, Calls, Moves
      <4>8. AtEnd(ReadEnd(w)) /\ fds' = fds /\ pipe' = pipe
        BY <4>4, <4>5, <4>7 DEF DoReadEnd, Arg
      <4>9. /\ IsPipe(ReadEnd(w)) /\ PipeOf(ReadEnd(w)) = PipeOf(w)
            /\ WriteEnd(ReadEnd(w)) = w /\ PipeOf(w) \in {"1", "2"}
        BY DEF WEnds, IsPipe, ReadEnd, WriteEnd, PipeOf
      <4>10. pipe[PipeOf(w)] \in Nat BY <4>9 DEF GInv
      <4>11. ~(pipe[PipeOf(w)] > 0) /\ ~IsOpen(w) BY <4>8, <4>9 DEF AtEnd, HasBlock
      <4> QED BY <4>8, <4>10, <4>11 DEF IsOpen
    <3> QED BY <3>5, <3>6
  <2>5. ASSUME NEW w \in WEnds, Eater(w) # 0 PROVE Eater(w) \in Crew
    <3>1. PipedBy(w) BY AllPiped DEF CInv, Piped
    <3> QED BY <2>5, <3>1 DEF PipedBy
  <2>6. ASSUME NEW w \in WEnds, Eater(w)' # 0, (Place(Eater(w)) > Work(Eater(w)))'
        PROVE  pipe'[PipeOf(w)] = 0 /\ ~IsOpen(w)'
    <3>1. PICK e : e = Eater(w) OBVIOUS
    <3>2. e # 0 /\ Eater(w)' = e BY <2>2, <2>6, <3>1
    <3>3. Place(e)' > Work(e)' BY <2>6, <3>2 DEF Place
    <3> QED BY <2>4, <2>5, <3>1, <3>2, <3>3
  <2> QED BY <2>3, <2>6 DEF GInv, WEnds, PipeOf
<1> QED BY <1>1, <1>2 DEF Next

-----------------------------------------------------------------------------
(* Complaints.                                                              *)

(* Lines of a kind stay of that kind if the step adds none of another.      *)
LEMMA LinesStep ==
  ASSUME CInv, OInv, NEW o \in Procs, Step(o), NEW S, NEW B, B \subseteq S, LinesIn(S, B),
         \A l : Says(o, l) => l \in B,
         Sends(o) => Report("block", o, NoStatus) \in S,
         \A q \in Kids : Announces(q) => Reports(q, status[q]) \in Seq(B)
  PROVE  LinesIn(S, B)'
<1>1. out \in Seq(S) /\ \A p \in Procs : buffer[p] \in Seq(B) BY DEF LinesIn
<1>2. buffer = [p \in Procs |-> buffer[p]] /\ 1 \in Procs /\ Kids \subseteq Procs
  BY DEF OInv, Procs, Kids
<1>3. \A s \in Seq(B) : s \in Seq(S) BY SeqMore
<1>4. ASSUME NEW p \in Procs, NEW ls \in Seq(B), Prints(p, ls) PROVE LinesIn(S, B)'
  <2>1. out \o ls \in Seq(S) BY <1>1, <1>3
  <2>2. buffer[p] \o ls \in Seq(B) BY <1>1
  <2>3. out' \in Seq(S) BY <1>1, <1>4, <2>1 DEF Prints
  <2>4. \A q \in Procs : buffer'[q] \in Seq(B) BY <1>1, <1>2, <1>4, <2>2 DEF Prints
  <2> QED BY <2>3, <2>4 DEF LinesIn
<1>5. CASE Silent(o) BY <1>1, <1>5 DEF Silent, LinesIn
<1>6. CASE Forgets(o)
  <2>1. <<>> \in Seq(B) OBVIOUS
  <2>2. out' = out /\ buffer' = [buffer EXCEPT ![o] = <<>>] BY <1>6 DEF Forgets
  <2>3. \A q \in Procs : buffer'[q] \in Seq(B) BY <1>1, <1>2, <2>1, <2>2
  <2> QED BY <1>1, <2>2, <2>3 DEF LinesIn
<1>7. CASE Flushes(o)
  <2>1. <<>> \in Seq(B) OBVIOUS
  <2>2. out' = out \o buffer[o] /\ buffer' = [buffer EXCEPT ![o] = <<>>]
    BY <1>7 DEF Flushes
  <2>3. \A q \in Procs : buffer'[q] \in Seq(B) BY <1>1, <1>2, <2>1, <2>2
  <2>4. buffer[o] \in Seq(S) BY <1>1, <1>3
  <2>5. out \o buffer[o] \in Seq(S) BY <1>1, <2>4
  <2> QED BY <2>2, <2>3, <2>5 DEF LinesIn
<1>8. CASE Sends(o)
  <2>1. PICK l : l = Report("block", o, NoStatus) OBVIOUS
  <2>2. l \in S /\ out' = Append(out, l) /\ buffer' = buffer BY <1>8, <2>1 DEF Sends
  <2>3. Append(out, l) \in Seq(S) BY <1>1, <2>2
  <2> QED BY <1>1, <2>2, <2>3 DEF LinesIn
<1>9. ASSUME NEW l, Says(o, l) PROVE LinesIn(S, B)'
  <2>1. l \in B BY <1>9
  <2>2. <<l>> \in Seq(B) BY <2>1
  <2> QED BY <1>4, <1>9, <2>2 DEF Says
<1>10. ASSUME NEW q \in Kids, Copies(q) PROVE LinesIn(S, B)'
  <2>1. out' = out /\ buffer' = [buffer EXCEPT ![q] = buffer[1]] BY <1>10 DEF Copies
  <2>2. \A p \in Procs : buffer'[p] \in Seq(B) BY <1>1, <1>2, <2>1
  <2> QED BY <1>1, <2>1, <2>2 DEF LinesIn
<1>11. ASSUME NEW q \in Kids, Announces(q) PROVE LinesIn(S, B)'
  BY <1>2, <1>4, <1>11 DEF Announces
<1> QED BY <1>5, <1>6, <1>7, <1>8, <1>9, <1>10, <1>11, Outputs

(* Only 5_27 and 5_29 complain.                                             *)
LEMMA FullComplains ==
  ASSUME job \in Jobs, NEW k \in DOMAIN FullScript, FullScript[k][1] = "putfailure"
  PROVE  job.prog \in {"5_27", "5_29"}
<1>1. job.prog \in Programs BY JobAssumption
<1>2. CASE job.prog = "5_12" BY <1>2 DEF FullScript, Parent12
<1>3. CASE job.prog = "5_13"
  <2>1. FullScript = Parent13 BY <1>3 DEF FullScript
  <2>2. FullScript[k][1] \in {"fork", "waitall", "exit"} BY <2>1 DEF Parent13
  <2> QED BY <2>2
<1>4. CASE job.prog = "5_14" BY <1>4 DEF FullScript, Parent14
<1>5. ASSUME NEW slot, NEW mode, NEW creates, NEW i \in DOMAIN Parent18(slot, mode, creates)
      PROVE  Parent18(slot, mode, creates)[i][1] # "putfailure"
  <2>1. CASE ~creates /\ ~job.there
    <3>1. Parent18(slot, mode, creates) = <<Exit("2")>> BY <2>1 DEF Parent18
    <3> QED BY <3>1
  <2>2. CASE (creates \/ job.there) /\ job.fails = 2
    <3>1. Parent18(slot, mode, creates)
            = <<Dup2(slot, "save"), Open(slot, mode), Dup2("save", slot), Close("save"),
                Exit("0")>>
      BY <2>2 DEF Parent18
    <3> QED BY <3>1
  <2>3. CASE (creates \/ job.there) /\ job.fails # 2
    <3>1. Parent18(slot, mode, creates)
            = <<Dup2(slot, "save"), Open(slot, mode), Fork(2), Dup2("save", slot),
                Close("save"), Wait, Exit("0")>>
      BY <2>3 DEF Parent18
    <3> QED BY <3>1
  <2> QED BY <2>1, <2>2, <2>3
<1>6. CASE job.prog \in {"5_18A", "5_18B", "5_18C", "5_18D"}
  <2>1. \E slot, mode, creates : FullScript = Parent18(slot, mode, creates)
    BY <1>6 DEF FullScript
  <2> QED BY <1>5, <2>1
<1>7. CASE job.prog = "5_25" BY <1>7 DEF FullScript, Parent25
<1>8. CASE job.prog = "5_26"
  <2>1. FullScript = Parent26 BY <1>8 DEF FullScript
  <2>2. CASE Rest(job.args) = <<>> BY <2>1, <2>2 DEF Parent26
  <2>3. CASE Rest(job.args) # <<>>
    <3>1. Parent26 = <<MakePipe(1), Fork(2), Fork(3), Close("r1"), Close("w1"), WaitAll,
                       Exit("0")>>
      BY <2>3 DEF Parent26
    <3> QED BY <2>1, <3>1
  <2> QED BY <2>2, <2>3
<1>9. CASE job.prog = "5_28" BY <1>9 DEF FullScript, Parent28
<1>10. CASE job.prog = "5_30"
  <2>1. FullScript = Parent30 BY <1>10 DEF FullScript
  <2>2. CASE Rest(job.args) = <<>> BY <2>1, <2>2 DEF Parent30
  <2>3. CASE Rest(job.args) # <<>>
    <3>1. Parent30 = <<MakePipe(1), MakePipe(2), Fork(2), Fork(3), Close("w1"), Close("r2"),
                       Filter("r1", "w2"), Close("r1"), Close("w2"), Close("r1"), Close("w2"),
                       WaitAll, Exit("0")>>
      BY <2>3 DEF Parent30
    <3> QED BY <2>1, <3>1, SMTT(30)
  <2> QED BY <2>2, <2>3
<1> QED BY <1>1, <1>2, <1>3, <1>4, <1>6, <1>7, <1>8, <1>9, <1>10 DEF Programs

(* They do it after their fork()s, so that none of these has failed.        *)
LEMMA Complains ==
  ASSUME job \in Jobs, NEW k \in DOMAIN ParentScript, ParentScript[k][1] = "putfailure"
  PROVE  job.prog \in {"5_27", "5_29"} /\ job.fails = 0
<1>1. job.fails \in {0, 2, 3} /\ (job.fails = 3 => job.prog # "5_27") BY JobAssumption
<1>2. job.prog \in {"5_27", "5_29"} /\ k \in DOMAIN FullScript
      /\ ParentScript[k] = FullScript[k]
  <2>1. ParentScript[k][1] # "exit" OBVIOUS
  <2>2. k \in DOMAIN FullScript /\ ParentScript[k] = FullScript[k] BY <2>1, ParentCall
  <2> QED BY <2>2, FullComplains
<1>3. CASE job.prog = "5_27"
  <2>1. FullScript = Parent27 BY <1>3 DEF FullScript
  <2>2. /\ DOMAIN FullScript = 1 .. 10 /\ FullScript[2] = Fork(2)
        /\ \A n \in 1 .. 10 : FullScript[n][1] = "fork" => n = 2
        /\ \A n \in 1 .. 10 : FullScript[n][1] = "putfailure" => n > 2
    BY <2>1 DEF Parent27
  <2> QED BY <1>1, <1>2, <1>3, <2>2, Shortened
<1>4. CASE job.prog = "5_29"
  <2>1. FullScript = Parent29 BY <1>4 DEF FullScript
  <2>2. /\ DOMAIN FullScript = 1 .. 14
        /\ FullScript[3] = Fork(2) /\ FullScript[4] = Fork(3)
        /\ \A n \in 1 .. 14 : FullScript[n][1] = "fork" => n \in {3, 4}
        /\ \A n \in 1 .. 14 : FullScript[n][1] = "putfailure" => n > 4
    BY <2>1 DEF Parent29
  <2> QED BY <1>1, <1>2, <1>4, <2>2, Shortened
<1> QED BY <1>2, <1>3, <1>4

LEMMA PInit == Init => PInv
<1> SUFFICES ASSUME Init PROVE PInv OBVIOUS
<1>1. \A S : <<>> \in Seq(S) OBVIOUS
<1> QED BY <1>1 DEF Init, PInv, LinesIn

(* No complaint when the command copies.                                    *)
LEMMA PStep ==
  ASSUME CInv, FInv, OInv, Smooth => HInv /\ GInv, PInv, [Next]_vars PROVE PInv'
<1>1. CASE UNCHANGED vars
  <2>1. job' = job BY <1>1 DEF vars
  <2>2. Smooth' = Smooth BY <2>1, CourseStays
  <2> QED BY <1>1, <2>2 DEF vars, PInv, LinesIn
<1>2. ASSUME NEW o \in Procs, Step(o) PROVE PInv'
  <2>1. job' = job BY <1>2, Shapes
  <2>2. Smooth' = Smooth BY <2>1, CourseStays
  <2> DEFINE U == Uncomplaining
  <2> SUFFICES ASSUME job.prog \notin {"5_27", "5_29"} \/ job.fails # 0 \/ Smooth
               PROVE  LinesIn(U, U)'
    BY <2>1, <2>2 DEF PInv, Uncomplaining
  <2>3. LinesIn(U, U) BY DEF PInv
  <2>4. ASSUME NEW l, Says(o, l) PROVE l \in U
    <3>1. l \in Entries BY <2>4, SaysWhat
    <3>2. ~(Call(o)[1] = "putfailure" /\ failed)
      <4>1. CASE Smooth BY <4>1 DEF HInv
      <4>2. CASE job.prog \notin {"5_27", "5_29"} \/ job.fails # 0
        <5>1. ASSUME Call(o)[1] = "putfailure" PROVE FALSE
          <6>1. o = 1 BY <5>1, CallIs DEF ChildCalls
          <6>2. Call(1) = ParentScript[step[1]] /\ step[1] \in DOMAIN ParentScript
            BY ParentIs DEF Call
          <6> QED BY <4>2, <5>1, <6>1, <6>2, Complains DEF CInv
        <5> QED BY <5>1
      <4> QED BY <4>1, <4>2
    <3>3. Call(o)[1] = "put" => Call(o)[2] \in {"header", "count", "child"}
      BY CallIs DEF WellFormed
    <3>4. l.line # "failure" BY <2>4, <3>2, <3>3 DEF Says, Line, Report
    <3> QED BY <3>1, <3>4 DEF Uncomplaining
  <2>5. Report("block", o, NoStatus) \in U
    <3>1. Report("block", o, NoStatus) \in Entries
      BY DEF Report, Entries, Texts, Codes, Procs
    <3> QED BY <3>1 DEF Uncomplaining, Report
  <2>6. ASSUME NEW q \in Kids, Announces(q) PROVE Reports(q, status[q]) \in Seq(U)
    <3>1. status[q] \in Codes BY DEF FInv, Kids, Procs
    <3>2. \/ Reports(q, status[q]) = <<>>
          \/ \E l \in Entries : Reports(q, status[q]) = <<l>> /\ l.line \in Tell
      BY <3>1, ReportsWhat DEF CInv
    <3>3. \A l \in Entries : l.line \in Tell => l \in U BY DEF Uncomplaining, Tell
    <3>4. \A l \in U : <<l>> \in Seq(U) OBVIOUS
    <3>5. <<>> \in Seq(U) OBVIOUS
    <3> QED BY <3>2, <3>3, <3>4, <3>5
  <2>7. LinesIn(U, U)'
    <3> HIDE DEF U
    <3> QED BY <1>2, <2>3, <2>4, <2>5, <2>6, LinesStep
  <2> QED BY <2>7
<1> QED BY <1>1, <1>2 DEF Next

-----------------------------------------------------------------------------
(* The first theorem.                                                       *)

(* All of this holds at the start, and is kept.                             *)
LEMMA KnownInit == Init => Known
BY CInit, FInit, OInit, RInit, PInit, HInit, GInit DEF Known

LEMMA KnownStep == Known /\ [Next]_vars => Known'
<1> SUFFICES ASSUME Known, [Next]_vars PROVE Known' OBVIOUS
<1>1. CInv' /\ FInv' /\ OInv' /\ RInv' /\ PInv'
  BY CStep, FStep, OStep, RStep, PStep DEF Known
<1>2. Smooth' = Smooth
  <2>1. job' = job BY Shapes DEF Known, Next, vars
  <2> QED BY <2>1, CourseStays
<1>3. Smooth => HInv' /\ GInv' BY HStep, GStep DEF Known
<1> QED BY <1>1, <1>2, <1>3 DEF Known

LEMMA KnownHolds == Spec => []Known
<1> QED BY KnownInit, KnownStep, PTL DEF Spec

(* For all jobs and sizes: a parent that has ended says of every child that *)
(* it has waited for how it ended, once and truly, and complains only when  *)
(* the command left before it had read everything.                          *)
THEOREM ReportsCorrect == Spec => []ReportsAreTrue
<1>1. ASSUME Known PROVE ReportsAreTrue
  <2> USE <1>1
  <2> SUFFICES ASSUME Finished, status[1] = "0"
               PROVE  /\ \A q \in Procs \ {1} :
                           /\ job.prog \in {"5_12", "5_27", "5_28", "5_29"} /\ life[q] # "none" =>
                                /\ Cardinality(Told(q)) = 1
                                /\ \A i \in Told(q) : /\ out[i].st = status[q]
                                                      /\ out[i].line = "killed" <=> status[q] \in Signals
                           /\ job.prog = "5_13" =>
                                Cardinality(Told(q)) = IF status[q] \in {"0", "1"} THEN 1 ELSE 0
                      /\ OutLines("failure") > 0 => job.args[1] # "cat"
    BY DEF ReportsAreTrue
  <2>1. Procs \ {1} = Kids BY DEF Procs, Kids
  <2>2. ASSUME job.args[1] = "cat" PROVE ~(OutLines("failure") > 0)
    <3>1. job.prog \notin {"5_27", "5_29"} \/ job.fails # 0 \/ Smooth BY <2>2 DEF Smooth
    <3>2. out \in Seq(Uncomplaining) BY <3>1 DEF Known, PInv, LinesIn
    <3>3. {i \in DOMAIN out : out[i].line = "failure"} = {}
      <4>1. \A i \in DOMAIN out : out[i] \in Uncomplaining BY <3>2
      <4> QED BY <4>1 DEF Uncomplaining
    <3>4. OutLines("failure") = 0 BY <3>3, FS_EmptySet DEF OutLines
    <3> QED BY <3>4
  <2> QED BY <2>1, <2>2, TellsAreTrue DEF Known
<1> QED BY <1>1, KnownHolds, PTL

-----------------------------------------------------------------------------
(* The blocks.                                                              *)

(* The job decides who moves what.                                          *)
LEMMA TasksStay ==
  ASSUME job' = job
  PROVE  /\ Writer' = Writer /\ Sent' = Sent /\ LastStage' = LastStage
         /\ \A p \in Procs : /\ Task(p)' = Task(p) /\ From(p)' = From(p)
<1>1. Writer' = Writer BY DEF Writer
<1>2. Sent' = Sent BY DEF Sent
<1>3. LastStage' = LastStage BY DEF LastStage
<1>4. ASSUME NEW p \in Procs PROVE Task(p)' = Task(p) /\ From(p)' = From(p)
  <2>1. Course(p)' = Course(p) /\ Work(p)' = Work(p) /\ \A k : Holds(p, k)' = Holds(p, k)
    BY CourseStays
  <2> QED BY <2>1 DEF Task, From
<1> QED BY <1>1, <1>2, <1>3, <1>4

(* How much is sent.                                                        *)
LEMMA SentIs == ASSUME job \in Jobs PROVE Sent \in Nat /\ (Writer # 0 => Sent > 0)
<1>1. 0 \in Nat /\ 1 \in Nat /\ 2 \in Nat /\ InBlocks \in Nat /\ Numbers \in Nat \ {0}
  BY SizeAssumption
<1>2. job.prog \in Programs BY JobAssumption
<1>3. Sent \in Nat BY <1>1, <1>2 DEF Sent, Programs
<1>4. Writer # 0 => Sent > 0 BY <1>1, <1>2 DEF Sent, Programs, Writer
<1> QED BY <1>3, <1>4

(* 5_18 opens its file before it forks.                                     *)
LEMMA FullOpens ==
  ASSUME job \in Jobs, NEW k \in DOMAIN FullScript
  PROVE  /\ FullScript[k][1] = "open" => job.prog \in Plain18 /\ k = 2
         /\ FullScript[k][1] = "fork" /\ job.prog \in Plain18 => k = 3
<1> USE DEF Plain18
<1>1. job.prog \in Programs BY JobAssumption
<1>2. CASE job.prog = "5_12" BY <1>2 DEF FullScript, Parent12
<1>3. CASE job.prog = "5_13"
  <2>1. FullScript = Parent13 BY <1>3 DEF FullScript
  <2>2. FullScript[k][1] \in {"fork", "waitall", "exit"} BY <2>1 DEF Parent13
  <2> QED BY <1>3, <2>2
<1>4. CASE job.prog = "5_14" BY <1>4 DEF FullScript, Parent14
<1>5. ASSUME NEW slot, NEW mode, NEW creates, NEW i \in DOMAIN Parent18(slot, mode, creates)
      PROVE  /\ Parent18(slot, mode, creates)[i][1] = "open" => i = 2
             /\ Parent18(slot, mode, creates)[i][1] = "fork" => i = 3
  <2>1. CASE ~creates /\ ~job.there
    <3>1. Parent18(slot, mode, creates) = <<Exit("2")>> BY <2>1 DEF Parent18
    <3> QED BY <1>5, <3>1
  <2>2. CASE (creates \/ job.there) /\ job.fails = 2
    <3>1. Parent18(slot, mode, creates)
            = <<Dup2(slot, "save"), Open(slot, mode), Dup2("save", slot), Close("save"),
                Exit("0")>>
      BY <2>2 DEF Parent18
    <3> QED BY <1>5, <3>1
  <2>3. CASE (creates \/ job.there) /\ job.fails # 2
    <3>1. Parent18(slot, mode, creates)
            = <<Dup2(slot, "save"), Open(slot, mode), Fork(2), Dup2("save", slot),
                Close("save"), Wait, Exit("0")>>
      BY <2>3 DEF Parent18
    <3> QED BY <1>5, <3>1
  <2> QED BY <2>1, <2>2, <2>3
<1>6. CASE job.prog \in {"5_18A", "5_18B", "5_18C", "5_18D"}
  <2>1. \E slot, mode, creates : FullScript = Parent18(slot, mode, creates)
    BY <1>6 DEF FullScript
  <2> QED BY <1>5, <1>6, <2>1
<1>7. CASE job.prog = "5_25" BY <1>7 DEF FullScript, Parent25
<1>8. CASE job.prog = "5_26"
  <2>1. FullScript = Parent26 BY <1>8 DEF FullScript
  <2>2. CASE Rest(job.args) = <<>> BY <1>8, <2>1, <2>2 DEF Parent26
  <2>3. CASE Rest(job.args) # <<>>
    <3>1. Parent26 = <<MakePipe(1), Fork(2), Fork(3), Close("r1"), Close("w1"), WaitAll,
                       Exit("0")>>
      BY <2>3 DEF Parent26
    <3> QED BY <1>8, <2>1, <3>1
  <2> QED BY <2>2, <2>3
<1>9. CASE job.prog = "5_27" BY <1>9 DEF FullScript, Parent27
<1>10. CASE job.prog = "5_28" BY <1>10 DEF FullScript, Parent28
<1>11. CASE job.prog = "5_29" BY <1>11 DEF FullScript, Parent29
<1>12. CASE job.prog = "5_30"
  <2>1. FullScript = Parent30 BY <1>12 DEF FullScript
  <2>2. CASE Rest(job.args) = <<>> BY <1>12, <2>1, <2>2 DEF Parent30
  <2>3. CASE Rest(job.args) # <<>>
    <3>1. Parent30 = <<MakePipe(1), MakePipe(2), Fork(2), Fork(3), Close("w1"), Close("r2"),
                       Filter("r1", "w2"), Close("r1"), Close("w2"), Close("r1"), Close("w2"),
                       WaitAll, Exit("0")>>
      BY <2>3 DEF Parent30
    <3> QED BY <1>12, <2>1, <3>1, SMTT(30)
  <2> QED BY <2>2, <2>3
<1> QED BY <1>1, <1>2, <1>3, <1>4, <1>6, <1>7, <1>8, <1>9, <1>10, <1>11, <1>12 DEF Programs

LEMMA Opens ==
  ASSUME job \in Jobs, NEW k \in DOMAIN ParentScript
  PROVE  /\ ParentScript[k][1] = "open" => job.prog \in Plain18 /\ k = 2
         /\ ParentScript[k][1] = "fork" /\ job.prog \in Plain18 => k = 3
BY ParentCall, FullOpens

(* Only a process that runs takes a step.                                   *)
LEMMA Runner == ASSUME CInv, NEW o \in Procs, Step(o) PROVE life[o] = "run"
<1>1. Writing(o) \/ Reading(o) => life[o] = "run" BY DEF Writing, Reading, Calls, CInv
<1> QED
  BY <1>1 DEF Step, DoClose, DoDup2, DoPipe, DoOpen, DoIgnore, DoPut, DoPutFailure, DoReadEnd,
         DoRead, DoExec, DoWrite, DoWritePipe, DoBrokenPipe, DoFork, DoExit, DoDie, DoWait,
         NoChildLeft, Calls

(* Only the last stage shows blocks.                                        *)
LEMMA ShownStep ==
  ASSUME CInv, FInv, OInv, Smooth, HInv, NEW o \in Procs, Step(o), LinesIn(Shown, Unshown)
  PROVE  LinesIn(Shown, Unshown)'
<1>1. job' = job BY Shapes
<1>2. Shown' = Shown /\ Unshown' = Unshown
  BY <1>1, TasksStay DEF Shown, Unshown, Entries
<1>3. Unshown \subseteq Shown BY DEF Shown, Unshown
<1>4. ASSUME NEW l, Says(o, l) PROVE l \in Unshown
  BY <1>4, SaysWhat DEF Unshown
<1>5. ASSUME Sends(o) PROVE Report("block", o, NoStatus) \in Shown
  <2>1. Call(o)[1] \in {"copy", "filter", "write"} /\ Target(o) = "out" BY <1>5 DEF Sends
  <2>2. life[o] = "run" BY Runner
  <2>3. o \in Crew /\ Tasked(o) /\ Target(o) = Into(o) /\ Work(o) # 0 /\ Call(o) = Task(o)
    BY <2>1, <2>2, Moving DEF Moves
  <2>4. o \in LastStage
    <3>1. Task(o)[1] # "write" BY <2>1, <2>3 DEF Tasked, WEnds
    <3> QED BY <2>1, <2>3, <3>1 DEF Tasked
  <2>5. Report("block", o, NoStatus) \in Entries
    BY DEF Report, Entries, Texts, Codes, Procs
  <2> QED BY <2>4, <2>5 DEF Shown, Report
<1>6. ASSUME NEW q \in Kids PROVE Reports(q, status[q]) \in Seq(Unshown)
  <2>1. status[q] \in Codes BY DEF FInv, Kids, Procs
  <2>2. \/ Reports(q, status[q]) = <<>>
        \/ \E l \in Entries : Reports(q, status[q]) = <<l>> /\ l.line \in Tell
    BY <2>1, ReportsWhat DEF CInv
  <2>3. \A l \in Entries : l.line \in Tell => l \in Unshown BY DEF Unshown, Tell
  <2>4. \A l \in Unshown : <<l>> \in Seq(Unshown) OBVIOUS
  <2>5. <<>> \in Seq(Unshown) OBVIOUS
  <2> QED BY <2>2, <2>3, <2>4, <2>5
<1>7. ASSUME NEW S, NEW B, S = Shown, B = Unshown PROVE LinesIn(S, B)'
  BY <1>3, <1>4, <1>5, <1>6, <1>7, LinesStep
<1> QED BY <1>2, <1>7 DEF LinesIn

(* A block comes to the terminal when it is written there.                  *)
LEMMA ScreenStep ==
  ASSUME CInv, FInv, OInv, NEW o \in Procs, Step(o), LinesIn(Shown, Unshown)
  PROVE  /\ OnScreen \in Nat /\ OnScreen' \in Nat
         /\ OnScreen' = IF DoWrite(o) /\ Target(o) = "out" THEN OnScreen + 1 ELSE OnScreen
<1>1. /\ out \in Seq(Entries) /\ buffer \in [Procs -> Seq(Entries)]
      /\ 1 \in Procs /\ Kids \subseteq Procs
  BY DEF OInv, Procs, Kids
<1>2. ASSUME NEW s \in Seq(Unshown), s \in Seq(Entries) PROVE HowMany(s, BlockLines) = 0
  <2>1. \A i \in DOMAIN s : s[i] \in Unshown OBVIOUS
  <2>2. \A i \in DOMAIN s : s[i] \notin BlockLines BY <2>1 DEF Unshown, BlockLines
  <2> QED BY <2>2, HowManyZero
<1>3. OnScreen \in Nat /\ BlockLines' = BlockLines
  BY <1>1, PlacesFinite DEF OnScreen, BlockLines, Entries
<1>4. OnScreen' = HowMany(out', BlockLines) /\ OnScreen = HowMany(out, BlockLines)
  BY <1>3 DEF OnScreen
<1>5. ASSUME NEW s \in Seq(Unshown), s \in Seq(Entries), out' = out \o s \/ out' = out
      PROVE  OnScreen' = OnScreen
  <2>1. HowMany(s, BlockLines) = 0 BY <1>2, <1>5
  <2>2. HowMany(out \o s, BlockLines) = HowMany(out, BlockLines) + HowMany(s, BlockLines)
    BY <1>1, <1>5, HowManyMore
  <2>3. CASE out' = out BY <1>4, <2>3
  <2>4. CASE out' = out \o s
    <3>1. OnScreen' = HowMany(out \o s, BlockLines) BY <1>4, <2>4
    <3>2. OnScreen' = OnScreen + 0 BY <1>4, <2>1, <2>2, <3>1
    <3> QED BY <1>3, <3>2
  <2> QED BY <1>5, <2>3, <2>4
<1>6. ASSUME out' = Append(out, Report("block", o, NoStatus)) PROVE OnScreen' = OnScreen + 1
  <2>1. PICK l : l = Report("block", o, NoStatus) OBVIOUS
  <2>2. l \in Entries /\ l \in BlockLines
    BY <2>1 DEF Report, Entries, Texts, Codes, Procs, BlockLines
  <2>3. out' = out \o <<l>> /\ <<l>> \in Seq(Entries) BY <1>1, <1>6, <2>1, <2>2
  <2>4. HowMany(out \o <<l>>, BlockLines) = HowMany(out, BlockLines) + HowMany(<<l>>, BlockLines)
    BY <1>1, <2>3, HowManyMore
  <2>5. HowMany(<<l>>, BlockLines) = 1 BY <2>2, HowManyOne
  <2> QED BY <1>4, <2>3, <2>4, <2>5
<1>7. CASE DoWrite(o) /\ Target(o) = "out" BY <1>3, <1>6, <1>7 DEF DoWrite
<1>8. CASE ~(DoWrite(o) /\ Target(o) = "out")
  <2>1. <<>> \in Seq(Unshown) /\ <<>> \in Seq(Entries) OBVIOUS
  <2>2. CASE out' = out BY <1>3, <1>5, <1>8, <2>1, <2>2
  <2>3. CASE Flushes(o)
    <3>1. out' = out \o buffer[o] BY <2>3 DEF Flushes
    <3>2. buffer[o] \in Seq(Unshown) BY DEF LinesIn
    <3> QED BY <1>1, <1>3, <1>5, <1>8, <3>1, <3>2
  <2>4. ASSUME NEW l, Says(o, l) PROVE OnScreen' = OnScreen
    <3>1. l \in Entries /\ l \in Unshown BY <2>4, SaysWhat DEF Unshown
    <3>2. out' = out \o <<l>> \/ out' = out BY <2>4 DEF Says, Prints
    <3>3. <<l>> \in Seq(Unshown) /\ <<l>> \in Seq(Entries) BY <3>1
    <3> QED BY <1>5, <3>2, <3>3
  <2>5. ASSUME NEW q \in Kids, Announces(q) PROVE OnScreen' = OnScreen
    <3>1. status[q] \in Codes BY DEF FInv, Kids, Procs
    <3>2. Reports(q, status[q]) \in Seq(Entries) BY <3>1, ReportsWhat DEF CInv
    <3>3. \/ Reports(q, status[q]) = <<>>
          \/ \E l \in Entries : Reports(q, status[q]) = <<l>> /\ l.line \in Tell
      BY <3>1, ReportsWhat DEF CInv
    <3>4. \A l \in Entries : l.line \in Tell => l \in Unshown BY DEF Unshown, Tell
    <3>5. \A l \in Unshown : <<l>> \in Seq(Unshown) OBVIOUS
    <3>6. Reports(q, status[q]) \in Seq(Unshown) BY <2>1, <3>3, <3>4, <3>5
    <3>7. out' = out \o Reports(q, status[q]) \/ out' = out BY <2>5 DEF Announces, Prints
    <3> QED BY <1>5, <3>2, <3>6, <3>7
  <2>6. ASSUME Sends(o) PROVE FALSE
    <3>1. Call(o)[1] \in {"copy", "filter", "write"} /\ Target(o) = "out"
      BY <2>6 DEF Sends
    <3>2. out' # out
      <4>1. PICK l : out' = Append(out, l) BY <2>6 DEF Sends
      <4>2. Len(Append(out, l)) = Len(out) + 1 /\ Len(out) \in Nat BY <1>1
      <4> QED BY <4>1, <4>2
    <3> QED
      BY <1>8, <3>1, <3>2
         DEF Step, DoClose, DoDup2, DoPipe, DoOpen, DoIgnore, DoPut, DoPutFailure, DoReadEnd,
             DoRead, DoExec, DoWritePipe, DoBrokenPipe, DoFork, DoExit, DoDie, DoWait,
             NoChildLeft, Calls
  <2>7. Silent(o) \/ Forgets(o) \/ (\E q : Copies(q)) => out' = out
    BY DEF Silent, Forgets, Copies
  <2> QED BY <1>3, <1>8, <2>2, <2>3, <2>4, <2>5, <2>6, <2>7, Outputs
<1> QED BY <1>7, <1>8

(* What moves no block.                                                     *)
LEMMA Idle ==
  ASSUME CInv, NEW o \in Procs, Step(o),
         ~DoRead(o), ~DoWrite(o), ~DoWritePipe(o), ~DoBrokenPipe(o)
  PROVE  /\ UNCHANGED <<pipe, input, file, taken, written, hold>>
         /\ at' = at \/ DoOpen(o)
<1>1. /\ UNCHANGED <<pipe, input, file, taken, written>>
      /\ at' = at \/ DoOpen(o)
      /\ hold' = hold \/ ((DoExit(o) \/ DoDie(o)) /\ hold' = hold \ {o})
  BY DEF Step, DoClose, DoDup2, DoPipe, DoOpen, DoIgnore, DoPut, DoPutFailure, DoReadEnd,
         DoExec, DoFork, DoExit, DoDie, DoWait, NoChildLeft, Goes, Ends, control
<1>2. DoExit(o) \/ DoDie(o) => o \notin hold
  BY DEF DoExit, DoDie, Calls, CInv
<1> QED BY <1>1, <1>2

(* In 5_18, whoever moves data was born after the file was opened.          *)
LEMMA Opened ==
  ASSUME CInv, FInv, Smooth, HInv, job.prog \in Plain18, NEW o \in Procs,
         life[o] = "run", Call(o)[1] \in Moves
  PROVE  step[1] > 2 /\ o # 1
<1>1. o \in Crew /\ Work(o) # 0 BY Moving
<1>2. o # 1 BY <1>1 DEF Work, Plain18
<1>3. PICK j \in DOMAIN Course(1) :
        Course(1)[j] = Fork(o) /\ (life[o] = "none" <=> step[1] <= j)
  BY <1>1, <1>2, BornAt
<1>4. Course(1) = ParentScript BY SmoothWhole DEF Course
<1>5. j = 3 BY <1>3, <1>4, Opens DEF CInv
<1>6. step[1] \in Nat BY DEF CInv, Procs
<1> QED BY <1>2, <1>3, <1>5, <1>6

(* The parent goes one call further, or waits.                              *)
LEMMA ParentGoes ==
  ASSUME CInv, FInv, Smooth, HInv, NEW o \in Procs, Step(o)
  PROVE  step[1] \in Nat /\ (step'[1] = step[1] \/ step'[1] = step[1] + 1)
<1>1. 1 \in Crew /\ step[1] \in Nat BY CrewAre DEF CInv, Procs
<1>2. Place(1) = step[1] BY DEF Place, CInv
<1>3. [Next]_vars BY DEF Next
<1>4. CInv' BY <1>3, CStep
<1>5. Place(1)' = step'[1] BY <1>4 DEF Place, CInv
<1>6. Place(1)' = Place(1) \/ Place(1)' = Place(1) + 1 BY <1>1, PlaceStep
<1> QED BY <1>1, <1>2, <1>5, <1>6

(* Who writes a block that it holds, or that it makes, and where to.        *)
LEMMA Writes ==
  ASSUME CInv, Smooth, HInv, NEW o \in Procs, DoWrite(o) \/ DoWritePipe(o)
  PROVE  /\ life[o] = "run" /\ Call(o)[1] \in {"copy", "filter", "write"}
         /\ o \in Crew /\ Work(o) # 0 /\ Place(o) = Work(o) /\ Call(o) = Task(o)
         /\ Target(o) = Into(o)
         /\ Call(o)[1] = "write" => o = Writer /\ Task(o)[3] = Sent /\ DoWritePipe(o)
         /\ Call(o)[1] # "write" => o # Writer /\ o \in hold
         /\ DoWritePipe(o) => Into(o) \in WEnds
         /\ Target(o) \in {"over", "append"} => job.prog \in {"5_18A", "5_18C", "5_18D"}
<1>1. Writing(o) BY DEF DoWrite, DoWritePipe
<1>2. life[o] = "run" /\ Call(o)[1] \in {"copy", "filter", "write"}
  BY <1>1 DEF Writing, Calls, CInv
<1>3. /\ o \in Crew /\ Tasked(o) /\ Target(o) = Into(o) /\ Work(o) # 0 /\ Place(o) = Work(o)
      /\ Call(o) = Task(o)
  BY <1>2, Moving DEF Moves
<1>4. CASE Call(o)[1] = "write"
  <2>1. o = Writer /\ Task(o)[3] = Sent /\ Into(o) \in WEnds BY <1>3, <1>4 DEF Tasked
  <2>2. ~DoWrite(o) BY <1>3, <2>1 DEF DoWrite, WEnds
  <2> QED BY <1>2, <1>3, <1>4, <2>1, <2>2 DEF WEnds
<1>5. CASE Call(o)[1] # "write"
  <2>1. o # Writer BY <1>3, <1>5 DEF Tasked
  <2>2. o \in hold BY <1>1, <1>5 DEF Writing, Calls
  <2>3. /\ Into(o) \in {"out", "over", "append", "w1", "w2"}
        /\ Into(o) \in {"over", "append"} => job.prog \in {"5_18A", "5_18C", "5_18D"}
    BY <1>2, <1>3, <1>5 DEF Tasked
  <2>4. DoWritePipe(o) => Into(o) \in WEnds
    BY <1>3, <2>3 DEF DoWritePipe, IsPipe, WEnds
  <2> QED BY <1>2, <1>3, <1>5, <2>1, <2>2, <2>3, <2>4
<1> QED BY <1>4, <1>5

(* Who reads, and from where.                                               *)
LEMMA Reads ==
  ASSUME CInv, Smooth, HInv, NEW o \in Procs, DoRead(o) \/ DoReadEnd(o)
  PROVE  /\ life[o] = "run" /\ Call(o)[1] \in {"copy", "filter", "count"}
         /\ o \in Crew /\ Work(o) # 0 /\ Place(o) = Work(o) /\ Call(o) = Task(o)
         /\ fds[o][Arg(o)] = From(o) /\ o # Writer
         /\ From(o) \in {"in", "read", "r1", "r2"}
         /\ From(o) = "in" => job.prog \in Fed
         /\ From(o) = "read" => job.prog = "5_18B"
         /\ o \notin hold
<1>1. /\ life[o] = "run" /\ Call(o)[1] \in {"copy", "filter", "count"} /\ o \notin hold
  BY DEF DoRead, DoReadEnd, Reading, Calls
<1>2. /\ o \in Crew /\ Tasked(o) /\ Work(o) # 0 /\ Place(o) = Work(o)
      /\ Call(o) = Task(o) /\ fds[o][Call(o)[2]] = From(o)
  BY <1>1, Moving DEF Moves
<1> QED BY <1>1, <1>2 DEF Tasked, Arg

(* The file is written or read from its start.                              *)
LEMMA FileStep ==
  ASSUME CInv, FInv, Smooth, HInv, GInv, NEW o \in Procs, Step(o), FileInv
  PROVE  FileInv'
<1>1. job' = job BY Shapes
<1>2. /\ file \in Seq({"old", "new"}) /\ at \in 0 .. Len(file) /\ Len(file) \in Nat
      /\ DOMAIN file = 1 .. Len(file)
      /\ \A i \in DOMAIN file : i > at => file[i] = "old"
      /\ job.prog = "5_18B" => Len(file) = 2
      /\ job.prog \notin Plain18 \/ step[1] <= 2 => at = 0
  BY DEF FileInv
<1>3. step[1] \in Nat /\ (step'[1] = step[1] \/ step'[1] = step[1] + 1) BY ParentGoes
<1> SUFFICES /\ file' \in Seq({"old", "new"}) /\ at' \in 0 .. Len(file')
             /\ \A i \in DOMAIN file' : i > at' => file'[i] = "old"
             /\ job.prog = "5_18B" => Len(file') = 2
             /\ job.prog \notin Plain18 \/ step'[1] <= 2 => at' = 0
  BY <1>1 DEF FileInv
<1>4. CASE at' = at /\ file' = file BY <1>2, <1>3, <1>4
<1>5. CASE DoOpen(o)
  <2>1. /\ Calls(o, "open") /\ Goes(o) /\ file' = file
        /\ at' = IF Call(o)[3] = "append" THEN Len(file) ELSE 0
    BY <1>5 DEF DoOpen
  <2>2. o = 1 BY <2>1, CallIs DEF ChildCalls, Calls
  <2>3. Call(1) = ParentScript[step[1]] /\ step[1] \in DOMAIN ParentScript
    BY ParentIs DEF Call
  <2>4. job.prog \in Plain18 /\ step[1] = 2 BY <2>1, <2>2, <2>3, Opens DEF CInv, Calls
  <2>5. step'[1] = 3 BY <2>1, <2>2, <2>4 DEF Goes, CInv, Procs
  <2>6. at = 0 BY <1>2, <2>4
  <2> QED BY <1>2, <2>1, <2>4, <2>5, <2>6
<1>6. CASE DoRead(o) /\ at' # at
  <2>1. life[o] = "run" /\ Call(o)[1] \in Moves /\ fds[o][Arg(o)] = From(o)
        /\ (From(o) = "read" => job.prog = "5_18B")
    BY <1>6, Reads DEF Moves
  <2>2. HasBlock(From(o)) /\ TakesBlock(From(o)) /\ file' = file BY <1>6, <2>1 DEF DoRead
  <2>3. From(o) = "read" /\ at' = at + 1 BY <1>6, <2>2 DEF TakesBlock
  <2>4. at < Len(file) BY <2>2, <2>3 DEF HasBlock, IsPipe
  <2>5. job.prog \in Plain18 /\ step[1] > 2 BY <2>1, <2>3, Opened DEF Plain18
  <2> QED BY <1>2, <1>3, <2>2, <2>3, <2>4, <2>5
<1>7. CASE DoWrite(o) /\ file' # file
  <2>1. /\ life[o] = "run" /\ Call(o)[1] \in Moves
        /\ Target(o) \in {"over", "append"} => job.prog \in {"5_18A", "5_18C", "5_18D"}
    BY <1>7, Writes DEF Moves
  <2>2. /\ Target(o) \in {"over", "append"} /\ at' = at + 1
        /\ file' = IF at < Len(file) THEN [file EXCEPT ![at + 1] = "new"] ELSE Append(file, "new")
    BY <1>7 DEF DoWrite
  <2>3. job.prog \in Plain18 /\ job.prog # "5_18B" /\ step[1] > 2
    BY <2>1, <2>2, Opened DEF Plain18
  <2>4. CASE at < Len(file)
    <3>1. file' = [file EXCEPT ![at + 1] = "new"] BY <2>2, <2>4
    <3>2. file' \in Seq({"old", "new"}) /\ Len(file') = Len(file) BY <1>2, <2>4, <3>1
    <3>3. \A i \in DOMAIN file' : i > at + 1 => file'[i] = "old"
      BY <1>2, <3>1
    <3> QED BY <1>2, <1>3, <2>2, <2>3, <2>4, <3>2, <3>3
  <2>5. CASE ~(at < Len(file))
    <3>1. file' = Append(file, "new") BY <2>2, <2>5
    <3>2. PICK n \in Nat : n = Len(file) /\ at \in 0 .. n BY <1>2
    <3>3. at = n BY <2>5, <3>2
    <3>4. file' \in Seq({"old", "new"}) /\ Len(file') = n + 1 /\ DOMAIN file' = 1 .. n + 1
      BY <1>2, <3>1, <3>2
    <3>5. at' = n + 1 BY <2>2, <3>3
    <3> QED BY <1>3, <2>3, <3>2, <3>4, <3>5, SMTT(30)
  <2> QED BY <2>4, <2>5
<1>8. DoRead(o) => file' = file BY DEF DoRead
<1>9. DoWrite(o) => (at' = at /\ file' = file) \/ file' # file
  <2>1. ASSUME DoWrite(o), file' = file PROVE at' = at
    <3>1. Target(o) = "out" => at' = at BY <2>1 DEF DoWrite
    <3>2. ASSUME Target(o) # "out" PROVE FALSE
      <4>1. file' = IF at < Len(file) THEN [file EXCEPT ![at + 1] = "new"]
                    ELSE Append(file, "new")
        BY <2>1, <3>2 DEF DoWrite
      <4>2. CASE at < Len(file)
        <5>1. file'[at + 1] = "new" /\ file[at + 1] = "old" BY <1>2, <4>1, <4>2
        <5> QED BY <2>1, <5>1
      <4>3. CASE ~(at < Len(file))
        <5>1. Len(file') = Len(file) + 1 BY <1>2, <4>1, <4>3
        <5> QED BY <1>2, <2>1, <5>1
      <4> QED BY <4>2, <4>3
    <3> QED BY <3>1, <3>2
  <2> QED BY <2>1
<1>10. DoWritePipe(o) => at' = at /\ file' = file BY DEF DoWritePipe
<1>11. ~DoBrokenPipe(o) BY Unbroken
<1> QED BY <1>4, <1>5, <1>6, <1>7, <1>8, <1>9, <1>10, <1>11, Idle

(* A block comes to the file when it is written there.                      *)
LEMMA InFileStep ==
  ASSUME CInv, FInv, Smooth, HInv, GInv, NEW o \in Procs, Step(o), FileInv
  PROVE  /\ InFile \in Nat
         /\ InFile' = IF DoWrite(o) /\ Target(o) # "out" THEN InFile + 1 ELSE InFile
<1>1. /\ file \in Seq({"old", "new"}) /\ at \in 0 .. Len(file) /\ Len(file) \in Nat
      /\ DOMAIN file = 1 .. Len(file)
      /\ \A i \in DOMAIN file : i > at => file[i] = "old"
  BY DEF FileInv
<1>2. IsFiniteSet(Places(file, {"new"})) /\ HowMany(file, {"new"}) \in Nat
  BY <1>1, PlacesFinite
<1>3. CASE DoWrite(o) /\ Target(o) # "out"
  <2>1. file' = IF at < Len(file) THEN [file EXCEPT ![at + 1] = "new"] ELSE Append(file, "new")
    BY <1>3 DEF DoWrite
  <2>2. Places(file', {"new"}) = Places(file, {"new"}) \cup {at + 1}
        /\ at + 1 \notin Places(file, {"new"})
    <3>1. CASE at < Len(file)
      <4>1. file' = [file EXCEPT ![at + 1] = "new"] BY <2>1, <3>1
      <4>2. at + 1 \in DOMAIN file /\ file[at + 1] = "old" /\ file'[at + 1] = "new"
        BY <1>1, <3>1, <4>1
      <4>3. DOMAIN file' = DOMAIN file /\ \A i \in DOMAIN file : i # at + 1 => file'[i] = file[i]
        BY <4>1
      <4> QED BY <4>2, <4>3 DEF Places
    <3>2. CASE ~(at < Len(file))
      <4>1. file' = Append(file, "new") BY <2>1, <3>2, SMTT(30)
      <4>2. PICK n \in Nat : n = Len(file) /\ at \in 0 .. n BY <1>1
      <4>3. at = n BY <3>2, <4>2
      <4>4. /\ DOMAIN file' = 1 .. n + 1 /\ DOMAIN file = 1 .. n
            /\ file'[n + 1] = "new" /\ \A i \in 1 .. n : file'[i] = file[i]
        BY <1>1, <4>1, <4>2
      <4>5. \A i \in 1 .. n + 1 : i \in 1 .. n \/ i = n + 1 BY <4>2
      <4>6. n + 1 \notin 1 .. n /\ n + 1 \in 1 .. n + 1 /\ \A i \in 1 .. n : i \in 1 .. n + 1
        BY <4>2
      <4> QED BY <4>3, <4>4, <4>5, <4>6 DEF Places
    <3> QED BY <3>1, <3>2
  <2>3. Cardinality(Places(file', {"new"})) = Cardinality(Places(file, {"new"})) + 1
    BY <1>2, <2>2, FS_AddElement
  <2>4. InFile' = Cardinality(Places(file', {"new"})) BY DEF InFile, HowMany, Places
  <2> QED BY <1>2, <1>3, <2>3, <2>4 DEF InFile, HowMany
<1>4. CASE ~(DoWrite(o) /\ Target(o) # "out")
  <2>1. DoRead(o) \/ DoWritePipe(o) \/ (DoWrite(o) /\ Target(o) = "out") => file' = file
    BY DEF DoRead, DoWritePipe, DoWrite
  <2>2. file' = file BY <1>4, <2>1, Idle, Unbroken
  <2>3. InFile' = InFile BY <2>2 DEF InFile, HowMany, Places
  <2> QED BY <1>2, <1>4, <2>3 DEF InFile
<1> QED BY <1>3, <1>4

(* Who leaves the place where it moves data does so by itself, at the end   *)
(* of what it reads, or with its last block.                                *)
LEMMA Mover ==
  ASSUME CInv, NEW o \in Procs, Step(o), NEW e \in Procs,
         Advances(e), Call(e)[1] \in Moves
  PROVE  e = o
<1>1. step[e] \in Nat BY DEF CInv
<1>2. ~Stays(e) BY <1>1 DEF Advances, Stays
<1>3. CASE Alone(o) BY <1>2, <1>3 DEF Alone
<1>4. CASE Births \/ Burials
  <2>1. e \in Kids => Stays(e) \/ IsBorn(e) \/ IsReaped(e) BY <1>4 DEF Births, Burials
  <2>2. ~IsBorn(e) BY <1>1 DEF IsBorn, Advances
  <2>3. ~IsReaped(e) BY DEF IsReaped, Advances
  <2>4. e = 1 \/ e \in Kids BY DEF Procs, Kids
  <2>5. e = 1 BY <1>2, <2>1, <2>2, <2>3, <2>4
  <2> QED BY <1>2, <1>4, <2>5 DEF Births, Burials, Moves
<1> QED BY <1>3, <1>4, Kinds

LEMMA LeavesHow ==
  ASSUME CInv, FInv, Smooth, HInv, GInv, NEW o \in Procs, Step(o),
         NEW p \in Crew, Work(p) # 0, Place(p) = Work(p), Place(p)' # Place(p)
  PROVE  /\ p = o /\ Call(p) = Task(p) /\ life[p] = "run"
         /\ Task(p)[1] = "write" => DoWritePipe(p)
         /\ Task(p)[1] # "write" => DoReadEnd(p)
<1>1. p \in Procs BY CrewAre
<1>2. life[p] = "run" /\ (Advances(p) \/ Becomes(p)) BY PlaceStep
<1>3. Place(p) \in DOMAIN Course(p) /\ Call(p) = Task(p) BY <1>1, <1>2, OnCourse DEF Task
<1>4. Call(p)[1] \in Moves
  <2>1. WellRun(p) /\ Work(p) \in DOMAIN Course(p) BY <1>3, Steps
  <2> QED BY <1>3, <2>1 DEF WellRun, Task
<1>5. Advances(p) BY <1>2, <1>4 DEF Becomes, Moves
<1>6. p = o BY <1>1, <1>4, <1>5, Mover
<1>7. step'[p] # step[p]
  <2>1. step[p] \in Nat BY <1>1 DEF CInv
  <2> QED BY <1>5, <2>1 DEF Advances
<1>8. ~DoRead(p) BY <1>7 DEF DoRead, control
<1>9. ~DoBrokenPipe(p) BY <1>1, Unbroken
<1>10. Call(p)[1] # "write" => ~DoWrite(p) /\ ~DoWritePipe(p)
  BY <1>7 DEF DoWrite, DoWritePipe, Written, Calls, control
<1>11. Call(p)[1] = "write" => ~DoWrite(p)
  <2>1. DoWrite(p) /\ Call(p)[1] = "write" => DoWritePipe(p) BY <1>1, Writes
  <2>2. ~(DoWrite(p) /\ DoWritePipe(p)) BY DEF DoWrite, DoWritePipe, IsPipe
  <2> QED BY <2>1, <2>2
<1>12. DoReadEnd(p) => Call(p)[1] # "write" BY DEF DoReadEnd, Reading, Calls
<1>13. DoReadEnd(p) \/ DoWritePipe(p)
  BY <1>4, <1>6, <1>8, <1>9, <1>10, <1>11
     DEF Step, DoClose, DoDup2, DoPipe, DoOpen, DoIgnore, DoPut, DoPutFailure,
         DoExec, DoFork, DoExit, DoDie, DoWait, NoChildLeft, Calls, Moves
<1> QED BY <1>2, <1>3, <1>6, <1>10, <1>12, <1>13

(* The writer writes one block after the other.                             *)
LEMMA WriterStep ==
  ASSUME CInv, FInv, Smooth, HInv, GInv, SourceInv, NEW o \in Procs, Step(o), Writer # 0
  PROVE  /\ written' \in Nat
         /\ (Place(Writer) < Work(Writer))' => written' = 0
         /\ (Place(Writer) = Work(Writer))' => written' < Sent'
         /\ Left \in Nat /\ Left' \in Nat
         /\ DoWritePipe(o) /\ Call(o)[1] = "write" => Left' + 1 = Left
         /\ ~(DoWritePipe(o) /\ Call(o)[1] = "write") => Left' = Left
<1>1. job' = job BY Shapes
<1>2. PICK w : w = Writer OBVIOUS
<1>3. w \in Crew /\ w \in Procs /\ Work(w) # 0 /\ Task(w)[1] = "write" /\ Task(w)[3] = Sent
  <2>1. w \in Crew /\ Work(w) # 0 /\ Task(w)[1] = "write" /\ Tasked(w)
    BY <1>2, AllTasks DEF CInv, Tasks
  <2> QED BY <2>1, CrewAre DEF Tasked
<1>4. Writer' = w /\ Sent' = Sent /\ Work(w)' = Work(w)
  BY <1>1, <1>2, <1>3, TasksStay, CourseStays
<1>5. PICK k \in Nat, r \in Nat, n \in Nat : k = Place(w) /\ r = Work(w) /\ n = Sent
  BY <1>3, Steps, SentIs DEF CInv
<1>6. /\ written \in Nat /\ (k < r => written = 0) /\ (k = r => written < n) /\ n > 0
  BY <1>2, <1>5, SentIs DEF SourceInv, CInv
<1>7. PICK j : j = Place(w)' OBVIOUS
<1>8. /\ Left = (IF k < r THEN n ELSE IF k = r THEN n - written ELSE 0)
      /\ Left' = (IF j < r THEN n ELSE IF j = r THEN n - written' ELSE 0)
  <2>1. Left = (IF k < r THEN n ELSE IF k = r THEN n - written ELSE 0)
    BY <1>2, <1>5 DEF Left
  <2>2. Left' = (IF Place(w)' < r THEN n ELSE IF Place(w)' = r THEN n - written' ELSE 0)
    BY <1>2, <1>4, <1>5 DEF Left, Place
  <2> QED BY <1>7, <2>1, <2>2
<1>9. j = k \/ j = k + 1 BY <1>2, <1>3, <1>5, <1>7, PlaceStep
<1> SUFFICES /\ written' \in Nat
             /\ j < r => written' = 0
             /\ j = r => written' < n
             /\ Left \in Nat /\ Left' \in Nat
             /\ DoWritePipe(o) /\ Call(o)[1] = "write" => Left' + 1 = Left
             /\ ~(DoWritePipe(o) /\ Call(o)[1] = "write") => Left' = Left
  BY <1>2, <1>4, <1>5, <1>7 DEF Place
<1>10. CASE DoWritePipe(o) /\ Call(o)[1] = "write"
  <2>1. o = w /\ k = r /\ Call(o)[3] = n /\ life[o] = "run"
    BY <1>2, <1>3, <1>5, <1>10, Writes
  <2>2. Calls(o, "write") /\ WritesLeft(o) = n - written
    BY <1>10, <2>1 DEF Calls, WritesLeft
  <2>3. CASE n - written = 1
    <3>1. GoesOn(o) BY <1>10, <2>2, <2>3 DEF DoWritePipe, Written
    <3>2. step'[o] = step[o] + 1 /\ written' = 0 /\ image' = image /\ step[o] \in Nat
      BY <3>1 DEF GoesOn, CInv
    <3>3. j # k
      <4>1. Turn(w)' = Turn(w) BY <1>1, <1>3, CourseStays
      <4>2. Turn(w) \in Nat BY <1>3, Steps
      <4> QED BY <1>5, <1>7, <2>1, <3>2, <4>1, <4>2 DEF Place
    <3> QED BY <1>6, <1>8, <1>9, <1>10, <2>1, <2>3, <3>2, <3>3
  <2>4. CASE n - written # 1
    <3>1. written' = written + 1 /\ UNCHANGED <<image, step>>
      BY <1>10, <2>2, <2>4 DEF DoWritePipe, Written
    <3>2. j = k
      <4>1. Turn(w)' = Turn(w) BY <1>1, <1>3, CourseStays
      <4> QED BY <1>5, <1>7, <3>1, <4>1 DEF Place
    <3> QED BY <1>6, <1>8, <1>10, <2>1, <2>4, <3>1, <3>2
  <2> QED BY <2>3, <2>4
<1>11. CASE ~(DoWritePipe(o) /\ Call(o)[1] = "write")
  <2>1. written' = written
    <3>1. DoWritePipe(o) => written' = written
      BY <1>11 DEF DoWritePipe, Written, Calls, control
    <3>2. DoWrite(o) => written' = written
      <4>1. ASSUME DoWrite(o) PROVE Call(o)[1] # "write"
        <5>1. ~DoWritePipe(o) BY <4>1 DEF DoWrite, DoWritePipe, IsPipe
        <5> QED BY <4>1, <5>1, Writes
      <4> QED BY <4>1 DEF DoWrite, Written, Calls, control
    <3>3. DoRead(o) => written' = written BY DEF DoRead, control
    <3> QED BY <3>1, <3>2, <3>3, Idle, Unbroken
  <2>2. j = k + 1 => k # r
    <3>1. ASSUME j = k + 1, k = r PROVE FALSE
      <4>1. Place(w)' # Place(w) BY <1>5, <1>7, <3>1
      <4>2. w = o /\ Call(w) = Task(w) /\ DoWritePipe(w)
        BY <1>3, <1>5, <3>1, <4>1, LeavesHow
      <4> QED BY <1>3, <1>11, <4>2
    <3> QED BY <3>1
  <2> QED BY <1>6, <1>8, <1>9, <1>11, <2>1, <2>2
<1> QED BY <1>10, <1>11

(* A block leaves the input when it is read.                                *)
LEMMA InputStep ==
  ASSUME CInv, FInv, Smooth, HInv, GInv, SourceInv, FileInv, NEW o \in Procs, Step(o)
  PROVE  /\ input' \in Nat /\ (input = 0 => input' = 0)
         /\ DoRead(o) /\ From(o) = "in" => input' + 1 = input
         /\ ~(DoRead(o) /\ From(o) = "in") => input' = input
         /\ DoRead(o) /\ From(o) = "read" => at' = at + 1 /\ at < 2
         /\ job.prog = "5_18B" /\ ~(DoRead(o) /\ From(o) = "read") => at' = at
<1>1. input \in Nat BY DEF SourceInv
<1>2. DoWrite(o) \/ DoWritePipe(o) => input' = input BY DEF DoWrite, DoWritePipe
<1>3. CASE DoRead(o)
  <2>1. fds[o][Arg(o)] = From(o) /\ (From(o) = "read" => job.prog = "5_18B")
    BY <1>3, Reads
  <2>2. HasBlock(From(o)) /\ TakesBlock(From(o)) BY <1>3, <2>1 DEF DoRead
  <2>3. /\ input' = IF From(o) = "in" THEN input - 1 ELSE input
        /\ at' = IF From(o) = "read" THEN at + 1 ELSE at
        /\ From(o) = "in" => input > 0
        /\ From(o) = "read" => at < Len(file)
    BY <2>2 DEF HasBlock, TakesBlock, IsPipe
  <2>4. From(o) = "read" => Len(file) = 2 BY <2>1 DEF FileInv
  <2>5. CASE From(o) = "in"
    <3>1. input' = input - 1 /\ input > 0 /\ at' = at BY <2>3, <2>5
    <3>2. input' \in Nat /\ input # 0 /\ input' + 1 = input BY <1>1, <3>1
    <3> QED BY <1>3, <2>5, <3>1, <3>2
  <2>6. CASE From(o) # "in"
    <3>1. input' = input BY <2>3, <2>6
    <3>2. From(o) = "read" => at' = at + 1 /\ at < 2 BY <2>3, <2>4
    <3>3. From(o) # "read" => at' = at BY <2>3
    <3> QED BY <1>1, <1>3, <2>6, <3>1, <3>2, <3>3
  <2> QED BY <2>5, <2>6
<1>4. CASE ~DoRead(o)
  <2>1. input' = input BY <1>2, <1>4, Idle, Unbroken
  <2>2. ASSUME job.prog = "5_18B" PROVE at' = at
    <3>1. DoOpen(o) => at' = at
      <4>1. ASSUME DoOpen(o) PROVE at' = at
        <5>1. /\ Call(o)[1] = "open"
              /\ at' = IF Call(o)[3] = "append" THEN Len(file) ELSE 0
          BY <4>1 DEF DoOpen, Calls
        <5>2. o = 1 BY <5>1, CallIs DEF ChildCalls
        <5>3. Call(1) = ParentScript[step[1]] /\ step[1] \in DOMAIN ParentScript
          BY ParentIs DEF Call
        <5>4. step[1] = 2 BY <5>1, <5>2, <5>3, Opens DEF CInv
        <5>5. ParentScript[2][3] = "read"
          <6>1. ParentScript = Parent18("stdin", "read", FALSE) /\ job.fails = 0
            BY <2>2, SmoothWhole DEF FullScript
          <6>2. CASE job.there
            <7>1. ParentScript = <<Dup2("stdin", "save"), Open("stdin", "read"), Fork(2),
                                   Dup2("save", "stdin"), Close("save"), Wait, Exit("0")>>
              BY <6>1, <6>2 DEF Parent18
            <7> QED BY <7>1
          <6>3. CASE ~job.there
            <7>1. ParentScript = <<Exit("2")>> BY <6>1, <6>3 DEF Parent18
            <7> QED BY <5>3, <5>4, <7>1
          <6> QED BY <6>2, <6>3
        <5>6. at = 0 BY <5>4 DEF FileInv
        <5> QED BY <5>1, <5>2, <5>3, <5>4, <5>5, <5>6
      <4> QED BY <4>1
    <3>2. DoWrite(o) => at' = at
      <4>1. ASSUME DoWrite(o) PROVE Target(o) = "out"
        <5>1. Target(o) \in {"out", "over", "append"} BY <4>1 DEF DoWrite
        <5>2. Target(o) \notin {"over", "append"} BY <2>2, <4>1, Writes
        <5> QED BY <5>1, <5>2
      <4> QED BY <4>1 DEF DoWrite
    <3>3. DoWritePipe(o) => at' = at BY DEF DoWritePipe
    <3> QED BY <1>4, <3>1, <3>2, <3>3, Idle, Unbroken
  <2> QED BY <1>1, <1>4, <2>1, <2>2
<1> QED BY <1>3, <1>4

(* Whoever has gone on has left nothing behind.                             *)
LEMMA SourceStep ==
  ASSUME CInv, FInv, Smooth, HInv, GInv, SourceInv, FileInv, NEW o \in Procs, Step(o)
  PROVE  SourceInv'
<1>1. job' = job BY Shapes
<1>2. Writer' = Writer /\ Sent' = Sent /\ Crew' = Crew BY <1>1, TasksStay, CourseStays
<1>3. input' \in Nat BY InputStep
<1>4. ASSUME NEW p \in Crew, Work(p)' # 0, Task(p)'[1] # "write", Place(p)' > Work(p)'
      PROVE  /\ From(p)' = "in" => input' = 0
             /\ From(p)' = "read" => at' = 2
  <2>1. p \in Procs BY CrewAre
  <2>2. Work(p)' = Work(p) /\ Task(p)' = Task(p) /\ From(p)' = From(p)
    BY <1>1, <2>1, TasksStay, CourseStays
  <2>3. Work(p) # 0 /\ Task(p)[1] # "write" /\ Place(p)' > Work(p) BY <1>4, <2>2
  <2>4. Place(p) \in Nat /\ Work(p) \in Nat /\ step[1] \in Nat BY Steps, CrewAre
  <2>5. CASE Place(p) > Work(p)
    <3>1. (From(p) = "in" => input = 0) /\ (From(p) = "read" => at = 2)
      BY <2>3, <2>5 DEF SourceInv
    <3>2. ASSUME From(p) = "read" PROVE at' = 2
      <4>1. job.prog = "5_18B" BY <2>3, <3>2, AllTasks DEF CInv, Tasks, Tasked
      <4> QED BY <3>1, <3>2, <4>1, InputStep
    <3> QED BY <2>2, <3>1, <3>2, InputStep
  <2>6. CASE ~(Place(p) > Work(p))
    <3>1. Place(p) = Work(p) /\ Place(p)' # Place(p)
      <4>1. Place(p)' = Place(p) \/ Place(p)' = Place(p) + 1 BY PlaceStep
      <4> QED BY <2>3, <2>4, <2>6, <4>1
    <3>2. p = o /\ DoReadEnd(p) BY <2>3, <3>1, LeavesHow
    <3>3. /\ fds[p][Arg(p)] = From(p)
          /\ From(p) = "read" => job.prog = "5_18B"
      BY <2>1, <3>2, Reads
    <3>4. AtEnd(From(p)) /\ input' = input /\ at' = at BY <3>2, <3>3 DEF DoReadEnd
    <3>5. ~HasBlock(From(p)) BY <3>4 DEF AtEnd
    <3>6. ASSUME From(p) = "in" PROVE input' = 0
      <4>1. ~(input > 0) /\ input \in Nat BY <3>5, <3>6 DEF HasBlock, SourceInv
      <4> QED BY <3>4, <4>1
    <3>7. ASSUME From(p) = "read" PROVE at' = 2
      <4>1. ~(at < Len(file)) BY <3>5, <3>7 DEF HasBlock
      <4>2. Len(file) = 2 /\ at \in 0 .. 2 BY <3>3, <3>7 DEF FileInv
      <4> QED BY <3>4, <4>1, <4>2
    <3> QED BY <2>2, <3>6, <3>7
  <2> QED BY <2>5, <2>6
<1>5. ASSUME Writer # 0
      PROVE  /\ (Place(Writer) < Work(Writer))' => written' = 0
             /\ (Place(Writer) = Work(Writer))' => written' < Sent'
  BY <1>5, WriterStep
<1>6. written' \in Nat
  <2>1. CASE Writer # 0 BY <2>1, WriterStep
  <2>2. CASE Writer = 0
    <3>1. written \in Nat BY DEF SourceInv
    <3>2. DoWritePipe(o) \/ DoWrite(o) => ~Calls(o, "write")
      <4>1. DoWritePipe(o) \/ DoWrite(o) => Call(o)[1] # "write"
        <5>1. 0 \notin Procs BY DEF Procs
        <5> QED BY <2>2, <5>1, Writes
      <4> QED BY <4>1 DEF Calls
    <3>3. DoWritePipe(o) \/ DoWrite(o) => written' = written
      BY <3>2 DEF DoWritePipe, DoWrite, Written, control
    <3>4. DoRead(o) => written' = written BY DEF DoRead, control
    <3> QED BY <3>1, <3>3, <3>4, Idle, Unbroken
  <2> QED BY <2>1, <2>2
<1>7. ASSUME NEW w \in WEnds, Eater(w)' = 0 PROVE pipe'[PipeOf(w)] = 0
  <2>1. Eater(w) = 0 BY <1>1, <1>7, CourseStays
  <2>2. pipe[PipeOf(w)] = 0 BY <2>1 DEF SourceInv
  <2>3. ~IsOpen(w) BY <2>1, OpenLater
  <2> QED BY <2>2, <2>3, PipeStep
<1> QED BY <1>2, <1>3, <1>4, <1>5, <1>6, <1>7 DEF SourceInv, WEnds, PipeOf

(* What is left to be sent.                                                 *)
LEMMA LeftStep ==
  ASSUME CInv, FInv, Smooth, HInv, GInv, SourceInv, FileInv, NEW o \in Procs, Step(o)
  PROVE  /\ Left \in Nat /\ Left' \in Nat
         /\ DoWritePipe(o) /\ Call(o)[1] = "write" => Left' + 1 = Left
         /\ DoRead(o) /\ From(o) \in {"in", "read"} => Left' + 1 = Left
         /\ ~(DoWritePipe(o) /\ Call(o)[1] = "write")
              /\ ~(DoRead(o) /\ From(o) \in {"in", "read"}) => Left' = Left
<1>1. job' = job BY Shapes
<1>2. Writer' = Writer BY <1>1, TasksStay
<1>3. /\ DoRead(o) /\ From(o) = "in" => job.prog \in Fed
      /\ DoRead(o) /\ From(o) = "read" => job.prog = "5_18B"
  BY Reads
<1>4. ~(DoRead(o) /\ DoWritePipe(o))
  <2>1. DoRead(o) => Call(o)[1] \in {"copy", "filter", "count"} /\ o \notin hold BY Reads
  <2>2. DoWritePipe(o) => Call(o)[1] = "write" \/ o \in hold BY Writes
  <2> QED BY <2>1, <2>2
<1>5. CASE Writer # 0
  <2>1. ~(DoRead(o) /\ From(o) \in {"in", "read"}) BY <1>3, <1>5 DEF Writer, Fed
  <2> QED BY <1>5, <2>1, WriterStep
<1>6. CASE Writer = 0
  <2>1. ~(DoWritePipe(o) /\ Call(o)[1] = "write")
    <3>1. 0 \notin Procs BY DEF Procs
    <3> QED BY <1>6, <3>1, Writes
  <2>2. CASE job.prog \in Fed
    <3>1. Left = input /\ Left' = input' BY <1>1, <1>2, <1>6, <2>2 DEF Left
    <3>2. ~(DoRead(o) /\ From(o) = "read") BY <1>3, <2>2 DEF Fed
    <3>3. input \in Nat BY DEF SourceInv
    <3> QED BY <2>1, <3>1, <3>2, <3>3, InputStep
  <2>3. CASE job.prog = "5_18B"
    <3>1. Left = 2 - at /\ Left' = 2 - at' BY <1>1, <1>2, <1>6, <2>3 DEF Left, Fed
    <3>2. ~(DoRead(o) /\ From(o) = "in") BY <1>3, <2>3 DEF Fed
    <3>3. at \in 0 .. 2 BY <2>3 DEF FileInv
    <3>4. CASE DoRead(o) /\ From(o) = "read"
      <4>1. at' = at + 1 /\ at < 2 BY <3>4, InputStep
      <4> QED BY <2>1, <3>1, <3>3, <3>4, <4>1
    <3>5. CASE ~(DoRead(o) /\ From(o) = "read")
      <4>1. at' = at BY <2>3, <3>5, InputStep
      <4> QED BY <2>1, <3>1, <3>2, <3>3, <3>5, <4>1
    <3> QED BY <3>4, <3>5
  <2>4. CASE job.prog \notin Fed \cup {"5_18B"}
    <3>1. Left = 0 /\ Left' = 0 BY <1>1, <1>2, <1>6, <2>4 DEF Left
    <3> QED BY <1>3, <2>1, <2>4, <3>1
  <2> QED BY <2>2, <2>3, <2>4
<1> QED BY <1>5, <1>6

(* What the processes have in hand, or have kept.                           *)
LEMMA HandStep ==
  ASSUME CInv, OInv, Smooth, HInv, FInv, GInv, NEW o \in Procs, Step(o)
  PROVE  /\ Cardinality(hold) \in Nat /\ Cardinality(hold') \in Nat
         /\ taken \in Nat /\ taken' \in Nat
         /\ DoRead(o) => Cardinality(hold') + taken' = Cardinality(hold) + taken + 1
         /\ DoWrite(o) \/ (DoWritePipe(o) /\ Call(o)[1] # "write") =>
              Cardinality(hold') + 1 = Cardinality(hold) /\ taken' = taken
         /\ ~DoRead(o) /\ ~DoWrite(o) /\ ~(DoWritePipe(o) /\ Call(o)[1] # "write") =>
              Cardinality(hold') = Cardinality(hold) /\ taken' = taken
<1>1. IsFiniteSet(hold)
  <2>1. IsFiniteSet(Procs)
    <3>1. 1 \in Int /\ 3 \in Int OBVIOUS
    <3>2. IsFiniteSet(1 .. 3) BY <3>1, FS_Interval
    <3> QED BY <3>2 DEF Procs
  <2>2. hold \subseteq Procs BY DEF CInv
  <2> QED BY <2>1, <2>2, FS_Subset
<1>2. Cardinality(hold) \in Nat /\ taken \in Nat BY <1>1, FS_CardinalityType DEF OInv
<1>3. ASSUME o \in hold, hold' = hold \ {o} PROVE Cardinality(hold') + 1 = Cardinality(hold)
  <2>1. Cardinality(hold \ {o}) = Cardinality(hold) - 1 BY <1>1, <1>3, FS_RemoveElement
  <2> QED BY <1>2, <1>3, <2>1
<1>4. ASSUME o \notin hold, hold' = hold \cup {o} PROVE Cardinality(hold') = Cardinality(hold) + 1
  <2>1. Cardinality(hold \cup {o}) = Cardinality(hold) + 1 BY <1>1, <1>4, FS_AddElement
  <2> QED BY <1>4, <2>1
<1>5. IsFiniteSet(hold') /\ Cardinality(hold') \in Nat
  <2>1. hold' \subseteq hold \cup {o}
    <3>1. DoWrite(o) \/ DoWritePipe(o) => hold' \subseteq hold
      BY DEF DoWrite, DoWritePipe, Written
    <3>2. DoRead(o) => hold' \subseteq hold \cup {o} BY DEF DoRead
    <3> QED BY <3>1, <3>2, Idle, Unbroken
  <2>2. IsFiniteSet(hold \cup {o}) BY <1>1, FS_AddElement
  <2>3. IsFiniteSet(hold') BY <2>1, <2>2, FS_Subset
  <2> QED BY <2>3, FS_CardinalityType
<1>6. CASE DoRead(o)
  <2>1. o \notin hold BY <1>6 DEF DoRead
  <2>2. \/ hold' = hold \cup {o} /\ taken' = taken
        \/ hold' = hold /\ taken' = taken + 1
    BY <1>6 DEF DoRead
  <2>3. ~DoWrite(o) /\ ~(DoWritePipe(o) /\ Call(o)[1] # "write")
    BY <2>1, Writes DEF DoWrite, DoWritePipe, IsPipe
  <2> QED BY <1>2, <1>4, <1>5, <1>6, <2>1, <2>2, <2>3
<1>7. CASE DoWrite(o) \/ (DoWritePipe(o) /\ Call(o)[1] # "write")
  <2>1. o \in hold
    <3>1. Call(o)[1] # "write"
      <4>1. ~(DoWrite(o) /\ DoWritePipe(o)) BY DEF DoWrite, DoWritePipe, IsPipe
      <4> QED BY <1>7, <4>1, Writes
    <3> QED BY <1>7, <3>1, Writes
  <2>2. hold' = hold \ {o} /\ taken' = taken
    BY <1>7 DEF DoWrite, DoWritePipe, Written
  <2>3. ~DoRead(o) BY <2>1 DEF DoRead
  <2> QED BY <1>2, <1>3, <1>5, <1>7, <2>1, <2>2, <2>3
<1>8. CASE ~DoRead(o) /\ ~DoWrite(o) /\ ~(DoWritePipe(o) /\ Call(o)[1] # "write")
  <2>1. hold' = hold /\ taken' = taken
    <3>1. CASE DoWritePipe(o)
      <4>1. Call(o)[1] = "write" BY <1>8, <3>1
      <4>2. o \notin hold BY <4>1 DEF CInv
      <4>3. hold' = hold \ {o} /\ taken' = taken BY <3>1 DEF DoWritePipe, Written
      <4> QED BY <4>2, <4>3
    <3>2. CASE ~DoWritePipe(o) BY <1>8, <3>2, Idle, Unbroken
    <3> QED BY <3>1, <3>2
  <2> QED BY <1>2, <1>5, <1>8, <2>1
<1> QED BY <1>6, <1>7, <1>8

(* A block comes into a pipe when it is written, and leaves it when read.   *)
LEMMA PipesStep ==
  ASSUME CInv, FInv, Smooth, HInv, GInv, NEW o \in Procs, Step(o)
  PROVE  /\ InPipes \in Nat /\ InPipes' \in Nat
         /\ DoWritePipe(o) => InPipes' = InPipes + 1
         /\ DoRead(o) /\ From(o) \in {"r1", "r2"} => InPipes' + 1 = InPipes
         /\ ~DoWritePipe(o) /\ ~(DoRead(o) /\ From(o) \in {"r1", "r2"}) => InPipes' = InPipes
<1>1. pipe \in [{"1", "2"} -> Nat] /\ pipe' \in [{"1", "2"} -> Nat]
  BY PipeStep DEF GInv
<1>2. InPipes \in Nat /\ InPipes' \in Nat BY <1>1 DEF InPipes
<1>3. \A b : PipeOf(b) \in {"1", "2"} BY DEF PipeOf
<1>4. CASE DoWritePipe(o)
  <2>1. pipe' = [pipe EXCEPT ![PipeOf(Target(o))] = @ + 1] BY <1>4 DEF DoWritePipe
  <2>2. InPipes' = InPipes + 1 BY <1>1, <1>3, <2>1 DEF InPipes
  <2>3. ~DoRead(o)
    <3>1. DoRead(o) => Call(o)[1] \in {"copy", "filter", "count"} /\ o \notin hold BY Reads
    <3> QED BY <1>4, <3>1, Writes
  <2> QED BY <1>2, <1>4, <2>2, <2>3
<1>5. CASE DoRead(o)
  <2>1. fds[o][Arg(o)] = From(o) /\ From(o) \in {"in", "read", "r1", "r2"} BY <1>5, Reads
  <2>2. HasBlock(From(o)) /\ TakesBlock(From(o)) BY <1>5, <2>1 DEF DoRead
  <2>3. ~DoWritePipe(o)
    <3>1. Call(o)[1] \in {"copy", "filter", "count"} /\ o \notin hold BY <1>5, Reads
    <3> QED BY <3>1, Writes
  <2>4. CASE From(o) \in {"r1", "r2"}
    <3>1. pipe' = [pipe EXCEPT ![PipeOf(From(o))] = @ - 1]
      BY <2>2, <2>4 DEF TakesBlock, IsPipe
    <3>2. InPipes' + 1 = InPipes BY <1>1, <1>3, <3>1 DEF InPipes
    <3> QED BY <1>2, <1>5, <2>3, <2>4, <3>2
  <2>5. CASE From(o) \notin {"r1", "r2"}
    <3>1. pipe' = pipe BY <2>1, <2>2, <2>5 DEF TakesBlock, IsPipe
    <3> QED BY <1>2, <1>5, <2>3, <2>5, <3>1 DEF InPipes
  <2> QED BY <2>4, <2>5
<1>6. CASE ~DoRead(o) /\ ~DoWritePipe(o)
  <2>1. DoWrite(o) => pipe' = pipe BY DEF DoWrite
  <2>2. pipe' = pipe BY <1>6, <2>1, Idle, Unbroken
  <2> QED BY <1>2, <1>6, <2>2 DEF InPipes
<1> QED BY <1>4, <1>5, <1>6

(* Whatever a step takes from one place it adds to another.                 *)
LEMMA BalanceStep ==
  ASSUME CInv, FInv, OInv, Smooth, HInv, GInv, DInv, NEW o \in Procs, Step(o)
  PROVE  DInv'
<1>1. job' = job BY Shapes
<1>2. Sent' = Sent BY <1>1, TasksStay
<1>3. LinesIn(Shown, Unshown) /\ FileInv /\ SourceInv BY DEF DInv
<1>4. LinesIn(Shown, Unshown)' BY <1>3, ShownStep
<1>5. FileInv' BY <1>3, FileStep
<1>6. SourceInv' BY <1>3, SourceStep
<1> DEFINE a == DoWritePipe(o) /\ Call(o)[1] = "write"
           b == DoWritePipe(o) /\ Call(o)[1] # "write"
           c == DoWrite(o) /\ Target(o) = "out"
           d == DoWrite(o) /\ Target(o) # "out"
           e == DoRead(o) /\ From(o) \in {"in", "read"}
           f == DoRead(o) /\ From(o) \in {"r1", "r2"}
<1>7. /\ ~(a /\ (c \/ d \/ e \/ f)) /\ ~(b /\ (c \/ d \/ e \/ f))
      /\ ~((c \/ d) /\ (e \/ f)) /\ (DoRead(o) => e \/ f)
      /\ ~(e /\ f) /\ ~(a /\ b) /\ ~(c /\ d)
  <2>1. DoRead(o) => /\ Call(o)[1] \in {"copy", "filter", "count"} /\ o \notin hold
                     /\ From(o) \in {"in", "read", "r1", "r2"}
    BY Reads
  <2>2. DoWrite(o) \/ DoWritePipe(o) => Call(o)[1] = "write" \/ o \in hold BY Writes
  <2>3. ~(DoWrite(o) /\ DoWritePipe(o)) BY DEF DoWrite, DoWritePipe, IsPipe
  <2> QED BY <2>1, <2>2, <2>3
<1>8. /\ Left \in Nat /\ Left' \in Nat /\ (a => Left' + 1 = Left) /\ (e => Left' + 1 = Left)
      /\ (~a /\ ~e => Left' = Left)
  BY <1>3, LeftStep
<1>9. /\ InPipes \in Nat /\ InPipes' \in Nat /\ (a \/ b => InPipes' = InPipes + 1)
      /\ (f => InPipes' + 1 = InPipes) /\ (~a /\ ~b /\ ~f => InPipes' = InPipes)
  BY PipesStep
<1>10. PICK h \in Nat, g \in Nat, t \in Nat, u \in Nat :
          h = Cardinality(hold) /\ g = Cardinality(hold') /\ t = taken /\ u = taken'
  BY HandStep
<1>11. /\ (e \/ f => g + u = h + t + 1)
       /\ (b \/ c \/ d => g + 1 = h /\ u = t)
       /\ (~b /\ ~c /\ ~d /\ ~e /\ ~f => g = h /\ u = t)
  BY <1>7, <1>10, HandStep
<1>12. OnScreen \in Nat /\ OnScreen' = IF c THEN OnScreen + 1 ELSE OnScreen
  BY <1>3, ScreenStep
<1>13. InFile \in Nat /\ InFile' = IF d THEN InFile + 1 ELSE InFile
  BY <1>3, InFileStep
<1>14. Left + InPipes + h + OnScreen + InFile + t = Sent
  <2>1. pipe["1"] \in Nat /\ pipe["2"] \in Nat BY DEF GInv
  <2> QED BY <1>8, <1>10, <1>12, <1>13, <2>1 DEF DInv, InPipes
<1>15. Left' + InPipes' + g + OnScreen' + InFile' + u = Sent
  <2> HIDE DEF a, b, c, d, e, f
  <2>1. PICK l \in Nat, l2 \in Nat, i \in Nat, i2 \in Nat, s \in Nat, s2 \in Nat,
             n \in Nat, n2 \in Nat :
          /\ l = Left /\ l2 = Left' /\ i = InPipes /\ i2 = InPipes'
          /\ s = OnScreen /\ s2 = OnScreen' /\ n = InFile /\ n2 = InFile'
    <3>1. OnScreen' \in Nat /\ InFile' \in Nat BY <1>12, <1>13
    <3> QED BY <1>8, <1>9, <1>12, <1>13, <3>1
  <2>2. /\ l + i + h + s + n + t = Sent
        /\ (a => l2 + 1 = l) /\ (e => l2 + 1 = l) /\ (~a /\ ~e => l2 = l)
        /\ (a \/ b => i2 = i + 1) /\ (f => i2 + 1 = i) /\ (~a /\ ~b /\ ~f => i2 = i)
        /\ s2 = (IF c THEN s + 1 ELSE s) /\ n2 = (IF d THEN n + 1 ELSE n)
    BY <1>8, <1>9, <1>12, <1>13, <1>14, <2>1
  <2>3. l2 + i2 + g + s2 + n2 + u = l + i + h + s + n + t
    <3>1. CASE a BY ONLY <1>7, <1>11, <2>2, <3>1
    <3>2. CASE b BY ONLY <1>7, <1>11, <2>2, <3>2
    <3>3. CASE c BY ONLY <1>7, <1>11, <2>2, <3>3
    <3>4. CASE d BY ONLY <1>7, <1>11, <2>2, <3>4
    <3>5. CASE e BY ONLY <1>7, <1>11, <2>2, <3>5
    <3>6. CASE f BY ONLY <1>7, <1>11, <2>2, <3>6
    <3>7. CASE ~a /\ ~b /\ ~c /\ ~d /\ ~e /\ ~f BY ONLY <1>11, <2>2, <3>7
    <3> QED BY <3>1, <3>2, <3>3, <3>4, <3>5, <3>6, <3>7
  <2> QED BY <2>1, <2>2, <2>3
<1>16. pipe'["1"] \in Nat /\ pipe'["2"] \in Nat BY PipeStep
<1>17. InPipes' = pipe'["1"] + pipe'["2"] BY DEF InPipes
<1>18. (Left + pipe["1"] + pipe["2"] + Cardinality(hold) + OnScreen + InFile + taken)' = Sent
  <2>1. OnScreen' \in Nat /\ InFile' \in Nat BY <1>12, <1>13
  <2> HIDE DEF a, b, c, d, e, f
  <2>2. Left' + (pipe'["1"] + pipe'["2"]) + g + OnScreen' + InFile' + u = Sent
    BY <1>15, <1>17
  <2> QED BY <1>8, <1>10, <1>16, <2>1, <2>2
<1> QED BY <1>2, <1>4, <1>5, <1>6, <1>18 DEF DInv

LEMMA DStep ==
  ASSUME CInv, FInv, OInv, Smooth, HInv, GInv, DInv, [Next]_vars PROVE DInv'
<1>1. CASE UNCHANGED vars
  <2>1. job' = job BY <1>1 DEF vars
  <2>2. /\ Writer' = Writer /\ Sent' = Sent /\ LastStage' = LastStage /\ Crew' = Crew
        /\ \A p \in Procs : /\ Task(p)' = Task(p) /\ From(p)' = From(p) /\ Work(p)' = Work(p)
                            /\ Place(p)' = Place(p)
        /\ \A w : Eater(w)' = Eater(w)
    <3>1. \A p \in Procs : Place(p)' = Place(p) BY <1>1, <2>1, CourseStays DEF Place, vars
    <3> QED BY <2>1, <3>1, TasksStay, CourseStays
  <2>3. Crew \subseteq Procs /\ (Writer # 0 => Writer \in Procs)
    BY CrewAre, AllTasks DEF CInv, Tasks
  <2>4. LinesIn(Shown, Unshown)'
    <3>1. Shown' = Shown /\ Unshown' = Unshown BY <2>2 DEF Shown, Unshown, Entries
    <3> QED BY <1>1, <3>1 DEF DInv, LinesIn, vars
  <2>5. FileInv' BY <1>1 DEF DInv, FileInv, vars
  <2>6. SourceInv'
    <3>1. SourceInv BY DEF DInv
    <3>2. \A p \in Crew : /\ Task(p)' = Task(p) /\ From(p)' = From(p) /\ Work(p)' = Work(p)
                          /\ Place(p)' = Place(p)
      BY <2>2, <2>3
    <3>3. Writer # 0 => /\ (Place(Writer) < Work(Writer))' = (Place(Writer) < Work(Writer))
                        /\ (Place(Writer) = Work(Writer))' = (Place(Writer) = Work(Writer))
      BY <2>2, <2>3 DEF Place
    <3>4. /\ input' = input /\ written' = written /\ at' = at /\ pipe' = pipe
      BY <1>1 DEF vars
    <3> QED BY <2>2, <3>1, <3>2, <3>3, <3>4 DEF SourceInv, WEnds, PipeOf
  <2>7. Left' = Left /\ OnScreen' = OnScreen /\ InFile' = InFile
    <3>1. Left' = Left
      <4>1. Writer # 0 => (Place(Writer) < Work(Writer))' = (Place(Writer) < Work(Writer))
                          /\ (Place(Writer) = Work(Writer))' = (Place(Writer) = Work(Writer))
        BY <2>2, <2>3 DEF Place
      <4> QED BY <1>1, <2>1, <2>2, <4>1 DEF Left, vars
    <3>2. OnScreen' = OnScreen /\ InFile' = InFile
      BY <1>1 DEF OnScreen, InFile, HowMany, Places, BlockLines, Entries, vars
    <3> QED BY <3>1, <3>2
  <2> QED BY <1>1, <2>2, <2>4, <2>5, <2>6, <2>7 DEF DInv, vars
<1>2. ASSUME NEW o \in Procs, Step(o) PROVE DInv' BY <1>2, BalanceStep
<1> QED BY <1>1, <1>2 DEF Next

LEMMA DInit == Init /\ Smooth => DInv
<1> SUFFICES ASSUME Init, Smooth PROVE DInv OBVIOUS
<1>1. CInv BY CInit
<1>2. /\ file = (IF job.there THEN <<"old", "old">> ELSE <<>>) /\ at = 0 /\ written = 0
      /\ input = InBlocks /\ out = <<>> /\ hold = {} /\ taken = 0
      /\ pipe = [k \in {"1", "2"} |-> 0]
      /\ \A p \in Procs : image[p] = "main" /\ step[p] = 1 /\ buffer[p] = <<>>
  BY DEF Init
<1>3. \A p \in Crew : Place(p) = 1 BY <1>2, CrewAre DEF Place
<1>4. \A p \in Crew : Work(p) \in Nat BY <1>1, Steps
<1>5. LinesIn(Shown, Unshown)
  <2>1. \A S : <<>> \in Seq(S) OBVIOUS
  <2> QED BY <1>2, <2>1 DEF LinesIn
<1>6. FileInv
  <2>1. CASE job.there BY <1>2, <2>1 DEF FileInv
  <2>2. CASE ~job.there
    <3>1. job.prog # "5_18B" BY <2>2 DEF Smooth, AllCopy
    <3> QED BY <1>2, <2>2, <3>1 DEF FileInv
  <2> QED BY <2>1, <2>2
<1>7. Writer # 0 => Writer \in Crew /\ Work(Writer) # 0 BY <1>1, AllTasks DEF CInv, Tasks
<1>8. SourceInv
  <2>1. InBlocks \in Nat BY SizeAssumption
  <2>2. \A w : PipeOf(w) \in {"1", "2"} BY DEF PipeOf
  <2>3. \A p \in Crew : Work(p) # 0 => ~(Place(p) > Work(p)) BY <1>3, <1>4
  <2>4. Writer # 0 => Sent > 0 BY <1>1, SentIs DEF CInv
  <2> QED BY <1>2, <2>1, <2>2, <2>3, <2>4 DEF SourceInv
<1>9. Left = Sent /\ Sent \in Nat
  <2>1. Sent \in Nat BY <1>1, SentIs DEF CInv
  <2>2. CASE Writer # 0
    <3>1. Place(Writer) = 1 /\ Work(Writer) \in Nat \ {0} BY <1>3, <1>4, <1>7, <2>2
    <3> QED BY <1>2, <2>1, <2>2, <3>1 DEF Left
  <2>3. CASE Writer = 0
    <3>1. job.prog \in Fed => Sent = InBlocks BY DEF Sent, Fed
    <3>2. job.prog = "5_18B" => Sent = 2 /\ job.prog \notin Fed BY DEF Sent, Fed
    <3>3. job.prog \notin Fed \cup {"5_18B"} => Sent = 0
      <4>1. job.prog \in Programs BY <1>1, JobAssumption DEF CInv
      <4> QED BY <2>3, <4>1 DEF Sent, Fed, Programs, Writer
    <3> QED BY <1>2, <2>1, <2>3, <3>1, <3>2, <3>3 DEF Left
  <2> QED BY <2>2, <2>3
<1>10. OnScreen = 0 BY <1>2, HowManyNone DEF OnScreen
<1>11. InFile = 0
  <2>1. Places(file, {"new"}) = {}
    <3>1. \A i \in DOMAIN file : file[i] # "new"
      <4>1. CASE job.there BY <1>2, <4>1
      <4>2. CASE ~job.there BY <1>2, <4>2
      <4> QED BY <4>1, <4>2
    <3> QED BY <3>1 DEF Places
  <2> QED BY <2>1, FS_EmptySet DEF InFile, HowMany
<1>12. Cardinality(hold) = 0 BY <1>2, FS_EmptySet
<1>13. pipe["1"] = 0 /\ pipe["2"] = 0 BY <1>2
<1>14. Left + pipe["1"] + pipe["2"] + Cardinality(hold) + OnScreen + InFile + taken = Sent
  BY <1>2, <1>9, <1>10, <1>11, <1>12, <1>13
<1> QED BY <1>5, <1>6, <1>8, <1>14 DEF DInv

(* When everybody has ended.                                                *)
LEMMA AllDone ==
  ASSUME CInv, FInv, Smooth, HInv, Finished
  PROVE  /\ \A p \in Crew : /\ life[p] \in {"zombie", "gone"} /\ Place(p) = Len(Course(p))
                            /\ Place(p) > Work(p)
         /\ \A p \in Procs : status[p] \in {NoStatus, "0"}
<1>1. 1 \in Crew /\ 1 \in Procs BY CrewAre
<1>2. life[1] = "zombie" BY <1>1 DEF CInv, Finished
<1>3. Place(1) = Len(Course(1)) /\ Place(1) = step[1]
  <2>1. OnPath(1) BY <1>1, <1>2 DEF HInv
  <2> QED BY <1>2, <2>1 DEF OnPath, Place, CInv
<1>4. ASSUME NEW p \in Crew PROVE life[p] \in {"zombie", "gone"}
  <2>1. p \in Procs /\ life[p] \in Lives /\ life[p] # "run" BY CrewAre DEF Finished, CInv
  <2>2. life[p] # "none"
    <3>1. CASE p = 1 BY <1>2, <3>1
    <3>2. CASE p # 1
      <4>1. PICK j \in DOMAIN Course(1) :
              j < Len(Course(1)) /\ (life[p] = "none" <=> step[1] <= j)
        BY <3>2, BornAt
      <4>2. j \in Nat /\ Len(Course(1)) \in Nat BY <1>1, <4>1, Steps
      <4> QED BY <1>3, <4>1, <4>2
    <3> QED BY <3>1, <3>2
  <2> QED BY <2>1, <2>2 DEF Lives
<1>5. ASSUME NEW p \in Crew
      PROVE  Place(p) = Len(Course(p)) /\ Place(p) > Work(p) /\ status[p] = "0"
  <2>1. life[p] \in {"zombie", "gone"} BY <1>4
  <2>2. Place(p) = Len(Course(p)) /\ status[p] = "0" BY <2>1 DEF HInv, OnPath
  <2>3. WellRun(p) /\ Len(Course(p)) \in Nat BY Steps
  <2>4. Work(p) \in 0 .. Len(Course(p)) - 1 BY <2>3 DEF WellRun
  <2> QED BY <2>2, <2>3, <2>4
<1>6. \A p \in Procs : p \notin Crew => status[p] = NoStatus BY DEF HInv, FInv
<1> QED BY <1>4, <1>5, <1>6

(* What the property counts.                                                *)
LEMMA BlocksCount ==
  ASSUME CInv, OInv PROVE OutLines("block") = OnScreen
<1>1. \A i \in DOMAIN out : out[i] \in Entries BY DEF OInv
<1>2. {i \in DOMAIN out : out[i].line = "block"} = Places(out, BlockLines)
  BY <1>1 DEF Places, BlockLines
<1> QED BY <1>2 DEF OutLines, OnScreen, HowMany

(* For all jobs and sizes: when every command copies, every block sent      *)
(* arrives where it should, the pipes are empty at the end and nobody was   *)
(* killed or failed.                                                        *)
THEOREM BlocksCorrect == Spec => []BlocksArrive
<1>1. Init => (Smooth => DInv) BY DInit
<1>2. ASSUME Known, Smooth => DInv, [Next]_vars PROVE Smooth' => DInv'
  <2>1. job' = job BY <1>2, Shapes DEF Known, Next, vars
  <2>2. Smooth' = Smooth BY <2>1, CourseStays
  <2> QED BY <1>2, <2>2, DStep DEF Known
<1>3. ASSUME Known, Smooth => DInv PROVE BlocksArrive
  <2> SUFFICES ASSUME Finished, AllCopy
               PROVE  /\ Arrived = Sent
                      /\ \A i \in DOMAIN out : out[i].line = "block" => out[i].of \in LastStage
                      /\ pipe = [k \in {"1", "2"} |-> 0]
                      /\ \A p \in Procs : status[p] \in {NoStatus, "0"}
    BY DEF BlocksArrive
  <2>1. Smooth BY DEF Smooth
  <2>2. CInv /\ FInv /\ OInv /\ HInv /\ GInv /\ DInv BY <1>3, <2>1 DEF Known
  <2>3. /\ \A p \in Crew : /\ life[p] \in {"zombie", "gone"} /\ Place(p) = Len(Course(p))
                           /\ Place(p) > Work(p)
        /\ \A p \in Procs : status[p] \in {NoStatus, "0"}
    BY <2>1, <2>2, AllDone
  <2>4. pipe["1"] = 0 /\ pipe["2"] = 0
    <3>1. ASSUME NEW w \in WEnds PROVE pipe[PipeOf(w)] = 0
      <4>1. CASE Eater(w) = 0 BY <2>2, <4>1 DEF DInv, SourceInv
      <4>2. CASE Eater(w) # 0
        <5>1. PipedBy(w) BY <2>1, <2>2, AllPiped DEF CInv, Piped
        <5>2. Eater(w) \in Crew BY <4>2, <5>1 DEF PipedBy
        <5> QED BY <2>2, <2>3, <4>2, <5>2 DEF GInv
      <4> QED BY <4>1, <4>2
    <3>2. PipeOf("w1") = "1" /\ PipeOf("w2") = "2" BY DEF PipeOf
    <3> QED BY <3>1, <3>2 DEF WEnds
  <2>5. pipe = [k \in {"1", "2"} |-> 0] BY <2>2, <2>4 DEF GInv
  <2>6. hold = {}
    <3>1. ASSUME NEW p \in hold PROVE FALSE
      <4>1. p \in Procs /\ life[p] = "run" BY <2>2 DEF CInv
      <4> QED BY <4>1 DEF Finished
    <3> QED BY <3>1
  <2>7. Left = 0
    <3>1. Tasks BY <2>1, <2>2, AllTasks DEF CInv
    <3>2. CASE Writer # 0
      <4>1. Writer \in Crew BY <3>1, <3>2 DEF Tasks
      <4>2. Place(Writer) > Work(Writer) BY <2>3, <4>1
      <4>3. Place(Writer) \in Nat /\ Work(Writer) \in Nat BY <2>1, <2>2, <4>1, Steps
      <4> QED BY <3>2, <4>2, <4>3 DEF Left
    <3>3. CASE Writer = 0 /\ job.prog \in Fed
      <4>1. PICK p \in Crew : Work(p) # 0 /\ Task(p)[1] # "write" /\ From(p) = "in"
        BY <3>1, <3>3 DEF Tasks
      <4>2. input = 0 BY <2>2, <2>3, <4>1 DEF DInv, SourceInv
      <4> QED BY <3>3, <4>2 DEF Left
    <3>4. CASE Writer = 0 /\ job.prog = "5_18B"
      <4>1. PICK p \in Crew : Work(p) # 0 /\ Task(p)[1] # "write" /\ From(p) = "read"
        BY <3>1, <3>4 DEF Tasks
      <4>2. at = 2 BY <2>2, <2>3, <4>1 DEF DInv, SourceInv
      <4> QED BY <3>4, <4>2 DEF Left, Fed
    <3>5. CASE Writer = 0 /\ job.prog \notin Fed \cup {"5_18B"} BY <3>5 DEF Left
    <3> QED BY <3>2, <3>3, <3>4, <3>5
  <2>8. OutLines("block") = OnScreen BY <2>2, BlocksCount
  <2>9. Cardinality({i \in DOMAIN file : file[i] = "new"}) = InFile
    <3>1. {i \in DOMAIN file : file[i] = "new"} = Places(file, {"new"}) BY DEF Places
    <3> QED BY <3>1 DEF InFile, HowMany
  <2>10. Arrived = Sent
    <3>1. Left + pipe["1"] + pipe["2"] + Cardinality(hold) + OnScreen + InFile + taken = Sent
      BY <2>2 DEF DInv
    <3>2. Cardinality(hold) = 0 BY <2>6, FS_EmptySet
    <3>3. OnScreen \in Nat /\ InFile \in Nat /\ taken \in Nat
      <4>1. out \in Seq(Entries) /\ file \in Seq({"old", "new"}) /\ taken \in Nat
        BY <2>2 DEF OInv, DInv, FileInv
      <4> QED BY <4>1, PlacesFinite DEF OnScreen, InFile
    <3>4. OnScreen + InFile + taken = Sent BY <2>4, <2>7, <3>1, <3>2, <3>3
    <3> QED BY <2>8, <2>9, <3>4 DEF Arrived
  <2>11. \A i \in DOMAIN out : out[i].line = "block" => out[i].of \in LastStage
    <3>1. out \in Seq(Shown) BY <2>2 DEF DInv, LinesIn
    <3>2. \A i \in DOMAIN out : out[i] \in Shown BY <3>1
    <3> QED BY <3>2 DEF Shown
  <2> QED BY <2>3, <2>5, <2>10, <2>11
<1>4. Init => Known BY KnownInit
<1>5. Known /\ [Next]_vars => Known' BY KnownStep
<1> QED BY <1>1, <1>2, <1>3, <1>4, <1>5, PTL DEF Spec

(* Nothing waits in the buffer of a terminal.                               *)
LEMMA TtyStep ==
  ASSUME CInv, OInv, NEW o \in Procs, Step(o), TtyInv
  PROVE  TtyInv'
<1>1. job' = job BY Shapes
<1> SUFFICES ASSUME job.tty PROVE \A p \in Procs : buffer'[p] = <<>>
  BY <1>1 DEF TtyInv
<1>2. \A p \in Procs : buffer[p] = <<>> BY DEF TtyInv
<1>3. buffer \in [Procs -> Seq(Entries)] /\ 1 \in Procs BY DEF OInv, Procs
<1>4. ASSUME NEW p, NEW ls, Prints(p, ls) PROVE buffer' = buffer BY <1>4 DEF Prints
<1>5. CASE Silent(o) \/ Sends(o) BY <1>2, <1>5 DEF Silent, Sends
<1>6. CASE Forgets(o) \/ Flushes(o)
  <2>1. buffer' = [buffer EXCEPT ![o] = <<>>] BY <1>6 DEF Forgets, Flushes
  <2> QED BY <1>2, <1>3, <2>1
<1>7. ASSUME NEW l, Says(o, l) PROVE buffer' = buffer BY <1>4, <1>7 DEF Says
<1>8. ASSUME NEW q \in Kids, Announces(q) PROVE buffer' = buffer
  BY <1>4, <1>8 DEF Announces
<1>9. ASSUME NEW q \in Kids, Copies(q) PROVE \A p \in Procs : buffer'[p] = <<>>
  <2>1. buffer' = [buffer EXCEPT ![q] = buffer[1]] BY <1>9 DEF Copies
  <2> QED BY <1>2, <1>3, <2>1
<1> QED BY <1>2, <1>5, <1>6, <1>7, <1>8, <1>9, Outputs

(* 5_25.                                                                    *)
LEMMA Calls25 ==
  ASSUME CInv, HInv, Smooth, job.prog = "5_25"
  PROVE  /\ step[1] \in 1 .. 8 /\ Call(1) = Parent25[step[1]]
         /\ \A p \in Procs : life[p] = "run" => p \in {1, 2}
         /\ life[2] = "run" => \E k \in 1 .. 4 : Call(2) = Child25[k]
<1>1. Crew = {1, 2} BY DEF Crew
<1>2. ParentScript = Parent25 /\ Course(2) = Child25 BY SmoothWhole DEF FullScript, Course
<1>3. step[1] \in DOMAIN Parent25 /\ Call(1) = Parent25[step[1]]
  BY <1>2, ParentIs DEF Call
<1>4. DOMAIN Parent25 = 1 .. 8 /\ DOMAIN Child25 = 1 .. 4
  <2>1. PICK s : s = Parent25 OBVIOUS
  <2>2. s = <<MakePipe(1), Put("header"), Fork(2), Close("w1"),
              Copy("r1", "stdout"), Close("r1"), Wait, Exit("0")>>
    BY <2>1 DEF Parent25
  <2>3. DOMAIN s = 1 .. 8 BY <2>2
  <2> QED BY <2>1, <2>3 DEF Child25
<1>5. \A p \in Procs : life[p] = "run" => p \in {1, 2} BY <1>1, OnCourse
<1>6. 2 \in Procs BY DEF Procs
<1>7. life[2] = "run" => \E k \in 1 .. 4 : Call(2) = Child25[k]
  BY <1>2, <1>4, <1>6, OnCourse
<1> QED BY <1>3, <1>4, <1>5, <1>7

(* The header is written before the fork; what waits then is doubled.       *)
LEMMA HeadStep ==
  ASSUME CInv, FInv, OInv, HInv, GInv, Smooth, TtyInv, HeadInv, NEW o \in Procs, Step(o)
  PROVE  HeadInv'
<1>1. job' = job BY Shapes
<1> SUFFICES ASSUME job.prog = "5_25", job.fails = 0 PROVE HeadInv' BY <1>1 DEF HeadInv
<1> DEFINE H(s) == HowMany(s, Headers)
<1>2. /\ out \in Seq(Entries) /\ buffer \in [Procs -> Seq(Entries)]
      /\ buffer[1] \in Seq(Entries) /\ buffer[2] \in Seq(Entries)
      /\ {1, 2} \subseteq Procs
  BY DEF OInv, Procs
<1>3. /\ \A s \in Seq(Entries) : H(s) \in Nat
      /\ \A s, t \in Seq(Entries) : H(s \o t) = H(s) + H(t)
      /\ H(<<>>) = 0
      /\ \A l : H(<<l>>) = IF l \in Headers THEN 1 ELSE 0
  BY PlacesFinite, HowManyMore, HowManyNone, HowManyOne
<1>4. Headers' = Headers BY DEF Headers, Entries
<1>5. /\ Heads = H(out) + H(buffer[1]) + H(buffer[2])
      /\ Heads' = H(out') + H(buffer'[1]) + H(buffer'[2])
  BY <1>4 DEF Heads
<1>6. PICK k \in 1 .. 8, j \in Nat : k = step[1] /\ j = step'[1] /\ (j = k \/ j = k + 1)
  BY Calls25, ParentGoes
<1>7. /\ Heads = IF k <= 2 THEN 0 ELSE IF job.tty \/ k = 3 THEN 1 ELSE 2
      /\ k <= 2 \/ (k = 3 /\ ~job.tty) => out = <<>>
      /\ k <= 3 => buffer[2] = <<>>
      /\ job.tty /\ k > 2 => out # <<>> /\ out[1] = Line("header")
      /\ job.tty => buffer[1] = <<>> /\ buffer[2] = <<>>
  BY <1>2, <1>6 DEF HeadInv, TtyInv
<1> SUFFICES /\ Heads' = IF j <= 2 THEN 0 ELSE IF job.tty \/ j = 3 THEN 1 ELSE 2
             /\ j <= 2 \/ (j = 3 /\ ~job.tty) => out' = <<>>
             /\ j <= 3 => buffer'[2] = <<>>
             /\ job.tty /\ j > 2 => out' # <<>> /\ out'[1] = Line("header")
  BY <1>1, <1>6 DEF HeadInv, Line
<1> HIDE DEF H
<1>8. o \in {1, 2} /\ life[o] = "run" BY Runner, Calls25
<1>9. /\ Call(1)[1] = "put" => k = 2 /\ Call(1)[2] = "header"
      /\ Call(1)[1] = "fork" => k = 3 /\ Call(1)[2] = 2
      /\ Call(1)[1] \in {"exit", "copy", "write", "wait", "waitall", "_exit", "die", "filter"} => k > 3
      /\ k = 2 => Call(1)[1] = "put"
      /\ k = 3 => Call(1)[1] = "fork"
      /\ Call(1)[1] \notin {"putfailure", "exec", "_exit", "die"}
  <2>1. Call(1) = Parent25[k] BY <1>6, Calls25
  <2> QED BY <2>1 DEF Parent25
<1>10. life[2] = "run" => /\ k > 3
                          /\ Call(2)[1] \in {"close", "write", "exit"}
  <2>1. life[2] = "run" => Call(2)[1] \in {"close", "write", "exit"}
    BY Calls25 DEF Child25
  <2>2. life[2] = "run" => k > 3
    <3>1. 2 \in Crew BY DEF Crew
    <3>2. PICK i \in DOMAIN Course(1) : Course(1)[i] = Fork(2) /\ (life[2] = "none" <=> step[1] <= i)
      BY <3>1, BornAt
    <3>3. Course(1) = Parent25 BY DEF Course, FullScript
    <3>4. i = 3
      <4>1. Parent25[i] = Fork(2) /\ i \in DOMAIN Parent25 BY <3>2, <3>3
      <4> QED BY <4>1 DEF Parent25
    <3> QED BY <1>6, <3>2, <3>4
  <2> QED BY <2>1, <2>2
<1>11. ASSUME NEW s \in Seq(Entries), k > 3, out' = out \o s, H(out') + H(buffer'[1]) + H(buffer'[2]) = Heads
       PROVE  /\ Heads' = IF j <= 2 THEN 0 ELSE IF job.tty \/ j = 3 THEN 1 ELSE 2
              /\ j <= 2 \/ (j = 3 /\ ~job.tty) => out' = <<>>
              /\ j <= 3 => buffer'[2] = <<>>
              /\ job.tty /\ j > 2 => out' # <<>> /\ out'[1] = Line("header")
  <2>1. j > 3 BY <1>6, <1>11
  <2>2. ASSUME out # <<>> PROVE out' # <<>> /\ out'[1] = out[1]
    <3>1. Len(out) > 0 /\ Len(out) \in Nat /\ Len(s) \in Nat BY <1>2, <2>2
    <3>2. Len(out') = Len(out) + Len(s) /\ out'[1] = out[1] BY <1>2, <1>11, <3>1
    <3> QED BY <3>1, <3>2
  <2>3. Heads' = Heads BY <1>5, <1>11
  <2> QED BY <1>6, <1>7, <1>11, <2>1, <2>2, <2>3
<1>12. CASE Silent(o)
  <2>1. out' = out /\ buffer' = buffer /\ Alone(o) /\ Call(o)[1] # "put"
    BY <1>12 DEF Silent
  <2>2. Heads' = Heads BY <1>5, <2>1
  <2>3. j = k \/ (k # 2 /\ k # 3)
    <3>1. CASE o = 1 BY <1>9, <2>1, <3>1 DEF Alone
    <3>2. CASE o # 1 BY <1>2, <1>6, <2>1, <3>2 DEF Alone, Stays
    <3> QED BY <3>1, <3>2
  <2> QED BY <1>6, <1>7, <2>1, <2>2, <2>3
<1>13. ASSUME NEW q \in Kids, Copies(q) PROVE HeadInv'
  <2>1. out' = out /\ buffer' = [buffer EXCEPT ![q] = buffer[1]]
        /\ Call(1)[1] = "fork" /\ Call(1)[2] = q /\ Advances(1)
    BY <1>13 DEF Copies, IsBorn, Births
  <2>2. k = 3 /\ q = 2 /\ j = 4 BY <1>6, <1>9, <2>1 DEF Advances
  <2>3. buffer'[1] = buffer[1] /\ buffer'[2] = buffer[1] BY <1>2, <2>1, <2>2
  <2>4. CASE job.tty
    <3>1. Heads' = Heads BY <1>5, <1>7, <2>1, <2>3, <2>4
    <3>2. Heads' = 1 BY <1>7, <2>2, <2>4, <3>1
    <3> QED BY <1>1, <1>6, <1>7, <2>1, <2>2, <2>4, <3>2 DEF HeadInv, Line
  <2>5. CASE ~job.tty
    <3>1. out = <<>> /\ buffer[2] = <<>> /\ Heads = 1 BY <1>7, <2>2, <2>5
    <3>2. H(buffer[1]) = 1 BY <1>2, <1>3, <1>5, <3>1
    <3>3. Heads' = 2 BY <1>3, <1>5, <2>1, <2>3, <3>1, <3>2
    <3> QED BY <1>1, <1>6, <2>2, <2>5, <3>3 DEF HeadInv, Line
  <2> QED BY <2>4, <2>5
<1>14. ~Forgets(o)
  <2>1. ASSUME Forgets(o) PROVE FALSE
    <3>1. Call(o)[1] \notin {"exec", "_exit", "die"} BY <1>8, <1>9, <1>10
    <3>2. Stops(o) /\ Call(o)[1] # "exit" BY <2>1, <3>1 DEF Forgets, Becomes
    <3> QED BY <3>1, <3>2, OnlyBroken, Unbroken
  <2> QED BY <2>1
<1>15. CASE Flushes(o)
  <2>1. out' = out \o buffer[o] /\ buffer' = [buffer EXCEPT ![o] = <<>>] /\ Call(o)[1] = "exit"
    BY <1>15 DEF Flushes
  <2>2. k > 3 BY <1>8, <1>9, <1>10, <2>1
  <2>3. H(out') = H(out) + H(buffer[o]) BY <1>2, <1>3, <2>1, <1>8
  <2>4. H(out') + H(buffer'[1]) + H(buffer'[2]) = Heads
    <3>1. H(out) \in Nat /\ H(buffer[1]) \in Nat /\ H(buffer[2]) \in Nat BY <1>2, <1>3
    <3>2. CASE o = 1
      <4>1. buffer'[1] = <<>> /\ buffer'[2] = buffer[2] BY <1>2, <2>1, <3>2
      <4> QED BY <1>3, <1>5, <2>3, <3>1, <3>2, <4>1
    <3>3. CASE o = 2
      <4>1. buffer'[2] = <<>> /\ buffer'[1] = buffer[1] BY <1>2, <2>1, <3>3
      <4> QED BY <1>3, <1>5, <2>3, <3>1, <3>3, <4>1
    <3> QED BY <1>8, <3>2, <3>3
  <2>5. buffer[o] \in Seq(Entries) BY <1>2
  <2> QED BY <1>11, <2>1, <2>2, <2>4, <2>5
<1>16. CASE Sends(o)
  <2>1. PICK l : l = Report("block", o, NoStatus) OBVIOUS
  <2>2. l \in Entries /\ l \notin Headers
    BY <2>1 DEF Report, Entries, Texts, Codes, Procs, Headers
  <2>3. out' = out \o <<l>> /\ <<l>> \in Seq(Entries) /\ buffer' = buffer
        /\ Call(o)[1] \in {"copy", "filter", "write"}
    BY <1>2, <1>16, <2>1, <2>2 DEF Sends
  <2>4. k > 3 BY <1>8, <1>9, <1>10, <2>3
  <2>5. H(out') = H(out) + H(<<l>>) BY <1>2, <1>3, <2>3
  <2>6. H(<<l>>) = 0 BY <1>3, <2>2
  <2>7. H(out) \in Nat BY <1>2, <1>3
  <2>8. H(out') = H(out) BY <2>5, <2>6, <2>7
  <2>9. H(out') + H(buffer'[1]) + H(buffer'[2]) = Heads BY <1>5, <2>3, <2>8
  <2> QED BY <1>11, <2>3, <2>4, <2>9
<1>17. ASSUME NEW l, Says(o, l) PROVE HeadInv'
  <2>1. /\ Prints(o, <<l>>) /\ Advances(o) /\ Call(o)[1] \in {"put", "putfailure"}
        /\ Call(o)[1] = "put" /\ Call(o)[2] # "count" => l = Line(Call(o)[2])
    BY <1>17 DEF Says
  <2>2. o = 1 BY <1>8, <1>10, <2>1
  <2>3. k = 2 /\ l = Line("header") BY <1>9, <2>1, <2>2
  <2>4. j = 3 BY <1>6, <2>1, <2>2, <2>3 DEF Advances
  <2>5. l \in Entries /\ l \in Headers
    BY <2>3 DEF Line, Entries, Texts, Codes, Headers
  <2>6. <<l>> \in Seq(Entries) /\ H(<<l>>) = 1 BY <1>3, <2>5
  <2>7. out = <<>> /\ buffer[2] = <<>> /\ Heads = 0 BY <1>7, <2>3
  <2>8. H(buffer[1]) = 0 BY <1>2, <1>3, <1>5, <2>7
  <2>9. CASE job.tty
    <3>1. out' = <<l>> /\ buffer' = buffer BY <2>1, <2>7, <2>9 DEF Prints
    <3>2. Heads' = 1 BY <1>3, <1>5, <2>6, <2>7, <2>8, <3>1
    <3>3. out' # <<>> /\ out'[1] = Line("header") BY <2>3, <3>1
    <3> QED BY <1>1, <1>6, <2>4, <2>7, <2>9, <3>1, <3>2, <3>3 DEF HeadInv, Line
  <2>10. CASE ~job.tty
    <3>1. out' = out /\ buffer' = [buffer EXCEPT ![1] = buffer[1] \o <<l>>]
      BY <2>1, <2>2, <2>10 DEF Prints
    <3>2. out' = <<>> /\ buffer'[1] = buffer[1] \o <<l>> /\ buffer'[2] = <<>>
      BY <1>2, <2>7, <3>1
    <3>3. H(buffer'[1]) = 1
      <4>1. H(buffer[1] \o <<l>>) = H(buffer[1]) + H(<<l>>) BY <1>2, <1>3, <2>6
      <4> QED BY <2>6, <2>8, <3>2, <4>1
    <3>4. Heads' = 1 BY <1>3, <1>5, <3>2, <3>3
    <3> QED BY <1>1, <1>6, <2>4, <2>10, <3>2, <3>4 DEF HeadInv, Line
  <2> QED BY <2>9, <2>10
<1>18. ASSUME NEW q \in Kids, Announces(q) PROVE HeadInv'
  <2>1. Prints(1, Reports(q, status[q])) /\ Call(1)[1] \in {"wait", "waitall"}
    BY <1>18 DEF Announces, IsReaped
  <2>2. Reports(q, status[q]) = <<>> BY DEF Reports
  <2>3. k > 3 BY <1>9, <2>1
  <2>4. out' = out /\ buffer' = buffer
    <3>1. out \o <<>> = out /\ buffer[1] \o <<>> = buffer[1] BY <1>2
    <3>2. [buffer EXCEPT ![1] = buffer[1]] = buffer BY <1>2
    <3>3. \/ out' = out \o <<>> /\ buffer' = buffer
          \/ out' = out /\ buffer' = [buffer EXCEPT ![1] = buffer[1] \o <<>>]
      BY <2>1, <2>2 DEF Prints
    <3> QED BY <3>1, <3>2, <3>3
  <2>5. out' = out \o <<>> /\ <<>> \in Seq(Entries) BY <1>2, <2>4
  <2>6. H(out') + H(buffer'[1]) + H(buffer'[2]) = Heads BY <1>5, <2>4
  <2>7. /\ Heads' = IF j <= 2 THEN 0 ELSE IF job.tty \/ j = 3 THEN 1 ELSE 2
        /\ j <= 2 \/ (j = 3 /\ ~job.tty) => out' = <<>>
        /\ j <= 3 => buffer'[2] = <<>>
        /\ job.tty /\ j > 2 => out' # <<>> /\ out'[1] = Line("header")
    BY <1>11, <2>3, <2>5, <2>6
  <2> QED BY <1>1, <1>6, <2>7 DEF HeadInv, Line
<1>19. \A l : Says(o, l) =>
              /\ Heads' = IF j <= 2 THEN 0 ELSE IF job.tty \/ j = 3 THEN 1 ELSE 2
              /\ j <= 2 \/ (j = 3 /\ ~job.tty) => out' = <<>>
              /\ j <= 3 => buffer'[2] = <<>>
              /\ job.tty /\ j > 2 => out' # <<>> /\ out'[1] = Line("header")
  BY <1>1, <1>6, <1>17 DEF HeadInv, Line
<1>20. \A q \in Kids : Copies(q) \/ Announces(q) =>
              /\ Heads' = IF j <= 2 THEN 0 ELSE IF job.tty \/ j = 3 THEN 1 ELSE 2
              /\ j <= 2 \/ (j = 3 /\ ~job.tty) => out' = <<>>
              /\ j <= 3 => buffer'[2] = <<>>
              /\ job.tty /\ j > 2 => out' # <<>> /\ out'[1] = Line("header")
  BY <1>1, <1>6, <1>13, <1>18 DEF HeadInv, Line
<1> QED BY <1>12, <1>14, <1>15, <1>16, <1>19, <1>20, Outputs

(* 5_14.                                                                    *)
LEMMA Calls14 ==
  ASSUME CInv, FInv, Smooth, HInv, job.prog = "5_14"
  PROVE  /\ Call(1)[1] \in {"fork", "waitall", "exit"}
         /\ Call(1)[1] = "fork" => Call(1)[2] = 2 /\ life[2] = "none"
         /\ Call(1)[1] = "exit" => life[2] = "gone"
         /\ \A p \in Procs : life[p] # "none" => p \in {1, 2}
         /\ step[2] \in {1, 2}
         /\ life[2] = "run" => Call(2) = IF step[2] = 1 THEN Put("child") ELSE Exit("0")
<1>1. Crew = {1, 2} /\ 2 \in Procs BY DEF Crew, Procs
<1>2. ParentScript = Parent14 /\ Course(2) = Child14 /\ Course(1) = Parent14
  BY SmoothWhole DEF FullScript, Course
<1>3. step[1] \in DOMAIN Parent14 /\ Call(1) = Parent14[step[1]]
  BY <1>2, ParentIs DEF Call
<1>4. /\ DOMAIN Parent14 = 1 .. 3 /\ Parent14[1] = Fork(2) /\ Parent14[2] = WaitAll
      /\ Parent14[3] = Exit("0")
  BY DEF Parent14
<1>5. Call(1)[1] \in {"fork", "waitall", "exit"} /\ (Call(1)[1] = "fork" => step[1] = 1 /\ Call(1)[2] = 2)
      /\ (Call(1)[1] = "exit" => step[1] = 3)
  BY <1>3, <1>4
<1>6. Call(1)[1] = "fork" => life[2] = "none"
  <2>1. PICK i \in DOMAIN Course(1) : Course(1)[i] = Fork(2) /\ (life[2] = "none" <=> step[1] <= i)
    BY <1>1, BornAt
  <2>2. i = 1 BY <1>2, <1>4, <2>1
  <2> QED BY <1>5, <2>1, <2>2
<1>7. Call(1)[1] = "exit" => life[2] = "gone"
  <2>1. PICK i \in DOMAIN Course(1) : Course(1)[i] = Fork(2) /\ (life[2] = "none" <=> step[1] <= i)
    BY <1>1, BornAt
  <2>2. i = 1 BY <1>2, <1>4, <2>1
  <2>3. Waits(2) BY <1>2, <1>4 DEF Waits
  <2>4. step[1] = 3 => life[2] \in {"none", "gone"}
    BY <1>2, <1>4, <2>3 DEF FInv, Kids
  <2> QED BY <1>5, <2>1, <2>2, <2>4
<1>8. \A p \in Procs : life[p] # "none" => p \in {1, 2} BY <1>1 DEF HInv
<1>9. step[2] \in {1, 2} /\ (life[2] = "run" => Call(2) = IF step[2] = 1 THEN Put("child") ELSE Exit("0"))
  <2>1. CASE life[2] = "none" BY <2>1 DEF CInv, Kids
  <2>2. CASE life[2] # "none"
    <3>1. OnPath(2) BY <1>1, <2>2 DEF HInv
    <3>2. Turn(2) = 2 BY DEF Turn, Plain18
    <3>3. Len(Child14) = 2 /\ DOMAIN Child14 = 1 .. 2 /\ Child14[1] = Put("child")
          /\ Child14[2] = Exit("0")
      BY DEF Child14
    <3>4. image[2] = "main" BY <1>2, <3>1, <3>2, <3>3 DEF OnPath
    <3>5. Place(2) = step[2] BY <3>4 DEF Place
    <3>6. step[2] \in 1 .. 2 /\ Call(2) = Child14[step[2]] BY <1>2, <3>1, <3>3, <3>5 DEF OnPath
    <3> QED BY <3>3, <3>6
  <2> QED BY <2>1, <2>2
<1> QED BY <1>5, <1>6, <1>7, <1>8, <1>9

LEMMA JoinsOf ==
  ASSUME NEW a, NEW b
  PROVE  /\ <<a>> \o <<b>> = <<a, b>>
         /\ <<>> \o <<b>> = <<b>>
         /\ <<a, b>> \o <<>> = <<a, b>>
<1>1. PICK s, t : s = <<a>> \o <<b>> /\ t = <<a, b>> OBVIOUS
<1> DEFINE S == {a, b}
<1>2. <<a>> \in Seq(S) /\ <<b>> \in Seq(S) /\ <<a, b>> \in Seq(S) OBVIOUS
<1>3. Len(<<a>>) = 1 /\ Len(<<b>>) = 1 /\ Len(<<a, b>>) = 2 OBVIOUS
<1>4. s \in Seq(S) /\ Len(s) = 2 BY <1>1, <1>2, <1>3
<1>5. s[1] = a /\ s[2] = b BY <1>1, <1>2, <1>3
<1>6. t \in Seq(S) /\ Len(t) = 2 /\ t[1] = a /\ t[2] = b BY <1>1, <1>2, <1>3
<1>7. s = t
  <2>1. \A i \in 1 .. 2 : s[i] = t[i] BY <1>5, <1>6
  <2> HIDE DEF S
  <2> QED BY <1>4, <1>6, <2>1, SeqEqual
<1>8. <<>> \o <<b>> = <<b>> BY <1>2
<1>9. <<a, b>> \o <<>> = <<a, b>> BY <1>2
<1> QED BY <1>1, <1>7, <1>8, <1>9

(* The child's line is out before the parent has waited for it.             *)
LEMMA OrderStep ==
  ASSUME CInv, FInv, OInv, HInv, GInv, Smooth, TtyInv, OrderInv, NEW o \in Procs, Step(o)
  PROVE  OrderInv'
<1>1. job' = job BY Shapes
<1> SUFFICES ASSUME job.prog = "5_14", job.fails = 0 PROVE OrderInv' BY <1>1 DEF OrderInv
<1> DEFINE child == Line("child")
           Goal == /\ life'[2] # "gone" => buffer'[1] = <<>>
                   /\ step'[2] = 1 => out' = <<>> /\ buffer'[2] = <<>>
                   /\ step'[2] = 2 /\ life'[2] \in {"none", "run"} => out' \o buffer'[2] = <<child>>
                   /\ life'[2] = "zombie" => out' = <<child>>
                   /\ life'[2] = "gone" => out' \o buffer'[1] = <<child, TheDone>>
                   /\ life'[2] \in {"zombie", "gone"} => step'[2] = 2
<1>2. /\ out \in Seq(Entries) /\ buffer \in [Procs -> Seq(Entries)]
      /\ buffer[1] \in Seq(Entries) /\ buffer[2] \in Seq(Entries)
      /\ {1, 2} \subseteq Procs /\ 2 \in Kids
  BY DEF OInv, Procs, Kids
<1>3. /\ life[2] # "gone" => buffer[1] = <<>>
      /\ step[2] = 1 => out = <<>> /\ buffer[2] = <<>>
      /\ step[2] = 2 /\ life[2] \in {"none", "run"} => out \o buffer[2] = <<child>>
      /\ life[2] = "zombie" => out = <<child>>
      /\ life[2] = "gone" => out \o buffer[1] = <<child, TheDone>>
      /\ life[2] \in {"zombie", "gone"} => step[2] = 2
  BY DEF OrderInv
<1>4. /\ Call(1)[1] \in {"fork", "waitall", "exit"}
      /\ Call(1)[1] = "fork" => Call(1)[2] = 2 /\ life[2] = "none"
      /\ Call(1)[1] = "exit" => life[2] = "gone"
      /\ \A p \in Procs : life[p] # "none" => p \in {1, 2}
      /\ step[2] \in {1, 2}
      /\ life[2] = "run" => Call(2) = IF step[2] = 1 THEN Put("child") ELSE Exit("0")
  BY Calls14
<1>5. o \in {1, 2} /\ life[o] = "run" BY <1>4, Runner
<1> SUFFICES Goal BY <1>1 DEF OrderInv, TheDone, Report, Line
<1>6. life[2] = "none" => step[2] = 1 BY <1>2 DEF CInv
<1>7. CASE Silent(o)
  <2>1. out' = out /\ buffer' = buffer /\ Alone(o) /\ Call(o)[1] # "put"
        /\ (Stays(o) \/ Advances(o))
    BY <1>7 DEF Silent
  <2>2. Stays(2)
    <3>1. CASE o = 1 BY <1>2, <2>1, <3>1 DEF Alone
    <3>2. CASE o = 2 BY <1>4, <1>5, <2>1, <3>2 DEF Advances, EndingCalls
    <3> QED BY <1>5, <3>1, <3>2
  <2> QED BY <1>3, <2>1, <2>2 DEF Stays
<1>8. ASSUME NEW q \in Kids, Copies(q) PROVE Goal
  <2>1. out' = out /\ buffer' = [buffer EXCEPT ![q] = buffer[1]]
        /\ Call(1)[1] = "fork" /\ Call(1)[2] = q /\ IsBorn(q)
    BY <1>8 DEF Copies, IsBorn
  <2>2. q = 2 /\ life[2] = "none" /\ step[2] = 1 BY <1>4, <1>6, <2>1
  <2>3. life'[2] = "run" /\ step'[2] = 1 BY <2>1, <2>2 DEF IsBorn
  <2>4. buffer'[1] = <<>> /\ buffer'[2] = <<>> /\ out' = <<>>
    BY <1>2, <1>3, <2>1, <2>2
  <2> QED BY <2>3, <2>4
<1>9. ~Forgets(o)
  <2>1. ASSUME Forgets(o) PROVE FALSE
    <3>1. Call(o)[1] \notin {"exec", "_exit", "die"} BY <1>4, <1>5
    <3>2. Stops(o) /\ Call(o)[1] # "exit" BY <2>1, <3>1 DEF Forgets, Becomes
    <3> QED BY <3>1, <3>2, OnlyBroken, Unbroken
  <2> QED BY <2>1
<1>10. CASE Flushes(o)
  <2>1. out' = out \o buffer[o] /\ buffer' = [buffer EXCEPT ![o] = <<>>] /\ Call(o)[1] = "exit"
        /\ Alone(o) /\ Stops(o)
    BY <1>10 DEF Flushes
  <2>2. CASE o = 1
    <3>1. Stays(2) /\ life[2] = "gone" BY <1>2, <1>4, <2>1, <2>2 DEF Alone
    <3>2. buffer'[1] = <<>> /\ out' = <<child, TheDone>> BY <1>2, <1>3, <2>1, <2>2, <3>1
    <3>3. out' \o buffer'[1] = <<child, TheDone>> BY <3>2
    <3> QED BY <1>3, <3>1, <3>3 DEF Stays
  <2>3. CASE o = 2
    <3>1. step[2] = 2 /\ life[2] = "run" BY <1>4, <1>5, <2>1, <2>3
    <3>2. out' = <<child>> /\ buffer'[1] = <<>> BY <1>2, <1>3, <2>1, <2>3, <3>1
    <3>3. life'[2] = "zombie" /\ step'[2] = 2 BY <2>1, <2>3, <3>1 DEF Stops
    <3> QED BY <3>2, <3>3
  <2> QED BY <1>5, <2>2, <2>3
<1>11. ~Sends(o)
  <2>1. Call(o)[1] \notin {"copy", "filter", "write"} BY <1>4, <1>5
  <2> QED BY <2>1 DEF Sends
<1>12. ASSUME NEW l, Says(o, l) PROVE Goal
  <2>1. /\ Prints(o, <<l>>) /\ Advances(o) /\ Call(o)[1] \in {"put", "putfailure"}
        /\ Call(o)[1] = "put" /\ Call(o)[2] # "count" => l = Line(Call(o)[2])
    BY <1>12 DEF Says
  <2>2. o = 2 /\ step[2] = 1 /\ l = child /\ life[2] = "run" BY <1>4, <1>5, <2>1
  <2>3. step'[2] = 2 /\ life'[2] = "run" BY <2>1, <2>2 DEF Advances
  <2>4. out = <<>> /\ buffer[2] = <<>> /\ buffer[1] = <<>> BY <1>3, <2>2
  <2>5. <<>> \o <<child>> = <<child>> /\ <<child>> \o <<>> = <<child>> OBVIOUS
  <2>6. buffer'[1] = <<>> /\ out' \o buffer'[2] = <<child>>
    <3>1. CASE job.tty
      <4>1. out' = <<>> \o <<child>> /\ buffer' = buffer BY <2>1, <2>2, <2>4, <3>1 DEF Prints
      <4> QED BY <2>4, <2>5, <4>1
    <3>2. CASE ~job.tty
      <4>1. out' = <<>> /\ buffer' = [buffer EXCEPT ![2] = <<>> \o <<child>>]
        BY <2>1, <2>2, <2>4, <3>2 DEF Prints
      <4>2. buffer'[1] = buffer[1] /\ buffer'[2] = <<child>> BY <1>2, <2>5, <4>1
      <4> QED BY <2>4, <2>5, <4>1, <4>2
    <3> QED BY <3>1, <3>2
  <2> QED BY <2>3, <2>6
<1>13. ASSUME NEW q \in Kids, Announces(q) PROVE Goal
  <2>1. Prints(1, Reports(q, status[q])) /\ IsReaped(q) BY <1>13 DEF Announces
  <2>2. q \in Procs /\ life[q] = "zombie" /\ life'[q] = "gone" /\ step'[q] = step[q]
    BY <2>1 DEF IsReaped, Kids, Procs
  <2>3. q = 2
    <3>1. q \in {1, 2} BY <1>4, <2>2
    <3> QED BY <3>1 DEF Kids
  <2>4. Reports(q, status[q]) = <<TheDone>> BY <2>3 DEF Reports, TheDone
  <2>5. out = <<child>> /\ buffer[1] = <<>> BY <1>3, <2>2, <2>3
  <2>6. <<child>> \o <<TheDone>> = <<child, TheDone>> /\ <<>> \o <<TheDone>> = <<TheDone>>
        /\ <<child, TheDone>> \o <<>> = <<child, TheDone>>
    BY ONLY JoinsOf
  <2>7. out' \o buffer'[1] = <<child, TheDone>>
    <3>1. CASE job.tty
      <4>1. out' = <<child>> \o <<TheDone>> /\ buffer' = buffer BY <2>1, <2>4, <2>5, <3>1 DEF Prints
      <4> QED BY <2>5, <2>6, <4>1
    <3>2. CASE ~job.tty
      <4>1. out' = <<child>> /\ buffer' = [buffer EXCEPT ![1] = <<>> \o <<TheDone>>]
        BY <2>1, <2>4, <2>5, <3>2 DEF Prints
      <4>2. buffer'[1] = <<TheDone>> BY <1>2, <2>6, <4>1
      <4> QED BY <2>6, <4>1, <4>2
    <3> QED BY <3>1, <3>2
  <2> QED BY <1>3, <2>2, <2>3, <2>7
<1> QED BY <1>7, <1>8, <1>9, <1>10, <1>11, <1>12, <1>13, Outputs

(* A process that ends was to end, or to write.                             *)
LEMMA Stopping ==
  ASSUME CInv, NEW o \in Procs, Step(o), NEW p \in Procs, Stops(p)
  PROVE  Call(p)[1] \in {"exit", "_exit", "die", "copy", "filter", "write"}
<1>1. Alone(o) \/ Births \/ Burials BY Kinds
<1>2. p = 1 \/ p \in Kids BY DEF Procs, Kids
<1>3. p = o
  <2>1. ~Stays(p) /\ ~Advances(p) /\ ~IsBorn(p) /\ ~IsReaped(p)
    BY DEF Stops, Stays, Advances, IsBorn, IsReaped
  <2> QED BY <1>1, <1>2, <2>1 DEF Alone, Births, Burials
<1> QED BY <1>3, StatusStep

(* A parent whose fork() fails is alone, and makes these calls.             *)
LEMMA ShortCalls ==
  ASSUME CInv, FInv, job.prog \in {"5_14", "5_25"}, job.fails # 0
  PROVE  /\ \A p \in Procs : life[p] # "none" => p = 1
         /\ job.prog = "5_14" => Call(1) = Exit("1")
         /\ job.prog = "5_25" =>
              step[1] \in 1 .. 3 /\ Call(1) = <<MakePipe(1), Put("header"), Exit("1")>>[step[1]]
<1>1. job.fails = 2 BY JobAssumption DEF CInv
<1>2. GiveUp = Exit("1") BY DEF GiveUp
<1>3. step[1] \in DOMAIN ParentScript /\ Call(1) = ParentScript[step[1]] BY ParentIs DEF Call
<1>4. CASE job.prog = "5_14"
  <2>1. FullScript = Parent14 BY <1>4 DEF FullScript
  <2>2. DOMAIN FullScript = 1 .. 3 /\ FullScript[1] = Fork(2)
        /\ \A n \in 1 .. 3 : FullScript[n][1] = "fork" => n = 1
    BY <2>1 DEF Parent14
  <2>3. ParentScript = [k \in 1 .. 1 |-> IF k = 1 THEN GiveUp ELSE FullScript[k]]
    BY <1>1, <2>2, Shortened DEF CInv
  <2>4. Call(1) = Exit("1") BY <1>2, <1>3, <2>3
  <2>5. \A j \in DOMAIN ParentScript : ~Forks(j) BY <1>2, <2>3 DEF Forks
  <2>6. \A q \in Kids : life[q] = "none" BY <2>5 DEF FInv
  <2> QED BY <1>4, <2>4, <2>6 DEF Procs, Kids
<1>5. CASE job.prog = "5_25"
  <2>1. FullScript = Parent25 BY <1>5 DEF FullScript
  <2>2. /\ DOMAIN FullScript = 1 .. 8
        /\ FullScript[1] = MakePipe(1) /\ FullScript[2] = Put("header")
        /\ FullScript[3] = Fork(2)
        /\ \A n \in 1 .. 8 : FullScript[n][1] = "fork" => n = 3
    BY <2>1 DEF Parent25
  <2>3. ParentScript = [k \in 1 .. 3 |-> IF k = 3 THEN GiveUp ELSE FullScript[k]]
    BY <1>1, <2>2, Shortened DEF CInv
  <2>4. step[1] \in 1 .. 3 BY <1>3, <2>3
  <2>5. \A k \in 1 .. 3 : ParentScript[k] = <<MakePipe(1), Put("header"), Exit("1")>>[k]
    BY <1>2, <2>2, <2>3
  <2>6. \A j \in DOMAIN ParentScript : ~Forks(j) BY <2>3, <2>5 DEF Forks
  <2>7. \A q \in Kids : life[q] = "none" BY <2>6 DEF FInv
  <2> QED BY <1>3, <1>5, <2>4, <2>5, <2>7 DEF Procs, Kids
<1> QED BY <1>4, <1>5

(* It prints its header, if it has one, and what waits goes out at its end. *)
LEMMA ShortStep ==
  ASSUME CInv, FInv, OInv, ShortInv, NEW o \in Procs, Step(o)
  PROVE  ShortInv'
<1>1. job' = job BY Shapes
<1> SUFFICES ASSUME job.fails # 0, job.prog \in {"5_14", "5_25"} PROVE ShortInv'
  BY <1>1 DEF ShortInv
<1> DEFINE k == step[1]
           header == Line("header")
<1>2. /\ out \in Seq(Entries) /\ buffer \in [Procs -> Seq(Entries)]
      /\ buffer[1] \in Seq(Entries) /\ 1 \in Procs
  BY DEF OInv, Procs
<1>3. o = 1 /\ life[1] = "run" BY Runner, ShortCalls
<1>4. /\ job.prog = "5_14" => Call(1) = Exit("1")
      /\ job.prog = "5_25" =>
           k \in 1 .. 3 /\ Call(1) = <<MakePipe(1), Put("header"), Exit("1")>>[k]
  BY ShortCalls
<1>5. /\ Call(1)[1] \in {"pipe", "put", "exit"}
      /\ Call(1)[1] = "exit" => (job.prog = "5_25" => k = 3)
      /\ Call(1)[1] # "exit" => job.prog = "5_25" /\ k < 3
      /\ Call(1)[1] = "put" => k = 2 /\ Call(1)[2] = "header"
      /\ Call(1)[1] = "pipe" => k = 1
  BY <1>4
<1>6. /\ job.prog = "5_14" => out = <<>> /\ buffer[1] = <<>>
      /\ job.prog = "5_25" =>
           /\ k < 3 => out = <<>> /\ buffer[1] = <<>>
           /\ k = 3 => out \o buffer[1] = <<header>>
  BY DEF ShortInv
<1> SUFFICES /\ job.prog = "5_14" => out' = <<>> /\ buffer'[1] = <<>>
             /\ job.prog = "5_25" =>
                  /\ step'[1] \in 1 .. 3 /\ (life'[1] # "run" => step'[1] = 3)
                  /\ step'[1] < 3 => out' = <<>> /\ buffer'[1] = <<>>
                  /\ step'[1] = 3 => out' \o buffer'[1] = <<header>>
  BY <1>1 DEF ShortInv, Line
<1>7. CASE Silent(1)
  <2>1. out' = out /\ buffer' = buffer /\ (Stays(1) \/ Advances(1)) /\ Call(1)[1] # "put"
    BY <1>7 DEF Silent
  <2>2. Stays(1) => step'[1] = k /\ life'[1] = "run" BY <1>3 DEF Stays
  <2>3. Advances(1) => Call(1)[1] # "exit" /\ step'[1] = k + 1 /\ life'[1] = "run"
    BY DEF Advances, EndingCalls
  <2> QED BY <1>4, <1>5, <1>6, <2>1, <2>2, <2>3
<1>8. ~Forgets(1)
  <2>1. Stops(1) => Call(1)[1] \in {"exit", "_exit", "die", "copy", "filter", "write"}
    BY <1>2, <1>3, Stopping
  <2>2. ~Becomes(1) BY <1>5 DEF Becomes
  <2> QED BY <1>5, <2>1, <2>2 DEF Forgets
<1>9. CASE Flushes(1)
  <2>1. /\ out' = out \o buffer[1] /\ buffer' = [buffer EXCEPT ![1] = <<>>]
        /\ Call(1)[1] = "exit" /\ step'[1] = k
    BY <1>9 DEF Flushes, Stops
  <2>2. buffer'[1] = <<>> BY <1>2, <2>1
  <2>3. <<>> \o <<>> = <<>> /\ <<header>> \o <<>> = <<header>> OBVIOUS
  <2> QED BY <1>4, <1>5, <1>6, <2>1, <2>2, <2>3
<1>10. ~Sends(1) BY <1>5 DEF Sends
<1>11. ASSUME NEW l, Says(1, l)
       PROVE  /\ job.prog = "5_25" /\ step'[1] = 3 /\ life'[1] = "run"
              /\ out' \o buffer'[1] = <<header>>
  <2>1. /\ Prints(1, <<l>>) /\ Advances(1) /\ Call(1)[1] \in {"put", "putfailure"}
        /\ Call(1)[1] = "put" /\ Call(1)[2] # "count" => l = Line(Call(1)[2])
    BY <1>11 DEF Says
  <2>2. job.prog = "5_25" /\ k = 2 /\ l = header BY <1>5, <2>1
  <2>3. step'[1] = 3 /\ life'[1] = "run" BY <2>1, <2>2 DEF Advances
  <2>4. out = <<>> /\ buffer[1] = <<>> BY <1>6, <2>2
  <2>5. <<>> \o <<l>> = <<l>> /\ <<l>> \o <<>> = <<l>> OBVIOUS
  <2>6. CASE job.tty
    <3>1. out' = <<>> \o <<l>> /\ buffer'[1] = <<>> BY <2>1, <2>4, <2>6 DEF Prints
    <3> QED BY <2>2, <2>3, <2>5, <3>1
  <2>7. CASE ~job.tty
    <3>1. out' = <<>> /\ buffer' = [buffer EXCEPT ![1] = <<>> \o <<l>>]
      BY <2>1, <2>4, <2>7 DEF Prints
    <3>2. buffer'[1] = <<l>> BY <1>2, <2>5, <3>1
    <3> QED BY <2>2, <2>3, <2>5, <3>1, <3>2
  <2> QED BY <2>6, <2>7
<1>12. \A q \in Kids : ~Copies(q) /\ ~Announces(q)
  BY <1>5 DEF Copies, Announces, IsBorn, IsReaped
<1>13. \/ Silent(1) \/ Forgets(1) \/ Flushes(1) \/ Sends(1)
       \/ \E l : Says(1, l)
       \/ \E q \in Kids : Copies(q) \/ Announces(q)
  BY <1>2, <1>3, Outputs
<1>14. (\E l : Says(1, l)) => job.prog = "5_25" /\ step'[1] = 3 /\ life'[1] = "run"
                               /\ out' \o buffer'[1] = <<header>>
  BY <1>11
<1> QED BY <1>7, <1>8, <1>9, <1>10, <1>12, <1>13, <1>14

(* 5_29.                                                                    *)
LEMMA Parent29Is ==
  ASSUME NEW k \in DOMAIN Parent29
  PROVE  /\ k \in 1 .. 14
         /\ Parent29[k][1] \notin {"put", "copy", "filter", "count", "_exit", "die", "exec", "wait"}
         /\ Parent29[k][1] \in {"write", "exit", "waitall", "putfailure"} => k > 4
<1>1. PICK s : s = Parent29 OBVIOUS
<1>2. s = <<MakePipe(1), MakePipe(2), Fork(2), Fork(3), Close("r1"), Close("r2"),
            Close("w2"), IgnorePipe, Write("w1", Numbers), Close("w1"),
            PutFailure, Close("w1"), WaitAll, Exit("0")>>
  BY <1>1 DEF Parent29
<1>3. DOMAIN s = 1 .. 14 BY <1>2
<1>4. k \in 1 .. 14 /\ k \in Int BY <1>1, <1>3
<1>5. CASE k <= 4 BY <1>1, <1>2, <1>4, <1>5
<1>6. CASE k > 4
  <2>1. k \in {5, 6, 7, 8, 9} \/ k \in {10, 11, 12, 13, 14} BY <1>4, <1>6
  <2>2. CASE k \in {5, 6, 7, 8, 9} BY <1>1, <1>2, <1>4, <1>6, <2>2
  <2>3. CASE k \in {10, 11, 12, 13, 14} BY <1>1, <1>2, <1>4, <1>6, <2>3
  <2> QED BY <2>1, <2>2, <2>3
<1> QED BY <1>4, <1>5, <1>6

(* The processes of 5_29: which calls they make, and where.                 *)
LEMMA Second29 ==
  ASSUME CInv, job.prog = "5_29"
  PROVE  Call(2)[1] \notin {"put", "filter", "count", "exit", "putfailure"}
<1>1. 2 \in Procs /\ step[2] \in DOMAIN Script(2) BY DEF CInv, Procs
<1>2. CASE image[2] # "main"
  <2>1. image[2] \in Images BY <1>1, <1>2 DEF CInv
  <2> QED BY <1>1, <1>2, <2>1, CommandScripts DEF Call, Script
<1>3. CASE image[2] = "main"
  <2>1. Script(2) = First29 BY <1>3 DEF Script, ChildScript, Child29
  <2>2. Call(2) = First29[step[2]] /\ step[2] \in DOMAIN First29 BY <1>1, <2>1 DEF Call
  <2> QED BY <2>2 DEF First29
<1> QED BY <1>2, <1>3

LEMMA Third29 ==
  ASSUME CInv, job.prog = "5_29", image[3] = "main"
  PROVE  /\ step[3] \in 1 .. 8
         /\ Call(3)[1] \in {"close", "dup2", "count", "put", "_exit"}
         /\ Call(3)[1] = "put" <=> step[3] = 7
         /\ Call(3)[1] = "put" => Call(3)[2] = "count"
         /\ Call(3)[1] = "count" <=> step[3] = 6
         /\ Call(3)[1] = "_exit" <=> step[3] = 8
<1>1. 3 \in Procs /\ step[3] \in DOMAIN Script(3) BY DEF CInv, Procs
<1>2. Script(3) = Child29(3) BY DEF Script, ChildScript
<1>3. PICK s : s = Child29(3) OBVIOUS
<1>4. s = <<Close("r1"), Close("w1"), Dup2("r2", "stdin"), Close("r2"), Close("w2"),
            Count("stdin"), Put("count"), ExitNow("0")>>
  BY <1>3 DEF Child29
<1>5. DOMAIN s = 1 .. 8 BY <1>4
<1>6. PICK k \in 1 .. 8 : k = step[3] /\ Call(3) = s[k] BY <1>1, <1>2, <1>3, <1>5 DEF Call
<1>7. k \in {1, 2, 3, 4, 5, 6, 7, 8} BY <1>6
<1> QED BY <1>4, <1>6, <1>7

LEMMA Call29 ==
  ASSUME CInv, job.prog = "5_29"
  PROVE  /\ step[1] \in 1 .. 14
         /\ Call(1)[1] \notin {"put", "copy", "filter", "count", "_exit", "die", "exec", "wait"}
         /\ Call(1)[1] \in {"write", "exit", "waitall", "putfailure"} /\ job.fails = 0 =>
              step[1] > 4
<1>1. FullScript = Parent29 BY DEF FullScript
<1>2. step[1] \in DOMAIN ParentScript /\ Call(1) = ParentScript[step[1]] BY ParentIs DEF Call
<1>3. CASE ParentScript = FullScript BY <1>1, <1>2, <1>3, Parent29Is
<1>4. ASSUME NEW n \in DOMAIN FullScript, job.fails # 0, FullScript[n][1] = "fork",
             ParentScript = [k \in 1 .. n |-> IF k = n THEN GiveUp ELSE FullScript[k]]
      PROVE  /\ step[1] \in 1 .. 14
             /\ Call(1)[1] \notin {"put", "copy", "filter", "count", "_exit", "die", "exec",
                                   "wait"}
  <2>1. n \in 1 .. 14 BY <1>1, <1>4, Parent29Is
  <2>2. step[1] \in 1 .. n BY <1>2, <1>4
  <2>3. step[1] \in 1 .. 14 BY <2>1, <2>2
  <2>4. CASE step[1] = n
    <3>1. Call(1) = GiveUp BY <1>2, <1>4, <2>2, <2>4
    <3>2. Call(1)[1] = "exit" BY <3>1, GivesUp
    <3> QED BY <2>3, <3>2
  <2>5. CASE step[1] # n
    <3>1. Call(1) = FullScript[step[1]] BY <1>2, <1>4, <2>2, <2>5
    <3>2. step[1] \in DOMAIN Parent29
      <4>1. Runs(FullScript) BY FullScripts DEF CInv
      <4>2. 1 .. n \subseteq DOMAIN FullScript BY <4>1 DEF Runs
      <4> QED BY <1>1, <2>2, <4>2
    <3> QED BY <1>1, <2>3, <3>1, <3>2, Parent29Is
  <2> QED BY <2>4, <2>5
<1> QED BY <1>3, <1>4, Shortened DEF CInv

LEMMA ThirdStep ==
  ASSUME CInv, FInv, CountInv, job.prog = "5_29", NEW o \in Procs, Step(o)
  PROVE  /\ image'[3] = "main"
         /\ life'[1] # "run" /\ job.fails = 0 => step'[1] > 4
         /\ life'[3] \in {"zombie", "gone"} => step'[3] = 8
<1>1. {1, 3} \subseteq Procs BY DEF Procs
<1>2. /\ image[3] = "main" /\ (life[1] # "run" /\ job.fails = 0 => step[1] > 4)
      /\ life[3] \in {"zombie", "gone"} => step[3] = 8
  BY DEF CountInv
<1>3. image'[3] = "main"
  <2>1. ~Becomes(3) BY <1>2, Third29 DEF Becomes
  <2> QED BY <1>1, <1>2, <2>1, Everyone DEF Stays, Advances, Stops, IsBorn, IsReaped
<1>4. life'[1] # "run" /\ job.fails = 0 => step'[1] > 4
  <2>1. Stops(1) /\ job.fails = 0 => step[1] > 4 BY <1>1, Stopping, Call29
  <2> QED BY <1>1, <1>2, <2>1, Everyone DEF Stays, Advances, Becomes, Stops
<1>5. life'[3] \in {"zombie", "gone"} => step'[3] = 8
  <2>1. Stops(3) => step[3] = 8 BY <1>1, <1>2, Stopping, Third29
  <2> QED BY <1>1, <1>2, <2>1, Everyone DEF Stays, Advances, Becomes, Stops, IsBorn, IsReaped
<1> QED BY <1>3, <1>4, <1>5

(* What is counted does not change once it is.                              *)
LEMMA CountedStep ==
  ASSUME CInv, job.prog = "5_29", image[3] = "main", NEW o \in Procs, Step(o), taken' # taken
  PROVE  o = 3 /\ step[3] = 6 /\ step'[3] = 6
<1>1. DoRead(o) BY TakenStep
<1>2. Call(o)[1] \in {"filter", "count"} BY <1>1 DEF DoRead, Reading, Calls
<1>3. o = 3 BY <1>2, Call29, Second29 DEF Procs
<1>4. step[3] = 6 BY <1>2, <1>3, Third29
<1>5. step' = step BY <1>1 DEF DoRead, control
<1> QED BY <1>3, <1>4, <1>5

(* The count is written by one step, from the place before the last.        *)
LEMMA CountOut ==
  ASSUME CInv, FInv, OInv, TtyInv, CountInv, job.prog = "5_29", NEW o \in Procs, Step(o)
  PROVE  Plainly \/ Counts
<1> DEFINE U == Uncounted
<1>1. /\ out \in Seq(Entries) /\ buffer \in [Procs -> Seq(Entries)]
      /\ {1, 2, 3} \subseteq Procs /\ \A p \in Procs : p \in {1, 2, 3}
      /\ Kids = {2, 3}
  BY DEF OInv, Procs, Kids
<1>2. <<>> \in Seq(U) /\ out \o <<>> = out
  <2>1. <<>> \in Seq(U) OBVIOUS
  <2> QED BY <1>1, <2>1
<1>3. buffer[1] \in Seq(U) /\ buffer[2] \in Seq(U)
  <2>1. CASE job.tty BY <1>1, <1>2, <2>1 DEF TtyInv
  <2>2. CASE ~job.tty BY <2>2 DEF CountInv
  <2> QED BY <2>1, <2>2
<1>4. image[3] = "main" BY DEF CountInv
<1>5. PICK k \in 1 .. 8 : k = step[3] BY <1>4, Third29
<1>6. Call(o)[1] = "exit" => o = 1 BY <1>1, <1>4, Second29, Third29
<1>7. Call(o)[1] = "put" => o = 3 /\ Call(o)[2] = "count" /\ k = 7
  BY <1>1, <1>4, <1>5, Call29, Second29, Third29
<1>8. Alone(o) /\ ~Advances(3) => step'[3] = step[3]
  <2>1. Call(3)[1] # "exec" BY <1>4, Third29
  <2> QED BY <1>1, <2>1 DEF Alone, Stays, Becomes, Stops
<1>9. Births \/ Burials => step'[3] = step[3]
  BY <1>1 DEF Births, Burials, IsBorn, IsReaped, Stays
<1> HIDE DEF U
<1>10. ASSUME NEW p \in Procs, NEW s \in Seq(U), Prints(p, s), step'[3] = 8 <=> step[3] = 8
       PROVE  Plainly
  <2>1. CASE job.tty BY <1>10, <2>1 DEF Prints, Plainly, U
  <2>2. CASE ~job.tty
    <3>1. buffer[1] \o s \in Seq(U) /\ buffer[2] \o s \in Seq(U) BY <1>3, <1>10
    <3>2. out' = out /\ buffer' = [buffer EXCEPT ![p] = buffer[p] \o s] BY <1>10, <2>2 DEF Prints
    <3>3. buffer'[1] \in Seq(U) /\ buffer'[2] \in Seq(U) BY <1>1, <1>3, <3>1, <3>2
    <3>4. out' = out \o <<>> BY <1>2, <3>2
    <3> QED BY <1>2, <1>10, <3>3, <3>4 DEF Plainly, U
  <2> QED BY <2>1, <2>2
<1>11. CASE Silent(o)
  <2>1. out' = out \o <<>> /\ buffer' = buffer BY <1>2, <1>11 DEF Silent
  <2>2. step'[3] = 8 <=> step[3] = 8
    <3>1. CASE o = 3
      <4>1. k # 7 BY <1>4, <1>5, <1>11, <3>1, Third29 DEF Silent
      <4>2. Advances(3) => k # 8 BY <1>4, <1>5, Third29 DEF Advances, EndingCalls
      <4>3. PICK j : j = step'[3] OBVIOUS
      <4>4. j = k \/ (j = k + 1 /\ k # 8)
        BY <1>5, <1>11, <3>1, <4>2, <4>3 DEF Silent, Stays, Advances
      <4> QED BY <1>5, <4>1, <4>3, <4>4
    <3>2. CASE o # 3 BY <1>1, <1>11, <3>2 DEF Silent, Alone, Stays
    <3> QED BY <3>1, <3>2
  <2> QED BY <1>2, <1>3, <2>1, <2>2 DEF Plainly, U
<1>12. CASE Forgets(o)
  <2>1. out' = out \o <<>> /\ buffer' = [buffer EXCEPT ![o] = <<>>] BY <1>2, <1>12 DEF Forgets
  <2>2. buffer'[1] \in Seq(U) /\ buffer'[2] \in Seq(U) BY <1>1, <1>2, <1>3, <2>1
  <2>3. ~Advances(3)
    <3>1. life'[3] = "run" /\ step'[3] = step[3] + 1 => step'[3] # step[3] BY <1>5
    <3>2. CASE o = 3
      <4>1. Call(3)[1] # "exec" BY <1>4, Third29
      <4> QED BY <1>12, <3>2, <4>1 DEF Forgets, Becomes, Stops, Advances
    <3>3. CASE o # 3 BY <1>1, <1>12, <3>1, <3>3 DEF Forgets, Alone, Stays, Advances
    <3> QED BY <3>2, <3>3
  <2>4. step'[3] = step[3] BY <1>8, <1>12, <2>3 DEF Forgets
  <2> QED BY <1>2, <2>1, <2>2, <2>4 DEF Plainly, U
<1>13. CASE Flushes(o)
  <2>1. o = 1 BY <1>6, <1>13 DEF Flushes
  <2>2. out' = out \o buffer[1] /\ buffer' = [buffer EXCEPT ![1] = <<>>]
    BY <1>13, <2>1 DEF Flushes
  <2>3. buffer'[1] \in Seq(U) /\ buffer'[2] \in Seq(U) BY <1>1, <1>2, <1>3, <2>2
  <2>4. step'[3] = step[3] BY <1>1, <1>13, <2>1 DEF Flushes, Alone, Stays
  <2> QED BY <1>3, <2>2, <2>3, <2>4 DEF Plainly, U
<1>14. CASE Sends(o)
  <2>1. PICK l : l = Report("block", o, NoStatus) OBVIOUS
  <2>2. l \in Uncounted BY <2>1 DEF Report, Entries, Texts, Codes, Procs, Uncounted
  <2>3. <<l>> \in Seq(U) BY <2>2 DEF U
  <2>4. out' = out \o <<l>> /\ buffer' = buffer BY <1>1, <1>14, <2>1 DEF Sends
  <2>5. o # 3 BY <1>4, <1>14, Third29 DEF Sends
  <2>6. step'[3] = step[3] BY <1>1, <1>14, <2>5 DEF Sends, Alone, Stays
  <2> QED BY <1>3, <2>3, <2>4, <2>6 DEF Plainly, U
<1>15. ASSUME NEW l, Says(o, l) PROVE Plainly \/ Counts
  <2>1. Prints(o, <<l>>) /\ Alone(o) /\ Advances(o) BY <1>15 DEF Says
  <2>2. CASE Call(o)[1] = "put"
    <3>1. o = 3 /\ k = 7 /\ Call(o)[2] = "count" BY <1>7, <2>2
    <3>2. l = Report("count", taken, NoStatus) BY <1>15, <2>2, <3>1 DEF Says
    <3>3. step'[3] = 8 BY <1>5, <2>1, <3>1 DEF Advances
    <3>4. CASE job.tty
      <4>1. out' = out \o <<l>> BY <2>1, <3>4 DEF Prints
      <4> QED BY <1>5, <3>1, <3>2, <3>3, <3>4, <4>1 DEF Counts
    <3>5. CASE ~job.tty
      <4>1. out' = out /\ buffer' = [buffer EXCEPT ![3] = buffer[3] \o <<l>>]
        BY <2>1, <3>1, <3>5 DEF Prints
      <4>2. buffer'[1] \in Seq(U) /\ buffer'[2] \in Seq(U) BY <1>1, <1>3, <4>1
      <4> QED BY <1>5, <3>1, <3>3, <3>5, <4>1, <4>2 DEF Counts, U
    <3> QED BY <3>4, <3>5
  <2>3. CASE Call(o)[1] # "put"
    <3>1. Call(o)[1] = "putfailure" /\ l = Line("failure") BY <1>15, <2>3 DEF Says
    <3>2. o # 3 BY <1>4, <3>1, Third29
    <3>3. step'[3] = step[3] BY <1>1, <2>1, <3>2 DEF Alone, Stays
    <3>4. l \in Uncounted BY <3>1 DEF Line, Entries, Texts, Codes, Uncounted
    <3>5. <<l>> \in Seq(U) BY <3>4 DEF U
    <3> QED BY <1>10, <2>1, <3>3, <3>5
  <2> QED BY <2>2, <2>3
<1>16. ASSUME NEW q \in Kids, Copies(q) PROVE Plainly
  <2>1. out' = out \o <<>> /\ buffer' = [buffer EXCEPT ![q] = buffer[1]]
    BY <1>2, <1>16 DEF Copies
  <2>2. buffer'[1] \in Seq(U) /\ buffer'[2] \in Seq(U) BY <1>1, <1>3, <2>1
  <2>3. step'[3] = step[3] BY <1>9, <1>16 DEF Copies
  <2> QED BY <1>2, <2>1, <2>2, <2>3 DEF Plainly, U
<1>17. ASSUME NEW q \in Kids, Announces(q) PROVE Plainly
  <2>1. Prints(1, Reports(q, status[q])) /\ step'[3] = step[3] BY <1>9, <1>17 DEF Announces
  <2>2. status[q] \in Codes BY <1>1 DEF FInv, Kids
  <2>3. \/ Reports(q, status[q]) = <<>>
        \/ \E l \in Entries : Reports(q, status[q]) = <<l>> /\ l.line \in Tell
    BY <2>2, ReportsWhat DEF CInv
  <2>4. \A l \in Entries : l.line \in Tell => l \in Uncounted BY DEF Uncounted, Tell
  <2>5. \A l \in U : <<l>> \in Seq(U) OBVIOUS
  <2>6. Reports(q, status[q]) \in Seq(U) BY <1>2, <2>3, <2>4, <2>5 DEF U
  <2> QED BY <1>1, <1>10, <2>1, <2>6
<1> QED BY <1>11, <1>12, <1>13, <1>14, <1>15, <1>16, <1>17, Outputs

(* Before that step there is no count, and after it one.                    *)
LEMMA CountStep ==
  ASSUME CInv, FInv, OInv, TtyInv, CountInv, NEW o \in Procs, Step(o)
  PROVE  CountInv'
<1>1. job' = job BY Shapes
<1> SUFFICES ASSUME job.prog = "5_29" PROVE CountInv' BY <1>1 DEF CountInv
<1>2. /\ image'[3] = "main"
      /\ life'[1] # "run" /\ job.fails = 0 => step'[1] > 4
      /\ life'[3] \in {"zombie", "gone"} => step'[3] = 8
  BY ThirdStep
<1>3. Uncounted' = Uncounted /\ CountLines' = CountLines
  BY DEF Uncounted, CountLines, Entries
<1>4. out \in Seq(Entries) BY DEF OInv
<1>5. image[3] = "main" BY DEF CountInv
<1> SUFFICES /\ ~job.tty => out' \in Seq(Uncounted) /\ buffer'[1] \in Seq(Uncounted)
                            /\ buffer'[2] \in Seq(Uncounted)
             /\ job.tty => HowMany(out', CountLines) = IF step'[3] = 8 THEN 1 ELSE 0
             /\ job.tty /\ step'[3] = 8 =>
                  \E i \in DOMAIN out' : out'[i] = Report("count", taken', NoStatus)
  BY <1>1, <1>2, <1>3 DEF CountInv, Report
<1>6. CASE Plainly
  <2>1. PICK s \in Seq(Uncounted) : out' = out \o s BY <1>6 DEF Plainly
  <2>2. step'[3] = 8 <=> step[3] = 8 BY <1>6 DEF Plainly
  <2>3. Uncounted \subseteq Entries BY DEF Uncounted
  <2>4. s \in Seq(Entries) BY <2>3, SeqMore
  <2>5. HowMany(s, CountLines) = 0
    <3>1. \A i \in DOMAIN s : s[i] \in Uncounted OBVIOUS
    <3>2. \A i \in DOMAIN s : s[i] \notin CountLines BY <3>1 DEF Uncounted, CountLines
    <3> QED BY <3>2, HowManyZero
  <2>6. HowMany(out \o s, CountLines) = HowMany(out, CountLines) + HowMany(s, CountLines)
    BY <1>4, <2>4, HowManyMore
  <2>7. HowMany(out, CountLines) \in Nat BY <1>4, PlacesFinite
  <2>8. HowMany(out', CountLines) = HowMany(out, CountLines) BY <2>1, <2>5, <2>6, <2>7
  <2>9. CASE ~job.tty
    <3>1. out \in Seq(Uncounted) BY <2>9 DEF CountInv
    <3>2. out \o s \in Seq(Uncounted) BY <3>1
    <3> QED BY <1>6, <2>1, <2>9, <3>2 DEF Plainly
  <2>10. CASE job.tty
    <3>1. HowMany(out', CountLines) = IF step'[3] = 8 THEN 1 ELSE 0
      BY <2>2, <2>8, <2>10 DEF CountInv
    <3>2. ASSUME step'[3] = 8
          PROVE  \E i \in DOMAIN out' : out'[i] = Report("count", taken', NoStatus)
      <4>1. PICK i \in DOMAIN out : out[i] = Report("count", taken, NoStatus)
        BY <2>2, <2>10, <3>2 DEF CountInv
      <4>2. taken' = taken
        <5>1. step[3] # 6 BY <2>2, <3>2
        <5> QED BY <1>5, <5>1, CountedStep
      <4>3. i \in DOMAIN (out \o s) /\ (out \o s)[i] = out[i] BY <1>4, <2>4
      <4> QED BY <2>1, <4>1, <4>2, <4>3
    <3> QED BY <2>10, <3>1, <3>2
  <2> QED BY <2>9, <2>10
<1>7. CASE Counts
  <2>1. step[3] = 7 /\ step'[3] = 8 BY <1>7 DEF Counts
  <2>2. PICK l : l = Report("count", taken, NoStatus) OBVIOUS
  <2>3. taken \in Nat BY DEF OInv
  <2>4. l \in Entries /\ l \in CountLines
    BY <2>2, <2>3 DEF Report, Entries, Texts, Codes, CountLines
  <2>5. CASE ~job.tty BY <1>7, <2>5 DEF Counts, CountInv
  <2>6. CASE job.tty
    <3>1. out' = out \o <<l>> /\ <<l>> \in Seq(Entries) BY <1>7, <2>2, <2>4, <2>6 DEF Counts
    <3>2. HowMany(out \o <<l>>, CountLines) = HowMany(out, CountLines) + HowMany(<<l>>, CountLines)
      BY <1>4, <3>1, HowManyMore
    <3>3. HowMany(<<l>>, CountLines) = 1 BY <2>4, HowManyOne
    <3>4. HowMany(out, CountLines) = 0 BY <2>1, <2>6 DEF CountInv
    <3>5. HowMany(out', CountLines) = 1 BY <3>1, <3>2, <3>3, <3>4
    <3>6. taken' = taken
      <4>1. step[3] # 6 BY <2>1
      <4> QED BY <1>5, <4>1, CountedStep
    <3>7. \E i \in DOMAIN out' : out'[i] = l
      <4>1. PICK n \in Nat : n = Len(out) BY <1>4
      <4>2. n + 1 \in DOMAIN (out \o <<l>>) /\ (out \o <<l>>)[n + 1] = l BY <1>4, <3>1, <4>1
      <4> QED BY <3>1, <4>2
    <3> QED BY <2>1, <2>2, <2>6, <3>5, <3>6, <3>7
  <2> QED BY <2>5, <2>6
<1> QED BY <1>6, <1>7, CountOut

-----------------------------------------------------------------------------
(* The lines written once.                                                  *)

LEMMA LineInit == Init => LineInv
<1> SUFFICES ASSUME Init PROVE LineInv OBVIOUS
<1>1. /\ \A p \in Procs : step[p] = 1 /\ image[p] = "main" /\ buffer[p] = <<>>
      /\ \A p \in Procs : life[p] = IF p = 1 THEN "run" ELSE "none"
      /\ out = <<>> /\ {1, 2, 3} \subseteq Procs
  BY DEF Init, Procs
<1>2. \A L : HowMany(<<>>, L) = 0 BY HowManyNone
<1>3. TtyInv BY <1>1 DEF TtyInv
<1>4. HeadInv
  <2>1. Heads = 0 BY <1>1, <1>2 DEF Heads
  <2> QED BY <1>1, <2>1 DEF HeadInv
<1>5. OrderInv BY <1>1 DEF OrderInv
<1>6. CountInv
  <2>1. HowMany(out, CountLines) = 0 BY <1>1, <1>2
  <2>2. <<>> \in Seq(Uncounted) OBVIOUS
  <2>3. out \in Seq(Uncounted) /\ buffer[1] \in Seq(Uncounted) /\ buffer[2] \in Seq(Uncounted)
    BY <1>1, <2>2
  <2>4. step[3] = 1 /\ image[3] = "main" /\ life[1] = "run" /\ life[3] = "none" BY <1>1
  <2>5. step[3] # 8 BY <2>4
  <2> QED BY <2>1, <2>3, <2>4, <2>5, Zenon DEF CountInv
<1>7. ShortInv BY <1>1 DEF ShortInv
<1> QED BY <1>3, <1>4, <1>5, <1>6, <1>7 DEF LineInv

(* No counting child is born when a fork() of 5_29 fails.                   *)
LEMMA NoThird29 ==
  ASSUME CInv, FInv, job.prog = "5_29", job.fails # 0 PROVE life[3] = "none"
<1>1. FullScript = Parent29 /\ job.fails \in {2, 3} BY JobAssumption DEF FullScript, CInv
<1>2. /\ DOMAIN FullScript = 1 .. 14
      /\ FullScript[3] = Fork(2) /\ FullScript[4] = Fork(3)
      /\ \A n \in 1 .. 14 : FullScript[n][1] = "fork" => n \in {3, 4}
  BY <1>1 DEF Parent29
<1>3. PICK n \in {3, 4} :
        ParentScript = [k \in 1 .. n |-> IF k = n THEN GiveUp ELSE FullScript[k]]
  BY <1>1, <1>2, Shortened DEF CInv
<1>4. \A j \in DOMAIN ParentScript : Forks(j) => ParentScript[j][2] = 2
  <2> SUFFICES ASSUME NEW j \in 1 .. n, ParentScript[j][1] = "fork"
               PROVE  ParentScript[j][2] = 2
    BY <1>3 DEF Forks
  <2>1. j # n
    <3>1. GiveUp[1] = "exit" BY GivesUp
    <3> QED BY <1>3, <3>1
  <2>2. ParentScript[j] = FullScript[j] BY <1>3, <2>1
  <2>3. j \in 1 .. 14 /\ j < 4 BY <1>3, <2>1
  <2>4. j = 3 BY <1>2, <2>2, <2>3
  <2> QED BY <1>2, <2>2, <2>4
<1>5. 3 \in Kids BY DEF Kids
<1> QED BY <1>4, <1>5 DEF FInv

(* Together.                                                                *)
LEMMA LineStep == ASSUME Known, LineInv, [Next]_vars PROVE LineInv'
<1>1. CASE UNCHANGED vars
  <2>1. Entries' = Entries BY DEF Entries
  <2> QED
    BY <1>1, <2>1 DEF LineInv, vars, TtyInv, HeadInv, Heads, Headers, OrderInv, ShortInv, CountInv,
       Uncounted, CountLines
<1>2. ASSUME NEW o \in Procs, Step(o) PROVE LineInv'
  <2>1. job' = job BY <1>2, Shapes DEF Known
  <2>2. TtyInv' /\ CountInv' BY <1>2, TtyStep, CountStep DEF Known, LineInv
  <2>3. job.prog \in {"5_14", "5_25"} /\ job.fails = 0 => Smooth BY DEF Smooth, AllCopy
  <2>4. HeadInv'
    <3>1. CASE job.prog = "5_25" /\ job.fails = 0 BY <1>2, <2>3, <3>1, HeadStep DEF Known, LineInv
    <3>2. CASE ~(job.prog = "5_25" /\ job.fails = 0) BY <2>1, <3>2 DEF HeadInv
    <3> QED BY <3>1, <3>2
  <2>5. OrderInv'
    <3>1. CASE job.prog = "5_14" /\ job.fails = 0 BY <1>2, <2>3, <3>1, OrderStep DEF Known, LineInv
    <3>2. CASE ~(job.prog = "5_14" /\ job.fails = 0) BY <2>1, <3>2 DEF OrderInv
    <3> QED BY <3>1, <3>2
  <2>6. ShortInv' BY <1>2, ShortStep DEF Known, LineInv
  <2> QED BY <2>2, <2>4, <2>5, <2>6 DEF LineInv
<1> QED BY <1>1, <1>2 DEF Next

(* The lines with one text.                                                 *)
LEMMA LinesCount ==
  ASSUME OInv, NEW t PROVE OutLines(t) = HowMany(out, {l \in Entries : l.line = t})
<1>1. \A i \in DOMAIN out : out[i] \in Entries BY DEF OInv
<1>2. {i \in DOMAIN out : out[i].line = t} = Places(out, {l \in Entries : l.line = t})
  BY <1>1 DEF Places
<1> QED BY <1>2 DEF OutLines, HowMany

(* For all jobs and sizes: the header of 5_25 is printed once to a terminal *)
(* and twice otherwise, 5_14's child writes before its parent, and the count*)
(* of 5_29 is lost unless standard output is a terminal.  When fork() fails *)
(* there is one header, nothing of 5_14, and no count.                      *)
THEOREM LinesCorrect == Spec => []LinesOnce
<1>1. ASSUME Known, LineInv PROVE LinesOnce
  <2> USE <1>1
  <2> SUFFICES ASSUME Finished PROVE LinesOnce BY DEF LinesOnce
  <2>1. CInv /\ FInv /\ OInv /\ TtyInv /\ HeadInv /\ OrderInv /\ ShortInv /\ CountInv
    BY DEF Known, LineInv
  <2>2. /\ \A p \in Procs : life[p] # "run" /\ buffer[p] = <<>>
        /\ out \in Seq(Entries) /\ {1, 2, 3} \subseteq Procs /\ {2, 3} \subseteq Kids
        /\ life[1] = "zombie"
    BY <2>1 DEF Finished, OInv, CInv, Procs, Kids
  <2>3. job.prog \in {"5_14", "5_25"} /\ job.fails = 0 => Smooth /\ HInv
    <3>1. job.prog \in {"5_14", "5_25"} /\ job.fails = 0 => Smooth BY DEF Smooth, AllCopy
    <3> QED BY <3>1 DEF Known
  <2>4. ASSUME job.prog = "5_25", job.fails = 0
        PROVE  /\ OutLines("header") = IF job.tty THEN 1 ELSE 2
               /\ job.tty => out[1] = Line("header")
    <3>1. step[1] = 8
      <4>1. Place(1) = Len(Course(1)) /\ 1 \in Crew BY <2>1, <2>3, <2>4, AllDone, CrewAre
      <4>2. Course(1) = Parent25 BY <2>4 DEF Course, FullScript
      <4>3. Len(Parent25) = 8 BY DEF Parent25
      <4> QED BY <2>1, <4>1, <4>2, <4>3 DEF Place, CInv
    <3>2. Heads = IF job.tty THEN 1 ELSE 2 BY <2>1, <2>4, <3>1 DEF HeadInv
    <3>3. Heads = HowMany(out, Headers)
      <4>1. HowMany(<<>>, Headers) = 0 /\ HowMany(out, Headers) \in Nat
        BY <2>2, HowManyNone, PlacesFinite
      <4>2. buffer[1] = <<>> /\ buffer[2] = <<>> BY <2>2
      <4> QED BY <4>1, <4>2 DEF Heads
    <3>4. OutLines("header") = HowMany(out, Headers) BY <2>1, LinesCount DEF Headers
    <3>5. job.tty => out[1] = Line("header") BY <2>1, <2>4, <3>1 DEF HeadInv
    <3> QED BY <3>2, <3>3, <3>4, <3>5
  <2>5. ASSUME job.prog = "5_14", job.fails = 0
        PROVE  \E i, j \in DOMAIN out : i < j /\ Len(out) = 2
                 /\ out[i] = Line("child") /\ out[j].line = "done"
    <3>1. Place(1) = Len(Course(1)) /\ 1 \in Crew BY <2>1, <2>3, <2>5, AllDone, CrewAre
    <3>2. Course(1) = Parent14 BY <2>5 DEF Course, FullScript
    <3>3. Len(Parent14) = 3 /\ Parent14[3] = Exit("0") BY DEF Parent14
    <3>4. step[1] = 3 BY <2>1, <3>1, <3>2, <3>3 DEF Place, CInv
    <3>5. ParentScript = Parent14 BY <2>5, ParentWhole DEF FullScript
    <3>6. Call(1) = Exit("0") BY <2>1, <3>3, <3>4, <3>5, ParentIs DEF Call
    <3>7. life[2] = "gone" BY <2>1, <2>3, <2>5, <3>6, Calls14
    <3>8. out \o buffer[1] = <<Line("child"), TheDone>> BY <2>1, <2>5, <3>7 DEF OrderInv
    <3>9. out \o <<>> = out BY <2>2
    <3>10. out = <<Line("child"), TheDone>> BY <2>2, <3>8, <3>9
    <3>11. TheDone.line = "done" BY DEF TheDone, Report
    <3>12. 1 \in DOMAIN out /\ 2 \in DOMAIN out /\ Len(out) = 2 /\ out[1] = Line("child")
           /\ out[2] = TheDone /\ 1 < 2
      BY <3>10
    <3> QED BY <3>11, <3>12
  <2>6. ASSUME job.prog = "5_29"
        PROVE  /\ OutLines("count") = IF job.tty /\ job.fails = 0 THEN 1 ELSE 0
               /\ job.tty /\ job.fails = 0 =>
                     \E i \in DOMAIN out : out[i] = Report("count", taken, NoStatus)
    <3>1. ASSUME job.fails = 0 PROVE step[3] = 8
      <4>1. life[3] # "none"
        <5>1. ParentScript = Parent29 BY <2>6, <3>1, ParentWhole DEF FullScript
        <5>2. 4 \in DOMAIN Parent29 /\ Parent29[4] = Fork(3) BY DEF Parent29
        <5>3. step[1] > 4 /\ step[1] \in Nat BY <2>1, <2>2, <2>6, <3>1 DEF CountInv, CInv
        <5>4. Forks(4) /\ ParentScript[4][2] = 3 BY <5>1, <5>2 DEF Forks
        <5>5. life[3] = "none" <=> step[1] <= 4 BY <2>1, <5>1, <5>2, <5>4 DEF FInv
        <5> QED BY <5>3, <5>5
      <4>2. life[3] \in Lives /\ life[3] # "run" BY <2>1, <2>2 DEF CInv
      <4>3. life[3] \in {"zombie", "gone"} BY <4>1, <4>2 DEF Lives
      <4> QED BY <2>1, <2>6, <4>3 DEF CountInv
    <3>2. OutLines("count") = HowMany(out, CountLines) BY <2>1, LinesCount DEF CountLines
    <3>3. CASE job.tty /\ job.fails = 0 BY <2>1, <2>6, <3>1, <3>2, <3>3 DEF CountInv
    <3>4. CASE ~job.tty
      <4>1. out \in Seq(Uncounted) BY <2>1, <2>6, <3>4 DEF CountInv
      <4>2. \A i \in DOMAIN out : out[i] \in Uncounted BY <4>1
      <4>3. \A i \in DOMAIN out : out[i] \notin CountLines BY <4>2 DEF Uncounted, CountLines
      <4>4. HowMany(out, CountLines) = 0 BY <4>1, <4>3, HowManyZero
      <4> QED BY <3>2, <3>4, <4>4
    <3>5. CASE job.tty /\ job.fails # 0
      <4>1. life[3] = "none" BY <2>1, <2>6, <3>5, NoThird29
      <4>2. step[3] = 1 BY <2>1, <4>1 DEF CInv, Kids
      <4> QED BY <2>1, <2>6, <3>2, <3>5, <4>2 DEF CountInv
    <3> QED BY <3>3, <3>4, <3>5
  <2>7. ASSUME job.prog = "5_25", job.fails # 0
        PROVE  OutLines("header") = 1 /\ out[1] = Line("header") /\ job.fails = 2
    <3>1. job.fails = 2 BY <2>1, <2>7, JobAssumption DEF CInv
    <3>2. out \o buffer[1] = <<Line("header")>> BY <2>1, <2>2, <2>7 DEF ShortInv
    <3>3. out \o <<>> = out BY <2>2
    <3>4. out = <<Line("header")>> BY <2>2, <3>2, <3>3
    <3>5. OutLines("header") = HowMany(out, Headers) BY <2>1, LinesCount DEF Headers
    <3>6. Line("header") \in Headers BY DEF Line, Headers, Entries, Texts, Codes
    <3>7. HowMany(<<Line("header")>>, Headers) = 1 BY <3>6, HowManyOne
    <3> QED BY <3>1, <3>4, <3>5, <3>7
  <2>8. ASSUME job.prog = "5_14", job.fails # 0 PROVE out = <<>> /\ job.fails = 2
    <3>1. job.fails = 2 BY <2>1, <2>8, JobAssumption DEF CInv
    <3> QED BY <2>1, <2>8, <3>1 DEF ShortInv
  <2>9. job.prog = "5_25" =>
          /\ OutLines("header") = IF job.tty \/ job.fails = 2 THEN 1 ELSE 2
          /\ job.tty => out[1] = Line("header")
    <3>1. CASE job.fails = 0 BY <2>4, <3>1
    <3>2. CASE job.fails # 0 BY <2>7, <3>2
    <3> QED BY <3>1, <3>2
  <2>10. job.prog = "5_14" =>
           IF job.fails = 2 THEN out = <<>>
           ELSE \E i, j \in DOMAIN out : i < j /\ Len(out) = 2
                  /\ out[i] = Line("child") /\ out[j].line = "done"
    <3>1. CASE job.fails = 0 BY <2>5, <3>1
    <3>2. CASE job.fails # 0 BY <2>8, <3>2
    <3> QED BY <3>1, <3>2
  <2> QED BY <2>6, <2>9, <2>10 DEF LinesOnce
<1>2. Init => Known /\ LineInv BY KnownInit, LineInit
<1>3. Known /\ LineInv /\ [Next]_vars => Known' /\ LineInv' BY KnownStep, LineStep
<1> QED BY <1>1, <1>2, <1>3, PTL DEF Spec
=============================================================================
