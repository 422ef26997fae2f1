------------------------------ MODULE FifoChat ------------------------------
(***************************************************************************)
(* c/networks/6_11.c: a chat of two processes over two FIFOs.  Side p      *)
(* reads the FIFO p (its argv[1]) and writes the FIFO Other(p) (argv[2]).  *)
(* A side may leave (end of input, SIGPIPE, a read error, a signal) and be *)
(* started again while the other one still runs.                           *)
(*                                                                         *)
(* The kernel's part is Linux's fs/pipe.c: opening for writing waits until *)
(* a reader has come, a read end reports hang-up only once a writer has    *)
(* come and gone, a write of at most PIPE_BUF bytes is all or nothing, and *)
(* what a FIFO holds is dropped when nobody has it open.                   *)
(***************************************************************************)
EXTENDS Integers, Sequences, FiniteSets

CONSTANTS
  BufSize,    (* BUFSIZE, counted in typed lines                           *)
  PipeSize,   (* how many lines a FIFO holds                               *)
  MaxRuns,    (* bound: how many times each side is started                *)
  MaxTyped    (* bound: how many lines each user types                     *)

Sides == {"A", "B"}
FifoFd == 3   (* the first descriptor after the standard ones *)
Other(p) == IF p = "A" THEN "B" ELSE "A"

ASSUME BufAssumption == BufSize \in Nat \ {0} /\ PipeSize \in Nat /\ PipeSize >= BufSize
ASSUME BoundsAssumption == MaxRuns \in [Sides -> Nat] /\ MaxTyped \in Nat

VARIABLES
  pc,         (* where each side is; "off" when it does not run            *)
  run,        (* how many times the side has been started                  *)
  maxfd,      (* the variable max_fd: 0, or the number of fifo_read        *)
  bits,       (* the bits of readfds that main has still to look at        *)
  buffer,     (* what was read from stdin and is being written             *)
  typed,      (* how many lines the user has typed                         *)
  stdin,      (* the lines typed and not read                              *)
  eof,        (* the user has closed the input                             *)
  fifo,       (* what FIFO p holds                                         *)
  came,       (* a writer has opened FIFO p since its reader did           *)
  met,        (* a reader has opened the FIFO since p began to open it     *)
  why,        (* history: how the side's last run ended                    *)
  wrote,      (* history: what p wrote                                     *)
  printed     (* history: what p printed                                   *)

user == <<typed, stdin, eof>>
kernel == <<fifo, came, met>>
hist == <<why, wrote, printed>>
vars == <<pc, run, maxfd, bits, buffer, user, kernel, hist>>

(* A typed line, the run of the side that wrote it and that of its reader. *)
Lines == [n : 1 .. MaxTyped, by : Nat \ {0}, to : Nat \ {0}]

Ends == {"eof", "left", "again", "sigpipe", "killed"}

TypeOK ==
  /\ pc \in [Sides -> {"off", "start", "reading", "joining", "select", "serve", "write"}]
  /\ run \in [Sides -> Nat]
  /\ maxfd \in [Sides -> {0, FifoFd}]
  /\ bits \in [Sides -> SUBSET {"stdin", "fifo"}]
  /\ buffer \in [Sides -> Seq(1 .. MaxTyped)]
  /\ typed \in [Sides -> 0 .. MaxTyped]
  /\ stdin \in [Sides -> Seq(1 .. MaxTyped)]
  /\ eof \in [Sides -> BOOLEAN]
  /\ fifo \in [Sides -> Seq(Lines)]
  /\ came \in [Sides -> BOOLEAN]
  /\ met \in [Sides -> BOOLEAN]
  /\ why \in [Sides -> Ends \union {"none"}]
  /\ wrote \in [Sides -> Seq(Lines)]
  /\ printed \in [Sides -> Seq(Lines)]
  /\ \A p \in Sides : Len(fifo[p]) <= PipeSize /\ Len(buffer[p]) <= BufSize

Init ==
  /\ pc = [p \in Sides |-> "off"]
  /\ run = [p \in Sides |-> 0]
  /\ maxfd = [p \in Sides |-> 0]
  /\ bits = [p \in Sides |-> {}]
  /\ buffer = [p \in Sides |-> <<>>]
  /\ typed = [p \in Sides |-> 0]
  /\ stdin = [p \in Sides |-> <<>>]
  /\ eof = [p \in Sides |-> FALSE]
  /\ fifo = [p \in Sides |-> <<>>]
  /\ came = [p \in Sides |-> FALSE]
  /\ met = [p \in Sides |-> FALSE]
  /\ why = [p \in Sides |-> "none"]
  /\ wrote = [p \in Sides |-> <<>>]
  /\ printed = [p \in Sides |-> <<>>]

-----------------------------------------------------------------------------
(* The users *)

Type(p) ==
  /\ pc[p] # "off" /\ ~eof[p]
  /\ typed[p] < MaxTyped
  /\ typed' = [typed EXCEPT ![p] = @ + 1]
  /\ stdin' = [stdin EXCEPT ![p] = Append(@, typed'[p])]
  /\ UNCHANGED <<pc, run, maxfd, bits, buffer, eof, kernel, hist>>

(* Ctrl-D *)
CloseInput(p) ==
  /\ pc[p] # "off" /\ ~eof[p]
  /\ eof' = [eof EXCEPT ![p] = TRUE]
  /\ UNCHANGED <<pc, run, maxfd, bits, buffer, typed, stdin, kernel, hist>>

Start(p) ==
  /\ pc[p] = "off" /\ run[p] < MaxRuns[p]
  /\ pc' = [pc EXCEPT ![p] = "start"]
  /\ run' = [run EXCEPT ![p] = @ + 1]
  /\ eof' = [eof EXCEPT ![p] = FALSE]
  /\ why' = [why EXCEPT ![p] = "none"]
  /\ maxfd' = [maxfd EXCEPT ![p] = 0]
  /\ UNCHANGED <<bits, buffer, typed, stdin, kernel, wrote, printed>>

-----------------------------------------------------------------------------
(* Opening the FIFOs *)

(* p has FIFO p open for reading; p counts as a writer of FIFO Other(p),    *)
(* which it does from the moment open(O_WRONLY) begins to wait.             *)
IsReader(p) == pc[p] \in {"reading", "joining", "select", "serve", "write"}
IsWriter(p) == pc[p] \in {"joining", "select", "serve", "write"}

(* open(argv[1], O_RDONLY | O_NONBLOCK) never waits; the variant lacks      *)
(* O_NONBLOCK.                                                              *)
MutOpenRead(p) ==
  /\ pc[p] = "start"
  /\ IsWriter(Other(p))
  /\ pc' = [pc EXCEPT ![p] = "reading"]
  /\ came' = [came EXCEPT ![p] = TRUE]
  /\ met' = [met EXCEPT ![Other(p)] = TRUE]
  /\ maxfd' = [maxfd EXCEPT ![p] = FifoFd]
  /\ UNCHANGED <<run, bits, buffer, user, fifo, hist>>
OpenRead(p) ==
  /\ pc[p] = "start"
  /\ pc' = [pc EXCEPT ![p] = "reading"]
  /\ came' = [came EXCEPT ![p] = IsWriter(Other(p))]
  /\ met' = [met EXCEPT ![Other(p)] = TRUE]
  /\ maxfd' = [maxfd EXCEPT ![p] = FifoFd]
  /\ UNCHANGED <<run, bits, buffer, user, fifo, hist>>

(* open(argv[2], O_WRONLY) begins, *)
OpenWrite(p) ==
  /\ pc[p] = "reading"
  /\ pc' = [pc EXCEPT ![p] = "joining"]
  /\ met' = [met EXCEPT ![p] = IsReader(Other(p))]
  /\ came' = [came EXCEPT ![Other(p)] = TRUE]
  /\ UNCHANGED <<run, maxfd, bits, buffer, user, fifo, hist>>

(* and returns once a reader has come, even one that has left since.  The   *)
(* variant adds O_NONBLOCK here too, and ENXIO is let through.              *)
Joined(p) ==
  /\ pc[p] = "joining"
  /\ met[p]
  /\ pc' = [pc EXCEPT ![p] = "select"]
  /\ UNCHANGED <<run, maxfd, bits, buffer, user, kernel, hist>>

-----------------------------------------------------------------------------
(* The loop *)

(* Which of the two descriptors select(max_fd + 1, ...) reports; the        *)
(* variant passes max_fd.                                                   *)
StdinReady(p) == stdin[p] # <<>> \/ eof[p]
MutFifoReady(p) ==
  /\ FifoFd < maxfd[p]
  /\ fifo[p] # <<>> \/ (came[p] /\ ~IsWriter(Other(p)))
FifoReady(p) ==
  /\ FifoFd < maxfd[p] + 1
  /\ fifo[p] # <<>> \/ (came[p] /\ ~IsWriter(Other(p)))

Select(p) ==
  /\ pc[p] = "select"
  /\ StdinReady(p) \/ FifoReady(p)
  /\ bits' = [bits EXCEPT ![p] = {b \in {"stdin", "fifo"} :
                IF b = "stdin" THEN StdinReady(p) ELSE FifoReady(p)}]
  /\ pc' = [pc EXCEPT ![p] = "serve"]
  /\ UNCHANGED <<run, maxfd, buffer, user, kernel, hist>>

(* end_program, or death: both descriptors are closed, and a FIFO that      *)
(* nobody has open any more loses what it holds.                            *)
End(p, reason) ==
  /\ pc' = [pc EXCEPT ![p] = "off"]
  /\ bits' = [bits EXCEPT ![p] = {}]
  /\ buffer' = [buffer EXCEPT ![p] = <<>>]
  /\ fifo' = [q \in Sides |->
                IF (IF q = p THEN IsWriter(Other(p)) ELSE IsReader(Other(p)))
                THEN fifo[q] ELSE <<>>]
  /\ why' = [why EXCEPT ![p] = reason]
  /\ UNCHANGED <<run, maxfd, user, came, met, wrote, printed>>

(* How much read(..., buffer, BUFSIZE) takes of m lines.                    *)
Smaller(m, n) == IF m < n THEN m ELSE n

(* buffer[res] = '\0' after a read of res = BUFSIZE bytes writes past the   *)
(* buffer: into padding, or, where the compiler puts max_fd there (gcc -O0  *)
(* does), into the low byte of max_fd.                                      *)
Terminate(p, n) ==
  \/ UNCHANGED maxfd
  \/ n = BufSize /\ maxfd' = [maxfd EXCEPT ![p] = 0]

(* read(STDIN_FILENO, buffer, BUFSIZE) *)
ReadStdin(p) ==
  /\ pc[p] = "serve"
  /\ "stdin" \in bits[p]
  /\ \/ /\ stdin[p] = <<>>
        /\ End(p, "eof")
     \/ LET n == Smaller(Len(stdin[p]), BufSize)
        IN /\ n > 0
           /\ buffer' = [buffer EXCEPT ![p] = SubSeq(stdin[p], 1, n)]
           /\ stdin' = [stdin EXCEPT ![p] = SubSeq(@, n + 1, Len(@))]
           /\ Terminate(p, n)
           /\ bits' = [bits EXCEPT ![p] = @ \ {"stdin"}]
           /\ pc' = [pc EXCEPT ![p] = "write"]
           /\ UNCHANGED <<run, typed, eof, kernel, hist>>

AfterStdin(p) == IF "fifo" \in bits[p] THEN "serve" ELSE "select"

(* write(fifo_write, buffer, res): blocks until FIFO Other(p) has room.     *)
Write(p) ==
  LET q == Other(p)
      lines == [i \in 1 .. Len(buffer[p]) |-> [n |-> buffer[p][i], by |-> run[p], to |-> run[q]]]
  IN /\ pc[p] = "write"
     /\ IsReader(q)
     /\ Len(fifo[q]) + Len(lines) <= PipeSize
     /\ fifo' = [fifo EXCEPT ![q] = @ \o lines]
     /\ wrote' = [wrote EXCEPT ![p] = @ \o lines]
     /\ buffer' = [buffer EXCEPT ![p] = <<>>]
     /\ pc' = [pc EXCEPT ![p] = AfterStdin(p)]
     /\ UNCHANGED <<run, maxfd, bits, user, came, met, why, printed>>

(* SIGPIPE, before the write or while it waits. *)
BrokenPipe(p) ==
  /\ pc[p] = "write"
  /\ ~IsReader(Other(p))
  /\ End(p, "sigpipe")

(* read(fifo_read, buffer, BUFSIZE): lines, which are printed; 0 when the   *)
(* FIFO is empty and has no writer; EAGAIN when a writer has come back      *)
(* since select() returned.  The variants leave the last line printed in    *)
(* the FIFO, and leave at a hang-up before the FIFO is empty.               *)
MutTakeLines(p) ==
  LET n == Smaller(Len(fifo[p]), BufSize)
  IN /\ n > 0
     /\ printed' = [printed EXCEPT ![p] = @ \o SubSeq(fifo[p], 1, n)]
     /\ fifo' = [fifo EXCEPT ![p] = SubSeq(@, n, Len(@))]
     /\ bits' = [bits EXCEPT ![p] = {}]
     /\ pc' = [pc EXCEPT ![p] = "select"]
     /\ Terminate(p, n)
     /\ UNCHANGED <<run, buffer, user, came, met, why, wrote>>
TakeLines(p) ==
  LET n == Smaller(Len(fifo[p]), BufSize)
  IN /\ n > 0
     /\ printed' = [printed EXCEPT ![p] = @ \o SubSeq(fifo[p], 1, n)]
     /\ fifo' = [fifo EXCEPT ![p] = SubSeq(@, n + 1, Len(@))]
     /\ bits' = [bits EXCEPT ![p] = {}]
     /\ pc' = [pc EXCEPT ![p] = "select"]
     /\ Terminate(p, n)
     /\ UNCHANGED <<run, buffer, user, came, met, why, wrote>>

MutReadFifo(p) ==
  /\ pc[p] = "serve"
  /\ "stdin" \notin bits[p]
  /\ \/ IsWriter(Other(p)) /\ TakeLines(p)
     \/ ~IsWriter(Other(p)) /\ End(p, "left")
     \/ fifo[p] = <<>> /\ IsWriter(Other(p)) /\ End(p, "again")
ReadFifo(p) ==
  /\ pc[p] = "serve"
  /\ "stdin" \notin bits[p]
  /\ \/ TakeLines(p)
     \/ fifo[p] = <<>> /\ ~IsWriter(Other(p)) /\ End(p, "left")
     \/ fifo[p] = <<>> /\ IsWriter(Other(p)) /\ End(p, "again")

(* A signal: the program sets no handler. *)
Interrupt(p) == pc[p] # "off" /\ End(p, "killed")

Program(p) ==
  \/ OpenRead(p) \/ OpenWrite(p) \/ Joined(p) \/ Select(p) \/ ReadStdin(p)
  \/ Write(p) \/ BrokenPipe(p) \/ ReadFifo(p)
User(p) == Start(p) \/ Type(p) \/ CloseInput(p) \/ Interrupt(p)

Next == \E p \in Sides : Program(p) \/ User(p)

(* The kernel runs each process that is not blocked; users owe nothing.     *)
Spec == Init /\ [][Next]_vars /\ \A p \in Sides : WF_vars(Program(p))

-----------------------------------------------------------------------------
(* Properties *)

Held(l, lines) == \E k \in DOMAIN lines : lines[k] = l
Within(part, lines) == \A k \in DOMAIN part : Held(part[k], lines)
Arrived(l, p) == Held(l, printed[p]) \/ Held(l, fifo[p])

(* Whatever leaves and restarts do to the FIFOs, a side prints the lines of *)
(* the other one in the order they were typed, none of them twice.          *)
LinesInOrder ==
  \A p \in Sides :
    LET flow == printed[Other(p)] \o fifo[Other(p)]
    IN  \A i, j \in DOMAIN flow : i < j => flow[i].n < flow[j].n

(* Nothing else is printed; of one run of the writer only the last lines    *)
(* may be missing, and none while that run lasts: they are printed or still *)
(* in the FIFO.                                                             *)
StreamKept ==
  /\ LinesInOrder
  /\ \A p \in Sides :
       LET lines == wrote[p]
           q == Other(p)
       IN  /\ Within(printed[q], lines) /\ Within(fifo[q], lines)
           /\ \A i, j \in DOMAIN lines : i < j =>
                /\ lines[i].n < lines[j].n
                /\ lines[i].by = lines[j].by /\ Arrived(lines[j], q) => Arrived(lines[i], q)
           /\ IsWriter(p) => \A i \in DOMAIN lines : lines[i].by = run[p] => Arrived(lines[i], q)

(* "The interlocutor has left the chat" is only said when a partner had     *)
(* come, is gone, and all that was written to this run has been printed.    *)
LeftIsTrue ==
  [][\A p \in Sides : why[p] # "left" /\ why'[p] = "left" =>
       /\ run[Other(p)] > 0
       /\ \A i \in DOMAIN wrote[Other(p)] :
            LET l == wrote[Other(p)][i]
            IN l.to = run[p] => \E k \in DOMAIN printed[p] : printed[p][k] = l]_vars

(* SIGPIPE strikes only a side whose partner has been there and has left:   *)
(* never one that is merely early.                                          *)
KilledByDeparture ==
  [][\A p \in Sides : why[p] # "sigpipe" /\ why'[p] = "sigpipe" =>
       run[Other(p)] > 0 /\ ~IsReader(Other(p)) /\ (why[Other(p)] # "none" \/ run[Other(p)] > 1)]_vars

(* Whatever ends a run is what it says it is: the partner has left, and all *)
(* it wrote was printed, or it has left and the pipe broke.                 *)
ReasonsAreTrue == LeftIsTrue /\ KilledByDeparture

(* Two sides that run at the same time find each other, whichever starts    *)
(* first: neither open() waits for ever.                                    *)
Rendezvous ==
  \A p \in Sides :
    (pc[p] \in {"start", "reading", "joining"} /\ pc[Other(p)] # "off")
      ~> (pc[p] \notin {"start", "reading", "joining"} \/ pc[Other(p)] = "off")

(* The FIFO is open and no longer watched. *)
Deaf(p) == pc[p] \in {"select", "serve", "write"} /\ maxfd[p] # FifoFd

(* A departure is noticed: a side whose partner had opened its end does not *)
(* go on alone, unless a new partner comes or an overrun has deafened it.   *)
DepartureIsNoticed ==
  \A p \in Sides :
    (pc[p] = "select" /\ came[p] /\ ~IsWriter(Other(p)))
      ~> (pc[p] = "off" \/ IsWriter(Other(p)) \/ Deaf(p))

(* A write waits for ever only when both sides write and neither reads, or  *)
(* when an overrun has deafened the reader.                                 *)
OnlyBothBlock ==
  \A p \in Sides :
    <>[](pc[p] = "write") => <>[](pc[Other(p)] = "write" \/ Deaf(Other(p)))
=============================================================================
