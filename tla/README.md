# A verification project for progintro_taskbook

The repository is a collection of solutions to the exercises of a C programming
course: some hundred small programs, each complete in itself. They share no
state; what they have in common are patterns (a `select()` loop, a scan over a
table, a buffer with a cursor, a fork with pipes, a machine over characters).
This project models the programs in which something can go wrong that a run by
hand would hardly show: several processes, signals, a loop that serves several
peers, state that is kept between events and must fit together, or a task whose
corner cases are many.

All paths below are relative to `src/c/` unless they say otherwise.

## 1. Inventory

### Networks

| Program | State | Operations | Hard behaviour | What makes it correct |
|---|---|---|---|---|
| `networks/6_13.c` counter server | table of sessions indexed by descriptor, a buffer and a request per session, one counter | accept, read, take a line, answer, close | streams cut anywhere, several lines per read, reused descriptors, peers that leave or reset between two steps | no byte lost or moved to another session; the counter moves only when asked; nobody starves the loop |
| `networks/6_12.c` acknowledging server | the same without a counter | the same, "Ok" per line | the same | the same |
| `networks/6_11.c` FIFO chat | two descriptors, `max_fd`, a buffer per process; two FIFOs | open, select, read, write | opening order, full FIFOs, departures and restarts, an overrun by one byte | lines arrive in order and once; departures are noticed; blocking only in the known cases |
| `networks/6_07` datagram statistics | two totals, the last sender | count and answer; client with a time-out | loss, duplicates, reordering; a time-out that is counted, one that is never installed | an answer per datagram, to its sender, with the totals of what came |
| `networks/6_06` datagram printer | none between datagrams | read address and port, send, receive, print | wrap-around in the port, two ways of writing to one output | ports and addresses are what was typed; nothing else is printed |
| `networks/6_08.c` time server | none | accept, write, close | none | – |
| `networks/6_09.c`, `6_10.c` prompts | a line; counters and a flag | select with a time-out, signals | a signal between two statements that belong together | what is shown was counted; it ends when asked twice |
| `networks/6_05.c` networks of an address | none | parsing, masks | missing numbers, masks of 0 and 32 | every network of the address, once |

### Operating system

| Program | State | Operations | Hard behaviour | What makes it correct |
|---|---|---|---|---|
| `os/5_07` item table | files of records | add, query, list, join | commands that overlap, are killed or fail half-way; names that fill the field; an output that is an input | one record per name with the number of adds |
| `os/5_34-5_35` line editors | a buffer, a cursor, a flag; the terminal's line | keys, arrows, erasing, completion | several keys per read, a flag that outlives its key, stale cells of the buffer | each key does one thing to the text; the terminal shows the text |
| `os/5_20.c` – `5_23.c`, `5_37.c` signals | flags and counters | handlers, `pause()`, `alarm()` | handlers that interrupt each other or come between a test and a wait | no alarm is lost; a Ctrl-C ends the program when it should |
| `os/5_25.c` – `5_30.c` pipelines | descriptors of each process, pipes, stdio buffers | fork, dup2, close, exec, wait | end of file that never comes because of a forgotten descriptor; SIGPIPE; copies of a buffer | all data arrive, every process ends, reports are true |
| `os/5_12.c` – `5_14.c`, `5_18.c` launchers | process table | fork, exec, wait | commands in parallel, exit order | each status is reported once |
| `os/5_05.c`, `5_06.c` filler and cipher | a file, an offset | read, seek, write | partial and failing writes; commands killed or at once | the bytes asked for, no others |
| `os/5_03/2_53.c`, `2_54.c` reports | a text file, open files | read, analyse, print | the smallest int, too many files | records of the files in order |
| `os/5_33.c` password | terminal settings | echo off, read, compare | lines longer than the buffer | right or wrong is said of what was typed; the echo comes back |
| `os/5_01.c` – `5_09.c`, the rest | none or one number | one pass | – | – |

### Terminal programs

| Program | State | Operations | Hard behaviour | What makes it correct |
|---|---|---|---|---|
| `ncurses/4_27/main.c` menu | selection, window, capacity | arrows, resize, enter, escape | resizes between keys, wrap-around | the selected item is visible, nothing is drawn outside |
| `ncurses/4_25/2_29.c` perimeter walker | position, heading, direction, pace | time-out, space, arrows, resize | turns at corners, resizes | the `#` stays on the border and goes all round it |
| `ncurses/4_25/2_30.c`, `2_27.c`, `4_26.c` and others | position or size | keys | – | smaller relatives of the two above |

### Basics, no_libc, nasm, notes

| Program | State | What makes it correct |
|---|---|---|
| `basics/4_18` (`2_40`, `2_41`, `2_43`, `2_44`), `4_19.c` | a list | what is printed is what the list holds: repeated numbers, columns, runs, neighbours |
| `basics/4_20` | an array whose length is its own first character | a line comes out as it came in, at every length |
| `basics/4_09*.c`, `4_11_2.c`, the filters of `os/5_28.c` and `5_30.c` | a few flags and counts | what is put out after each character is what the task asks of the text so far |
| `basics/4_11_1.c`, `4_12.c`, `4_14.c` | none | each question is answered with just the arguments it is true of |
| `basics/4_21`, `no_libc/4_33`, stream copies, `src/nasm/` | a stack, or none | not modelled, see 6 |

`PROJECT.json` lists each group with its files and whether it is modelled.

## 2. Modules

| Module | Models | Proofs | Checked by |
|---|---|---|---|
| `SelectServer` | 6_12 and 6_13 | `SelectServerProofs` | `select_server`, `select_server_paced` |
| `AtomicCounter` | what 6_13 promises its clients | | `select_server_paced` |
| `FifoChat` | 6_11 | `FifoChatProofs` | `fifo_chat` |
| `Datagrams` | 6_06 and 6_07 | `DataProofs`, `SumTheorems` | `datagrams` |
| `Signals` | 5_20 – 5_23, 5_37, 6_10 | `SmallProgramProofs`, `SumTheorems` | `signals`, `ctrl_c` |
| `Pipelines` | 5_12 – 5_14, 5_18, 5_25 – 5_30 | `PipelinesProofs` | `streams` |
| `ItemTable` | 5_07: `2_55.c` with `item.c` | `ItemTableProofs`, `SumTheorems` | `items` |
| `ItemJoin` | 5_07: `2_56.c` with `item.c` | `ItemTableProofs` | `items` |
| `LineEditor`, `CompletingEditor` | 5_35, 5_34 | `EditorProofs`, `SumTheorems` | `editor` |
| `EditorParts` | what the editors share: separators and the dictionary | `EditorProofs` | `editor` |
| `TextLine` | what the editors promise their user | `EditorProofs` | `editor` |
| `Menu` | 4_27 | `SmallProgramProofs` | `screens` |
| `Perimeter` | 4_25, `2_29.c` | `SmallProgramProofs` | `screens` |
| `FileCipher`, `FileFill` | 5_06, 5_05 | `DataProofs` | `files` |
| `IntReport` | 5_03, `2_54.c` | `DataProofs`, `SumTheorems` | `files` |
| `TextFilters` | 4_09, 4_09_1, 4_09_2, 4_11_2, 5_03 `2_53.c`, filters of 5_28 and 5_30 | `DataProofs`, `SumTheorems` | `files`, `streams` |
| `RepeatedNumbers` | 4_18, `2_40.c` | | `streams`, `numbers_comment` |
| `NumberLists` | 4_18 `2_41`, `2_43`, `2_44`; 4_19 | | `streams` |
| `CharArray` | 4_20 with its three programs | | `streams` |
| `Arguments` | 4_11_1, 4_12, 4_14, 6_05 | | `streams` |
| `Prompts` | 5_33, 6_09 | | `streams` |

The `MC` modules and their `.cfg` files give the constants small values.
`MCItemTable`, `MCLineEditor` and `MCScreens` (the menu and the walk) each hold two
systems and run one per behaviour. `MCFiles` does the same with the three modules
about files of bytes and ints and the ten filters of `TextFilters`, `MCStreams` with the
seven modules of programs that read or hand on a stream (of `TextFilters` the two programs
that count): `system` says which of them a behaviour belongs to, the variables of the
others rest. The definitions that begin with `Mut` are variants of the definition
next to them with one plausible slip; no specification uses them. They are there
to be put in its place, to see that a property notices.

### SelectServer

One model for two programs, which share the session code and the loop: `prog`
chooses. A byte stream is a sequence of tokens, a word, CR, LF or EOT, so that
`INBUFSIZE` is counted in tokens. `rcvq` is the socket's receive queue, `fdt` the
kernel's table of descriptors, `sess` the array `sess_array`. `acceptDue` and
`ready` are the bits of `readfds` that the loop has still to deal with: `Select`
sets them, `Accept` is the test of the listening socket, and `Serve(f)` one turn
of the `for` loop up to the answer: `session_do_read`, `session_check_lf` and
`server_close_session`. The answer (6_13.c:48-51) is a step of its own, because
`write()` may block: `writing` holds what is to be written, `Write` is enabled while
the connection has room for it (`unread` counts what the client has not taken yet,
`SendRoom` what the buffers hold), and while it is not, nothing else of the one
process goes on. `Sigpipe` is the write to a connection that was reset: `alive`
becomes FALSE. Clients connect, send a chunk, take an answer (`Take`) or leave between
any two of these steps, politely or with a reset. With `Scarce`, `accept()` may also
fail while descriptors are free. `seen`, `sent`, `replies`, `verdict` and `overtaken`
(how often each other descriptor was read while a client had something to be read)
are history.

`KeepPartial` keeps what the code does after a read without a line feed: the
counter server answers with the request of the line before (6_13.c:295 calls
`server_response()` after every read). A line that arrives in two parts is therefore
executed once as the old request and once as the new one. `CounterStepsAreAsked` says
both halves of that: the step that consumes a line moves the counter by exactly what
the line asks for, and the only other step that moves it is a read that brings a part
of a line and leaves none whole; such a read repeats the last request of the same
client, never one of another client or of the descriptor's earlier owner. For clients
that send whole lines and wait for the answers no read is of that kind, and the server
implements `AtomicCounter`, with the fairness.

### FifoChat

Two processes, each with a program counter over the system calls that can block:
opening for reading, opening for writing, select, reading the input, reading the
FIFO, writing. The FIFO's side is Linux's: an open for writing waits for a
reader, a hang-up is reported once a writer has come and gone, a FIFO that nobody
holds is emptied. The byte behind `buffer` is the first of `max_fd` when gcc
builds without optimisation; a read of exactly `BUFSIZE` bytes then stores 0 in
it. That outcome is in the model (`Terminate`) and is why some properties except
a side that is `Deaf`.

### Datagrams

`net` is what is under way between hosts; a datagram may be lost, copied (bounded
by `MaxLost` and `MaxCopies`) and overtaken. What the server of 6_07 sends to
itself stays on its host and arrives. `Receive` is one turn of the server's loop
with the printing of 6_06 or the answer of 6_07, `TimeOut` the turn in which
`recvfrom()` returns -1: the code tests the address length and not the byte
count, so that it counts -1 bytes and answers to whomever `addr` holds, the
server itself before the first datagram. `Asks` reads the address and the port of
the client as each program does. 6_06 (`parse_ip()`, `get_port_as_num()`):
`get_num_from_ip()` skips a dot before a number, also before the first one, and a
number that is missing is 0, so that `.1.0.3` is read as 1.0.3.0; a port is gathered
in 16 bits with a power of ten that is an `int`, and `PortAssumption` excludes texts
for which that power does not fit. 6_07 calls `inet_aton()`, which also takes one to
three numbers, of which the last fills the bytes that are left, and octal ones; its
`get_num()` gathers a port in an `int` that wraps around (`MaxInt`).

The headers and line ends of 6_06 go through stdio, the contents through `write()`. On
a terminal each header comes out before its content. Elsewhere the stream keeps them
(`held`) and writes them out together when its buffer is full, which is after
`StdioRoom` of them, and those that are held when the server is stopped are lost.
Headers are taken to be of one length and never to be cut in the middle by a full
buffer.
`Hear` is the client's `recvfrom()`, which has no time-out because `setsockopt()`
refuses the one it is given.

### Signals

Six programs, one kernel. A process is a stack of frames, `main()` at the bottom
and above it the handlers that have interrupted each other; a frame is the
sequence of the steps it still takes, one action per kind of step (`Set`, `Test`,
`Clear`, `Alarm`, `Pause`, ...). `Deliver(s)` pushes the handler of a pending
signal at any moment at which it is not masked, `Return` pops it and ends a
`pause()` or a `select()` below it. `prog` chooses the scripts. 6_10 fills
`readfds` once, before its loop: after a time-out nothing is `watched` any more. It
leaves its loop at the end of the input and when `select()` or `read()` fails
(`ReadEnd`).

### Pipelines

A process has a script, the calls its `main()` makes, and a place in it: `image` is
what it runs, `main()` or since `execvp()` a command, `step` the call it is at, and
`written` how far a call that writes many blocks has come. `ParentScript`
and `ChildScript` are the programs, the actions (`DoClose`, `DoFork`, `DoExec`,
`DoRead`, `DoWrite`, `DoWait`, ...) the kernel: bounded pipes, end of file when
the last writing end is closed, SIGPIPE when the last reading end is, `fork()`
with a copy of the stdio buffer, zombies and `wait()`. `job` is the program and
its command line, whose separators `FirstSep` and `Rest` find. There are three
processes, a parent and two children, which is as many as any of the programs has;
only 5_13 would start more, so that `CommandsAssumption` bounds its command line
to two commands.

The job also says which `fork()` fails, if one does (`fails`). `ParentScript` is then
cut off there: the parent leaves `main()` with the exit status of that branch
(`GiveUp`) and does not wait for the child it may have started. 5_18 does not look at
what `fork()` returned: its parent restores the descriptor, waits for nobody and
prints nothing (`Parent18`).

### ItemTable, ItemJoin

Each command is a process of its own, and each of its system calls that touches
the file is one action: a `read()` of the search (`FindNext`, `FindNothing`), the
seek to the end, the write of a record, the read and the write of a count, the
read of a query. A process may be killed between any two, a read of the search may
fail, which ends the command, and a write, which nobody notices (`Fail`). The two reads
whose result the code does not look at are modelled with what follows from it. When
`output_item()` cannot read its record again (item.c:91), it prints the 1 that the item
was made with (`Show`, with `misread`). When `add_item()` cannot read the count
(item.c:66), the file is still where `lseek()` put it, so that the step back over the
count ends in the name and the sum, 2, is written over the name's last four bytes
(`StoreAstray`): a short name ends before them and only loses that add, a full name is
another name from then on (`tail`). `QueryIsExact` says what is true then: the number
of adds, or 1 after a read that failed, of a name that has some.

A name of `name_size` characters has no terminating zero in its record, and `Same`
compares it together with the count that follows. `adds` counts the writes of each
name, `overlapped` remembers whether two commands ever ran at once.

`ItemJoin` is the third program on such files: it opens two inputs and an output,
which `O_TRUNC` empties, and adds what it reads to the output, where its read of a
count may fail in the same way (`add_astray`). Any two of the three names may be the
same.

### LineEditor, CompletingEditor

`out_buf` of 5_35 is modelled cell by cell, because what is behind the terminating
zero matters: after an arrow that had nowhere to go, `arrow_pressed` stays set
until a character is typed at the end of a line, and that line is not terminated.
A `read()` returns a sequence of bytes; `Escape` does with it what
`process_escape_seq` does, from the start of the buffer and with its effect on
`read_res`. The array `escape_seq` has seven cells; `EscapeAssumption` is that no read
with an escape fills them. `terminal` is what all the `putchar` and `printf` calls leave
on the terminal's line. `Found` is the closed form of the search loop on one line of the
dictionary: the loop does not stop at a match, so a prefix that is repeated in a
word counts more than once. `CompletingEditor` is 5_34, which has no cursor but
starts with a buffer nobody has initialised (`stale`).

`TextLine` is an editor as a user knows it: the text before and behind the
cursor, and one action per key. `EditsAsPromised` and `ShortEditsAsPromised` say
that every step of an editor, seen through its text, is one of them, unless an
arrow had nowhere to go or came in one read with other keys (`rough`), or unless
5_34 was given Tab or Enter before any character (`dirty`, `stale`).

### Menu, Perimeter

`Menu` has one action per key and the resize; `make_screen` is the set of rows
and items that are drawn. `Perimeter` has the time-out that moves the `#`, the
space, the pace keys and the resize; `back` is history, where the last step came
from.

### Files: FileCipher, FileFill, IntReport

`FileCipher` is 5_06 with several commands on one file. A byte is the set of the
keys it is encrypted with, since encrypting twice with one key restores it. `Read`,
`Seek` and `Write` are the loop's calls, `Kill` and `Fail` may come between.
`FileFill` is the loop of 5_05 around `write()`, which may write less than asked
or fail; its -1 is subtracted from what is left. `IntReport` opens, reads and
analyses the files of 2_54 and builds the text of each number digit by digit, the
smallest int included. `record_bin_info()` does not look at what its `write()` calls
return: a record of which not everything was written is `Torn`, and the program goes
on and exits as if it had been.

### Characters: TextFilters, RepeatedNumbers, NumberLists, CharArray, Arguments, Prompts

`TextFilters` gives each program as a machine: what it remembers and what it puts
out for the next character; the properties compare all that was put out with a
definition over the whole text. Where a program prints under a label that says
something else, the property says what it counts: the number 4_09 prints after ">7"
(4_09.c:210) takes in the words of exactly seven letters (4_09.c:144), its shortest word
is the shortest since two separators came together, and its longest run of spaces is no
longer than printed. `RepeatedNumbers` and `NumberLists` read into a
list and print from it; `RepeatedNumbers` has the step that `scanf` takes at input
that is not a number, `NumberLists` the width of an int. `CharArray` is the array
of 4_20, whose length is a signed `char` (of `CharBits` bits) stored in its first
element, with the three programs on top. The columns of `2_43` are compared up to the
spaces at the ends of the rows: `tests/2_43_test.sh:13` expects one where the last word
is shorter, the code (2_43.c:23) ends the row before it. (In that test the expected rows
stand between backquotes in a here-document, where the shell takes them for commands;
they are read here as the rows they are meant to be.) `Arguments` has one action per function
of `main()`, and what each one prints. `Prompts` has the wait, the read and the
comparison of 5_33 and 6_09, with lines longer than the buffer.

## 3. Runs

| Run | States | Bounds |
|---|---|---|
| `select_server` | 715 000 | two clients, two descriptors, a buffer of two tokens, three tokens and one sent one at a time, room for one unread answer, an `accept()` that may fail |
| `select_server_paced` | 478 000 | two clients, two descriptors, four tokens each, whole lines, room for one unread answer |
| `fifo_chat` | 203 000 | one line per FIFO and buffer, two lines typed, one side started twice |
| `datagrams` | 381 000 | two clients, four turns of the server, two time-outs, one loss, one copy; a stream that holds two headers, ints of 19 bits |
| `signals` | 101 000 | six programs, three signals, two reads, one expired time |
| `items` | 1 940 000 | three processes, five commands, two short names and a full one; the join of tables of up to two records |
| `editor` | 147 000 | five reads, a buffer of 100 cells, a dictionary of two words, either editor |
| `screens` | 13 000 | two to seven items, heights of 1 to 5 and 8; a square of four, terminals of four sizes each way |
| `files` | 219 000 | see below |
| `streams` | 216 000 | see below |
| `numbers_comment` | – | ends in a counterexample |
| `ctrl_c` | – | ends in a counterexample |

The bounds of `streams`: pipes of one block and an input of two, and in each
job any one `fork()` may fail; texts of six characters for 4_09 and seven for 4_11_2,
lists of up to six items; a few hundred lists of arguments; a `char` of four bits and
lines of up to eight characters; prompts with lines up to one character longer than
their buffers.

The bounds of `files`: three cipher commands on a file of three bytes with blocks of
two; a filler with a buffer and a file of three bytes and at most two failing
writes; three files of up to four ints, of which two may be open, with 127 as the
largest int and a buffer of three; texts of seven characters of three kinds, or of six of
four kinds for 4_09_2 and 2_53, with sizes of two lines and three columns, so that a text
has lines on either side of each.

Why these bounds are enough for the interesting cases:

- `select_server`: two sessions can be open at once, so that one may keep the other
  waiting, by its reads or by an answer it does not take. `Scarce` lets `accept()` fail
  with a descriptor free, so that connections wait in the backlog; the lowest descriptor
  is given to the next client after every close. A buffer of two tokens is full with one
  word and no line feed; three tokens sent one by one give every cut of a line, two lines
  in one buffer, and a line that is too long; the other client's one token is enough to
  be waited for. Room for one answer makes the second unread one block.
- `fifo_chat`: with room for one line the second write blocks; with a buffer of
  one line every read is one of exactly `BUFSIZE`; the second run of a side meets
  the leftovers of the first.
- `datagrams`: two requests may overtake each other and so may their answers; two
  time-outs in four turns come before, between and after datagrams; three ports that are
  equal modulo 65536 and of which one is also larger than an int (of 19 bits); addresses
  with a number too large, missing or one too many; a stream that is full after two of
  four headers.
- `signals`: three signals nest in every order of two or three handlers and come
  again while their handler runs; two reads and one expired time are enough to
  start the second turn of every loop.
- `items`: three processes allow a stale append over a record that a third has
  found. Three adds of a full name are needed for its second record.
- `editor`: one read may paste three characters, so that five reads type, move
  into the text, and erase or complete there. A buffer of 100 cells is more than
  they can fill: each of 30 bytes at most writes to three cells (`RoomAssumption`).
- `screens`: capacities below, at and above the number of items, odd and even; for
  the square a terminal too small, just big enough, and with odd and even rests.
- `files`: three commands allow two that overlap followed by one that does not, and a
  block of two leaves a last block of one; stretches shorter than, as long as and
  longer than the filler's buffer begin in and behind the file; ints of one to three
  digits, of either sign, and the smallest one, in files shorter and longer than the
  buffer.
- `streams`: a pipe of one block is full after one write, so that each side waits
  for the other; every text of six characters has lines, words and brackets that
  follow each other, are empty, or are cut off by the end; with four bits the
  length of an array passes through the codes of the line's end, the tab, the space
  and the digits, and wraps around.

What they show:

- `select_server`: the session table and the descriptors agree
  (`SlotsMatchDescriptors`); no read blocks or asks for nothing
  (`ReadsMakeSense`); no token is lost or moved (`NothingLost`); "too long" is
  said only of long lines (`TooLongIsTrue`); a complete line moves the counter once, by
  what it asks for, and nothing else does but a part of a line, which repeats its own
  client's last request (`CounterStepsAreAsked`); no session waits for more than two
  reads of each other one, and a peer that left is noticed, unless the process is
  killed by SIGPIPE or stays in a `write()` to a client that reads no answers
  (`EverySessionIsServed`).
- `select_server_paced`: with clients that send a line and wait, the server is
  `AtomicCounter` (`ImplementsAtomicCounter`), and clients that leave between
  requests do not kill it (`OutlivesPoliteClients`).
- `fifo_chat`: lines arrive in order and once, and only a run's last ones may be
  missing (`StreamKept`); what ends a run is what it says (`ReasonsAreTrue`); two
  sides find each other, departures are noticed, and a write waits for ever only
  when both write or one is deaf (`Rendezvous`, `DepartureIsNoticed`,
  `OnlyBothBlock`).
- `datagrams`: answers carry the totals of their own moment and go to the client
  they are about, and the server talks to itself for ever just when its first turn
  was a time-out (`AnswersAreExact`); what is printed is what came, each content behind
  its header on a terminal, elsewhere a block of headers behind the contents they belong
  to, and ports above 65535 are their remainders (`Printed`); a client is served unless
  something is lost (`EveryoneIsServed`).
- `signals`: a program that lives by `alarm()` has one set or coming
  (`NeverSilent`); one Ctrl-C never ends 5_22, 5_23 and 6_10 (`ExitNeedsTwo`); the
  counters shown lag behind by what was being counted and no more
  (`ShownCountsAreTrue`); a signal that finds 5_20 or 5_21
  asleep is not lost (`SleeperIsWoken`).
- `items`: commands that do not overlap are exact wherever they are killed or fail, and
  a query too, but for the 1 it prints when its last read fails (`ExactWhenAlone`,
  `QueryIsExact`); a full name is found only while its count is
  1 and its record unspoilt, and its adds are spread over several records (`FullNamesSplit`); commands
  that overlap lose adds but invent none (`NothingInvented`); a join holds what
  its inputs held together (`JoinAdds`).
- `editor`: `TerminalsShowText` and `KeysAsPromised`, for both editors.
- `screens`: `SelectedIsShown`, `WindowIsFull`; `StaysOnPerimeter`, `SpaceTurnsBack`,
  and under fairness `WalksRound`.
- `files`: `FilesAreExact`, the conjunction of `CipherIsExact`, `FillIsExact` and
  `ReportsAreExact`; `FiltersAsAsked`, that at every character the filters have put out
  what their task asks for of the text so far.
- `streams`: all that one stage writes reaches the next (`BlocksArrive`); a line
  given to `printf()` appears once, except the two that a copied or dropped stdio
  buffer repeats or swallows (`LinesOnce`); what is said of a child is what became
  of it, once (`ReportsAreTrue`); nobody hangs (`EverybodyEnds`), also when a `fork()`
  fails. For the programs without processes: `AnswersAsAsked`, the conjunction of the
  properties of the modules named in its comment.
- `numbers_comment`: the comment at `find_ge_three()` (`basics/4_18/2_40.c:26`)
  speaks of more than three times; the code is content with three.
- `ctrl_c`: `os/5_20.c:15` says that Ctrl-C quits. A SIGINT that is handled between
  the test of `sig_caught` and `pause()` (line 17) does not: the program sleeps
  until another one comes.

Many properties say more than what the task intended, because they say what the
code does where it departs from that: the shifted columns of `2_43`, the ">7" of 4_09
that takes in seven, the 1 of a query that cannot read, the header that appears twice in
5_25, the -1 that lengthens the stretch of 5_05, the answer
the server of 6_07 gives to itself. Their comments name each such case.

Deadlock is not checked. The servers wait in `select()` when no client acts, the
other programs end, and the inputs of every run are bounded.

## 4. Fairness

- `SelectServer`: `WF_vars(Server)`. The server is one process; the kernel runs it
  whenever it is not blocked in `select()` or `write()`. Nothing is assumed of the
  clients: one that never takes its answers blocks the process for good, and the
  antecedent `[]<>~Blocked` of the second part of `EverySessionIsServed` says so. Its
  first part, `NobodyStarves`, is an action property and needs no fairness.
- `FifoChat`: weak fairness of each process's own steps, for the same reason. Users
  owe nothing; they may never type, never close their input, never start again.
- `Pipelines`: weak fairness of each process's steps. A step that blocks (a read of
  an empty pipe, a write to a full one, a `wait()`) is disabled, so that nothing is
  assumed of a process that hangs. The standard input is bounded and then ends:
  `EverybodyEnds` is about inputs that end.
- `Datagrams`: weak fairness of the server for each client
  (`WF(ReceiveFrom(c))`) and of each client's own receive (`WF(Hear(c))`): what the
  network does not lose it delivers, and the process that waits for it runs.
  `EveryoneIsServed` excepts behaviours in which something is lost or the bound on
  the server's turns is reached.
- `Signals`: `WF_vars(Run)`: the process and the delivery of its signals go on.
  Users and the clock owe nothing.
- `Perimeter`: `WF_vars(Timeout)`: `getch()` returns when its time is over and no
  key has come. `WalksRound` assumes besides, in its antecedent, that keys and
  resizes end.
- The other modules state safety alone and assume no fairness.

## 5. Proofs

Every theorem holds for all values of the constants that satisfy the assumptions
of the module (for files `FilesAssumption`: keys and sizes that the programs accept,
ints of one width, texts without the mark that stands for no character) and those the theorem itself states: `Paced` and `LineAtATime` (clients that
wait for their answers). The runs check the same formulas on small instances.

**Server** (`SelectServerProofs`). `ReadsMakeSense` is not inductive: a bit of
`readfds` stays meaningful only because the loop visits descriptors in order,
accepts first, and deals with a bit before anything else can close its descriptor.
The inductive invariant is
`IInv == TypeOK /\ SlotsMatchDescriptors /\ ReadsMakeSense /\ LoopShape`, and
`LoopShape` says that of the loop. `TypeCorrect`, `SlotsCorrect` and
`ReadsCorrect` follow from it. `Conservation` (no token lost) and
`TooLongCorrect` are proved on top of it: concatenating what is consumed, what is
buffered and what is queued gives what was sent, and cutting a line off the front
of the buffer or a read off the front of the queue keeps that; the lemmas on
`FirstLF`, `AfterLF` and reads are at the start of the module. `CounterCorrect`
proves the action property `CounterStepsAreAsked`, the repeated request included: a
step that consumes a line moves the counter by that line's request (`LineAsked`), and a
read that brings a part of one by the request the session keeps (`PartAsked`), which is
the one on its client's last line (`RequestsRemembered`): whoever waits for `accept()`
has had no line consumed, consumed lines end in LF, and one line more makes its own
request the last (`LastOfLine`). `NobodyStarved` is the action property `NobodyStarves`,
the first part of `EverySessionIsServed`: `Overtaking` says that a descriptor was read at
most once before a waiting client's in the present pass of the loop, and twice with the
pass before it. The second part is liveness and only model-checked.

The third part of the module is about clients that wait for their answers.
`PoliteClientsOutlived`: the only write to a connection that was reset would be the
answer to a line its client had sent before, and whoever waits has left nothing
unread when it leaves (`LeaversDrained`). `CounterIsAtomic` is the step simulation of
`AtomicCounter`, for clients that send whole lines: `WholeInv` says that a queue
holds one line or nothing and that no buffer holds anything between two reads, so
that the turn of the loop that reads a line is the abstract step that executes it
(`ServeExecutes`), sending is submitting (`SendSubmits`) and everything else
stutters. What `ImplementsAtomicCounter` adds to this is the fairness.

**Chat** (`FifoChatProofs`). `CInv` is `TypeOK` with `Started`, `Stopped`,
`MetIsTrue`, `MetFirst` (a side past its two opens has met a partner) and
`NothingDropped` (what a side wrote in this run and its partner has not printed is
in the FIFO or in the partner's hands). `ChatTypes` and `ReasonsHold` follow:
nobody is told that the partner left before all its lines were printed, and
SIGPIPE strikes no one who is merely early. `Flows` chains what was printed, what
is queued and what is held into one stretch of increasing lines (`Chain`), which
every read, write and loss cuts or extends at an end. `StreamHolds` is `StreamKept`,
by `SInv`: what is written is a stretch of what was typed (`Written`) by the runs so
far (`Past`), all that travels was written (`Inside`), of one run's lines a later one
arrives only if the earlier ones do (`Whole`), and as long as a side writes all lines
of its present run are printed or on their way (`Present`).

**Datagrams** (`DataProofs`). `AnswersExact` is `AnswersAreExact` for any number
of clients and any network. `DInv` says that the two totals are those of the log
(`Counted`, a sum), that answers on their way and answers taken are exact about their
own moment (`BackExact`, `ToldExact`: the log grows at its end only, so that a sum
over its beginning never changes), and where the server's talk with itself stands
(`OwnTalk`: no datagram of its own unless its first turn was a time-out, and then
exactly one on its way at any time). `PrintedHolds` is `Printed`. Its second part is
about the address: `Printed` says by a definition over the whole text which four
numbers a text names, the code takes one number after the other off its front;
`ReadsNamed` shows them equal, by the place where each number ends, which is the place
of a dot with as many dots before it (`EndOf`). `PInv` says that what reaches the
printing server was sent to its host and port (`NetHere`, `LogHere`), and that what it
has written is what the turns of its log make: two pieces for each on a terminal
(`ByLine`), elsewhere one, and one more for each time the stream was full (`ByBlock`).
The theorem is about port texts that `PortAssumption` admits, any `MaxInt` and any
`StdioRoom`.

**Signals** (`SmallProgramProofs`). For any number of signals, reads and timeouts, and any
order in which handlers interrupt each other. `FramesInv` says that `main()` lies at
the bottom of the stack in one of the places its script has (`MainTodo`), and above it
handlers of different signals with some of their own steps left. `SilentInv` adds who
will set the next alarm; with it `AlarmsGoOn` is `NeverSilent`. `FlagInv` says who may
have set the flag: a handler of SIGINT that has not tested it finds it set only if it
was set when the handler was delivered; a handler that clears it leaves it clear until
the next SIGINT, unless one came before it ended. `CtrlCTwice` is `ExitNeedsTwo`.
`CountsShown` is `ShownCountsAreTrue`, by `Counted`: what `main()` has left to do tells
which counter the last read is still missing from.

**Pipelines** (`PipelinesProofs`). For every set of command lines, every size of the
pipes, of the input and of the numbers, and every order in which the processes run.
The programs differ in their scripts alone, so that the proof first says what all
scripts have in common: a call that does not end a process has a next one (`Runs`), a
parent forks each child once and before it waits (`Raises`), a child neither forks nor
waits (`Grows`). Every action then is one of a few things for the control of the
processes (`Alone`, `Births`, `Burials`) and one of a few for the lines that are
written (`Silent`, `Says`, `Copies`, `Flushes`, ...): the lemmas `Kinds` and `Outputs`
show that once for each action, and all that follows is about those kinds of steps.

`CInv` says where each process stands, `FInv` that the lives of the children agree
with the place of the parent, `OInv` that whoever has ended has an empty stream, and
`RInv` that each line about a child is true of it and that as many are written or
waiting as that child is due. `ReportsCorrect` (`ReportsAreTrue`) follows, but for the
complaint of 5_27 and 5_29: when their command is `cat`, no write must fail.

That, and `BlocksCorrect` (`BlocksArrive`), are about jobs in which every command
copies (`Smooth`). Each process then has one straight `Course`, and a table (`Holds`)
says what its descriptors stand for at each place of it; `WellRun` checks the table
against the calls, program by program. From the tables alone follow `Routed` and
`Piped`: a child is born with what the parent holds, and somebody holds the reading
end of a pipe from when it is made to when its reader has read to its end. `HInv` says
that every process is on its course with the descriptors of the table, so that no
write meets a pipe that nobody reads; `GInv` that a pipe whose reader has gone on is
empty and has no writing end left. `DInv` is the balance: blocks still to be sent,
in the pipes, in hands, on the screen, in the file and counted are together `Sent`,
and when all have ended only the last three are left.

`LinesCorrect` is `LinesOnce`, by `LineInv`: where the header of 5_25 is (`Heads`
counts the copies, written and waiting), that 5_14's parent says nothing before its
child is gone, and that the count of 5_29 is written by the counting child in the one
step in which it passes its `printf()`. `ShortInv` is about 5_14 and 5_25 when their
`fork()` fails.

The three theorems are about jobs one of whose `fork()` calls may fail. The script is
then a beginning of the whole one with an exit behind it (`Shortened`), which keeps all
that is said of scripts (`ParentScripts`); `Smooth` jobs are those in which none fails
(`SmoothWhole`).

The invariants are also true of every state of the run's jobs; this was seen before
they were proved.

**Item table** (`ItemTableProofs`). `ExactWhenAlone` speaks of moments when no
command may be running; to get there one must know what a running command knows.
`IInv` adds `OffsetsOK` (offsets lie inside the file, and it only grows) and,
while no two commands have overlapped, `OneAtATime` and `Progress(p)`: the part
of the file that was searched does not hold the name, the offset of an append is
the end, the record that was found is that of the name, and the count read is
still the one in the file. `WriteStep` treats both kinds of write, `StoreAstrayStep`
the one that goes astray.
`ItemTypeCorrect`, `ExactCorrect` and `QueryCorrect` follow.

Two more theorems are about sums of counts. `NoneInvented` is `NothingInvented`,
for commands that overlap in any way: `WrittenInv` says that the records of a name
hold together no more than its adds, and that a count somebody has read was in the
file, so that storing it increased makes the sum at most one more. `FullNamesCorrect`
is `FullNamesSplit`: `SplitInv` says that a full name has at most one record that a search
would find, unspoilt and with a count of one, that all other counts are at most two, and
that a search has passed no record it would have found (`Passed`).

The join is the last part. Its invariant `JoinInv` says of every name that what the
output holds (`Held` counts it together with what the present input still holds, from
its offset on) is the sum that the loop is to reach, or less if a call failed. When
the output is the input that is read, `add_item()` changes the record it adds or one
before it, never the rest: this is the last conjunct of `Added`, and why the loop
doubles the counts and ends. `JoinCorrect` is `JoinAdds`, for inputs that hold one
record per short name (`TablesAssumption`), which is what `ExactCorrect` says
`2_55.c` leaves behind.

**Cipher** (`DataProofs`). For any number of commands, any keys, any length
and any size of the buffer. `CipherIsExact` speaks of the file; a command's block
is the file as it was. `XInv` says where each command stands (`Placed`), what its
block holds (`BlockTrue`: a byte made by some of those that wrote there, and the
present one unless commands overlapped) and what each byte of the file holds
(`ByteTrue`). `CipherCorrect` follows. The lemmas on `Xor` and `Sum` say that
encrypting with a key adds or takes away just that key.

**Filler** (`DataProofs`). `FInv` says that the place and what is left add up to
where the stretch ends, plus one for every failed write, and which bytes are
written. `FillCorrect` follows.

**Report** (`DataProofs`). For every width of an int, every size of the buffer,
any files and any failure of an open or a read. What a record says is text, and the
property reads that text back (`Number`), so that the proof is about two loops over
data: `digits` takes a number apart, `Number` and the search for the largest and the
smallest put a sequence together, as folds of the library. `Outcome` is what such a
fold makes of a sequence; `TurnsExist` and `TurnsUnique` show by a smallest
counterexample that there is exactly one, `TurnMore` what one more element does to it.
`DigitsExist` and `DigitsSpell` do the same for the recursive `digits`, along the
quotients, which come nearer to 0 (`QuotientIs`). `IntsAreSaid` puts the two together:
the text of a number reads as that number, but for the smallest one, whose sign
`Wrap` cannot turn, so that its digits are negative and are no digits of a text.
`RInv` says that a record was added for each file that was opened, unless a read
failed, and that it is torn or true of its own file (`TrueRecord`); `ReportCorrect` is
`ReportsAreExact`. `FilesCorrect` is the conjunction that the run checks.

**Filters** (`DataProofs`). For every alphabet and any text in it, any number of
lines and of columns. `FiltersAsAsked` compares a machine that forgets the text as it goes
with a definition over the whole text: the line, the column and the word of every
character. `TextInv` says what each machine still knows of the text (`Knows`): 5_28 the
number of the line, the column, and of the line's first word how far it goes, 5_30 one
number that means something else in each variant, 4_09_1 whether a word may begin, 4_09_2
the last two characters and how many came since the last separator, 2_53 the length of the
line. One lemma per machine (`Step28Is`, `Step30Is`, `BracketsStep`, `TwoStep`,
`LengthsStep`) shows that what it puts out for one more character is what is asked for
that one (`AskedFor`) and that it knows as much of the longer text; `AskedSame` that what
is asked for the characters before it stays the same, `AllAskedMore` that all that is
asked grows by just that piece (`FlattenMore` in `SumTheorems`). 4_09_2 knows its part of
the first line only: it goes on counting over a line's end, which is why the property
says no more of it. `TextCorrect` is the theorem of `TextFilters`, `FiltersCorrect` that
of the run.

**Editors** (`EditorProofs`). For every set of letters, every dictionary, every set of
inputs and any number of reads, in a buffer that has room for them. The two properties
compare what the editors keep in step by hand: the buffer, the terminal and the text
that a user has in mind. What a terminal shows is a fold over all that was put on it, and
what a search shows is one over the dictionary; the prover has no induction, so that
their lemmas take a smallest counterexample (`LeastOf`): `FoldUnique` says that the fold
of the library is the function that puts one character after the other, and the lemmas
after it what backspaces, spaces and text do to a line that is shown (`At`, `Over`,
`Shown`).

The invariant of 5_35, `LineInv`, says that the cursor is not behind the terminator,
that cells which no key can have reached are zero (`Room`: as long as what is still to
come fits in behind them, `Budget`), that the terminal's line is one (`Printed`) and,
unless an arrow was left over or came with other keys, that it shows the text with the
cursor in its place (`Shown`). The action property needs the same invariant: `Holds`
cuts the buffer at the cursor into the text before and behind it, and each key is shown
to be one of the actions of `TextLine` by what it does to these two. Erasing a word and
completion take most of it: `WordEnd`, `ErasedFrom` and `PrefixStart` search the buffer
cell by cell where `TextLine` speaks of the last separator. `SInv` is the
invariant of 5_34. `EditorTypeOK`, `EditorsShowText` and `EditorsKeepPromises` follow
from `EInv == LineInv /\ SInv`; TLC found `EInv` true of every state of the run before
it was proved. `RoomAssumption` is what keeps lines inside the buffer, and
`EscapeAssumption` what keeps an escape sequence inside `escape_seq`: the program has no
such limits, what happens beyond them is not modelled, and the theorems are about inputs
that stay within them.

**Menu** (`SmallProgramProofs`). `MenuTypeOK` and that the screen is what `make_screen`
draws of the present selection and window, with `SelectedIsShown` and
`WindowIsFull` in terms of the window. Five theorems; `DrawnInside` and
`ScrollsLittle` are proved only.

**Perimeter walker** (`SmallProgramProofs`). `PInv` is `PerimeterTypeOK`, that the `#` is on
the border, and that its heading leads along the side it is on: the cell behind it
is where it came from, or, after an odd number of spaces, the cell ahead of it.
`PerimeterTypeCorrect`, `StaysOnPerimeterCorrect`, `SpaceTurnsBackCorrect`.

**Sums** (`SumTheorems`). The totals of `Datagrams`, `Signals`, `ItemTable` and
`ItemJoin` are folds, which
their modules define by a recursive function on the subsets of a set that takes away
one element at a time. `Adds(g, f, S)` says that `g` gives every subset its sum;
`SumExists` shows that there is such a function for a finite set, `FoldIsSum` and
`SumUnique` that there is only one whatever element is taken first, all three by a
smallest counterexample (`LeastOf`), and the lemmas after them what one element more
does to a sum. The module ends with what the editors and the filters need of sequences
of pieces put one behind the other: `StringsExist`, `StringsUnique`, `FlattenType`,
`FlattenMore`.

Only model-checked are:

- the liveness properties, and the fairness in `ImplementsAtomicCounter`: the prover
  has no rules for fairness beyond propositional temporal logic;
- `AnswersAsAsked`, which compares what six modules of small programs print with
  definitions over all that they have read.

## 6. What is left out

Of what is modelled:

- Bytes, wherever no property looks inside a word, a line or a record.
- Writes outside an array, other than the ones whose effect is known (`FifoChat`,
  `Prompts`, `CharArray`): lines longer than the editors' buffers, a read with an
  escape in which seven or more bytes come before the next one, so that they leave no
  zero for `strlen()` in the seven cells of `escape_seq` or run over its end
  (`os/5_34-5_35/5_35.c:318-344`, excluded by `EscapeAssumption`), more matches than
  `match_pos` holds, names longer than a record, in `os/5_13.c` an array of pointers that
  is one slot short, and in `networks/6_10.c:114-115` the terminating zero behind a line
  of as many bytes as the buffer has, or before the buffer when `read()` fails.
- Ports of more than ten digits in 6_06 (`server.c:45-62`), where the power of ten
  overflows its `int` (excluded by `PortAssumption`); in 6_07 the overflow of the number
  itself is taken to wrap, as it does with gcc. That a full stdio buffer cuts a header in
  two is left out too.
- In the item table, a `write()` of which only a part is done, names that reach into the
  last four bytes of their field without filling it (56 to 59 characters), which a write
  that goes astray would change, and in `2_56.c` counts of 256 and more.
- In `os/5_03/2_54.c`: the output file is opened without `O_TRUNC` (2_54.c:159), so that
  the rest of a longer file that was there stays behind the records, and each record ends
  in a zero byte besides the line feed; `IntReport` is about what the program writes. Of
  a record that is not written whole it says only that it is not.
- `pipe()`, `dup2()` and memory that fail, errors in setting up sockets and terminals. A
  `fork()` that fails is modelled.
- In 5_28 and 5_30 a `char` is compared with `EOF`: a byte of 255 ends the text, or
  nothing does where `char` is unsigned. The texts of the runs hold no such byte.
- In `os/5_03/2_53.c` the precedence of `=` and `!=` hides a read error, and only
  the first byte of `int c` is read into; `2_54.c` looks at the first 4096 bytes of
  a file only, which is in the model (`BufferInts`).
- `os/5_33.c` leaves the echo off when it is ended by Ctrl-C.

Not modelled:

- `networks/6_08.c`, the single passes of `os/5_01.c` – `5_04.c`, `5_08.c` and
  `5_09.c`, the stream copies, the sums and swaps of `basics`, the smaller pictures
  of `ncurses` (of which `2_30.c` ignores a resize), the assembly exercises: they
  keep no state in which anything could part from anything else.
- `basics/4_18/2_42.c`: its search always returns NULL.
- `basics/4_21`: a push moves `sizeof(double)` elements instead of one, so that the
  second one leaves the array; what the programs on top do is up to what lies there.
- `no_libc/4_33` and `os/5_07/2_57.c`: unfinished, the first does not compile.

## 7. What could be added

1. **Array of 4_20**: that its first element is its length, modulo the width of a
   `char`, after every operation.
