------------------------------ MODULE MCFiles ------------------------------
(* One of the programs that work on files of bytes and ints, or one of the  *)
(* text filters, per behaviour: "system" says which; the variables of the   *)
(* others rest.                                                             *)
EXTENDS Integers, Sequences, FiniteSets

CONSTANTS
  Cmds, Keys, Given, Length, buf_size,
  Starts, Lengths, max_len, FileSize, MaxPlace, MaxFails,
  Contents, Files, BufferInts, MaxOpen, IntMax, Garbage,
  Alphabet, MaxLength, max_lines, max_chars, Columns, LongWord
VARIABLES
  system,
  data, key, pc, pos, block, wrote, overlapped,
  start_position, len0, len, place, bytes, fails, filling,
  given, opened, report, exit,
  filter, mem, text, put, done

C == INSTANCE FileCipher
F == INSTANCE FileFill
R == INSTANCE IntReport
Text == INSTANCE TextFilters WITH prog <- filter, out <- put

(* Keys and sizes that the programs accept; a file of ints, and what memory *)
(* that was never written may hold, are ints of IntMax's width.  No text    *)
(* holds the mark for the character before the first.                       *)
CipherSizes ==
  /\ IsFiniteSet(Cmds) /\ Given \subseteq [Cmds -> Keys]
  /\ Length \in Nat /\ buf_size \in Nat \ {0}
FillSizes ==
  /\ FileSize \in Nat /\ MaxPlace \in Nat /\ max_len \in Nat \ {0}
  /\ Starts \subseteq Int /\ Lengths \subseteq Int
Ints == -IntMax - 1 .. IntMax
ReportSizes ==
  /\ IntMax \in Nat /\ Files \in Nat /\ MaxOpen \in Nat
  /\ BufferInts \in Nat /\ BufferInts <= IntMax
  /\ Contents \subseteq Seq(Ints) /\ Garbage \subseteq Ints
TextSizes ==
  /\ max_lines \in Int /\ max_chars \in Nat \ {0} /\ Columns \in Int
  /\ \A p \in DOMAIN Alphabet : Text!Start \notin Alphabet[p]
ASSUME FilesAssumption == CipherSizes /\ FillSizes /\ ReportSizes /\ TextSizes

MCGiven == {<<1, 1, 2>>, <<1, 2, 1>>}
MCStarts == {-1, 0, 2, 4}
MCLengths == {-1, 0, 2, 5}
MCGarbage == {0, -100}
MCContents == {<<>>, <<0>>, <<-128, 127>>, <<10, -7, 99>>, <<5, 5, -100, 120>>}

MCAlphabet ==
  [p \in {"5_28A", "5_28B", "5_28C", "5_28D", "5_30A", "5_30B", "5_30C",
          "4_09_1", "4_09_2", "2_53"} |->
     {"x", " ", "\n"} \cup (CASE p = "4_09_2" -> {"y"} [] p = "2_53" -> {"\r"} [] OTHER -> {})]
MCMaxLength == [p \in DOMAIN MCAlphabet |-> IF p \in {"4_09_2", "2_53"} THEN 6 ELSE 7]

-----------------------------------------------------------------------------
CipherIdle ==
  /\ data = [i \in 1 .. Length |-> {}] /\ key = [p \in Cmds |-> 0]
  /\ pc = [p \in Cmds |-> "idle"] /\ pos = [p \in Cmds |-> 0]
  /\ block = [p \in Cmds |-> <<>>] /\ wrote = [p \in Cmds |-> 0] /\ overlapped = FALSE
FillIdle ==
  /\ start_position = 0 /\ len0 = 0 /\ len = 0 /\ place = 0
  /\ bytes = F!Before /\ fails = 0 /\ filling = "idle"
ReportsIdle == given = <<>> /\ opened = 0 /\ report = <<>> /\ exit = -2
FiltersIdle == filter = "none" /\ mem = 0 /\ text = <<>> /\ put = <<>> /\ done = TRUE

FilesInit ==
  /\ system \in {"cipher", "fill", "reports", "filters"}
  /\ IF system = "cipher" THEN C!Init ELSE CipherIdle
  /\ IF system = "fill" THEN F!Init ELSE FillIdle
  /\ IF system = "reports" THEN R!Init ELSE ReportsIdle
  /\ IF system = "filters" THEN Text!Init ELSE FiltersIdle

cipher == <<data, key, pc, pos, block, wrote, overlapped>>
fill == <<start_position, len0, len, place, bytes, fails, filling>>
reports == <<given, opened, report, exit>>
filters == <<filter, mem, text, put, done>>
FilesNext ==
  /\ UNCHANGED system
  /\ \/ system = "cipher" /\ C!Next /\ UNCHANGED <<fill, reports, filters>>
     \/ system = "fill" /\ F!Next /\ UNCHANGED <<cipher, reports, filters>>
     \/ system = "reports" /\ R!Next /\ UNCHANGED <<cipher, fill, filters>>
     \/ system = "filters" /\ Text!Next /\ UNCHANGED <<cipher, fill, reports>>

filesVars == <<system, cipher, fill, reports, filters>>
FilesSpec == FilesInit /\ [][FilesNext]_filesVars

-----------------------------------------------------------------------------
(* What the programs do to a file, interrupted, failing or at once, is what *)
(* was asked for as far as it can be: FileCipher.CipherIsExact for 5_06,    *)
(* FileFill.FillIsExact for 5_05 and IntReport.ReportsAreExact for 2_54.    *)
FilesAreExact == C!CipherIsExact /\ F!FillIsExact /\ R!ReportsAreExact

(* The filters put out what is asked for, at every character of the text:   *)
(* TextFilters.FiltersAsAsked.                                              *)
FiltersAsAsked == Text!FiltersAsAsked
=============================================================================
