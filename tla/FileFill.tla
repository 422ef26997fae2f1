------------------------------ MODULE FileFill ------------------------------
(***************************************************************************)
(* c/os/5_05: a stretch of a file is filled with one byte.  The result of  *)
(* write() is subtracted from what is left to write, also when it is -1.   *)
(***************************************************************************)
EXTENDS Integers, FiniteSets, FiniteSetsExt

CONSTANTS
  Starts, Lengths,  (* the numbers the program may be given                *)
  max_len,          (* the length of its buffer                            *)
  FileSize,         (* the length of the file before                       *)
  MaxPlace,         (* bound: the places of the file that are looked at    *)
  MaxFails          (* bound: how often write() fails                      *)

VARIABLES
  start_position, len0,   (* the numbers it was given                      *)
  len,                    (* what is left to write                         *)
  place,                  (* its place in the file                         *)
  bytes,                  (* the file: what each place holds               *)
  fails,                  (* history: how often write() has failed         *)
  filling                 (* "open", "write" or "done"                     *)

fillVars == <<start_position, len0, len, place, bytes, fails, filling>>

Places == 0 .. MaxPlace
Before == [i \in Places |-> IF i < FileSize THEN "old" ELSE "none"]
Shorter(n) == Min({n, max_len})

Init ==
  /\ start_position \in Starts /\ len0 \in Lengths /\ len = len0
  /\ place = 0 /\ bytes = Before /\ fails = 0 /\ filling = "open"

(* A position before the start of the file is refused: it stays at 0.       *)
Lseek ==
  /\ filling = "open" /\ filling' = "write"
  /\ place' = Max({0, start_position})
  /\ UNCHANGED <<start_position, len0, len, bytes, fails>>

(* The buffer is filled once, for the length asked for.                     *)
fill_arr(i) == IF i < Shorter(len0) THEN "value" ELSE "junk"

(* write() writes at least one byte of what it is given, or fails.          *)
Write ==
  /\ filling = "write" /\ len > 0
  /\ \E n \in 1 .. Shorter(len) :
       /\ bytes' = [i \in Places |->
                      IF i \in place .. place + n - 1 THEN fill_arr(i - place)
                      ELSE IF i < place /\ bytes[i] = "none" THEN "zero"
                      ELSE bytes[i]]
       /\ place' = place + n /\ len' = len - n
  /\ UNCHANGED <<start_position, len0, fails, filling>>
WriteFails ==
  /\ filling = "write" /\ len > 0 /\ fails < MaxFails
  /\ len' = len + 1 /\ fails' = fails + 1
  /\ UNCHANGED <<start_position, len0, place, bytes, filling>>

Close ==
  /\ filling = "write" /\ len <= 0 /\ filling' = "done"
  /\ UNCHANGED <<start_position, len0, len, place, bytes, fails>>

Next == Lseek \/ Write \/ WriteFails \/ Close

Spec == Init /\ [][Next]_fillVars

-----------------------------------------------------------------------------
(* However write() cuts the stretch up, what lies outside it is as before,  *)
(* but for zeros up to it, and all of it is filled in the end.  Each write  *)
(* that fails makes the stretch one byte longer; only after that, and only  *)
(* if the stretch is shorter than the buffer, may other bytes get into it.  *)
First == Max({0, start_position})
FillIsExact ==
  /\ \A i \in Places :
       LET written == filling # "open" /\ First <= i /\ i < place IN
       /\ written => bytes[i] = "value"
                     \/ (bytes[i] = "junk" /\ fails > 0 /\ len0 < max_len)
       /\ ~written => bytes[i] = Before[i]
                      \/ (bytes[i] = "zero" /\ FileSize <= i /\ i < First)
  /\ filling = "done" => place - First = Max({0, len0}) + fails
=============================================================================
