----------------------------- MODULE IntReport ------------------------------
(***************************************************************************)
(* c/os/5_03/2_54: for each of its files of ints, how many there are, the  *)
(* largest and the smallest, as text.    A character is its code minus that  *)
(* of '0', so that a digit is its value.  What is modelled is what the     *)
(* program writes: the text file is opened without O_TRUNC, and what a     *)
(* longer one held before stays behind the records.                        *)
(***************************************************************************)
EXTENDS Integers, Sequences, SequencesExt

CONSTANTS
  Contents,    (* the ints a file may hold: a set of sequences             *)
  Files,       (* bound: how many files there are                          *)
  BufferInts,  (* how many ints are read of a file                         *)
  MaxOpen,     (* how many files a process may have open                   *)
  IntMax,      (* the largest int                                          *)
  Garbage      (* ints that memory never written may hold                  *)

VARIABLES
  given,       (* what the files hold                                      *)
  opened,      (* how many were opened; none is closed before the end      *)
  report,      (* the records written: <<count, max, min>>, or Torn        *)
  exit         (* -1 while it runs, then its status                        *)

reportVars == <<given, opened, report, exit>>

Init ==
  /\ given \in UNION {[1 .. n -> Contents] : n \in 1 .. Files}
  /\ opened = 0 /\ report = <<>> /\ exit = -1

-----------------------------------------------------------------------------
Minus == -3    (* the code of '-'                                          *)
Wrap(n) == ((n + IntMax + 1) % (2 * (IntMax + 1))) - IntMax - 1
Remainder(n) == IF n < 0 THEN -((-n) % 10) ELSE n % 10
Quotient(n) == IF n < 0 THEN -((-n) \div 10) ELSE n \div 10

(* The digits of a number, the last one first, and none of zero.            *)
digits[n \in -IntMax - 1 .. IntMax] ==
  IF n = 0 THEN <<>> ELSE <<Remainder(n)>> \o digits[Quotient(n)]

(* A zero becomes a '\0': nothing of it is written.                         *)
int_to_str(n) ==
  Reverse(IF n < 0 THEN Append(digits[Wrap(-n)], Minus) ELSE digits[n])

Record(count, max, min) == <<int_to_str(count), int_to_str(max), int_to_str(min)>>

(* Of an empty file nothing gets into the buffer, whose first int is taken. *)
analyze_bin(ints, first) ==
  LET read == SubSeq(ints, 1, IF Len(ints) < BufferInts THEN Len(ints) ELSE BufferInts)
      start == IF read = <<>> THEN first ELSE read[1]
      Look(r, n) == IF n > r.max THEN [r EXCEPT !.max = n]
                    ELSE IF n < r.min THEN [r EXCEPT !.min = n] ELSE r
      found == FoldLeft(Look, [max |-> start, min |-> start], read)
  IN  Record(Len(read), found.max, found.min)

(* A record of which not every byte was written.                            *)
Torn == <<>>

(* The next file is opened, read and recorded.  Nobody looks at what the    *)
(* write() calls return: where one fails, the program goes on.              *)
OneFile ==
  /\ exit = -1 /\ opened < Len(given) /\ opened < MaxOpen
  /\ \E first \in Garbage :
       \E record \in {analyze_bin(given[opened + 1], first), Torn} :
         report' = Append(report, record)
  /\ opened' = opened + 1
  /\ UNCHANGED <<given, exit>>
OpenFails ==
  /\ exit = -1 /\ opened < Len(given) /\ exit' = 2
  /\ UNCHANGED <<given, opened, report>>
ReadFails ==
  /\ exit = -1 /\ opened < Len(given) /\ opened < MaxOpen /\ exit' = 3
  /\ opened' = opened + 1
  /\ UNCHANGED <<given, report>>
End ==
  /\ exit = -1 /\ opened = Len(given) /\ exit' = 0
  /\ UNCHANGED <<given, opened, report>>

Next == OneFile \/ OpenFails \/ ReadFails \/ End

Spec == Init /\ [][Next]_reportVars

-----------------------------------------------------------------------------
(* The number that a text stands for, an empty one for 0.                   *)
Number(chars) ==
  LET sign == IF chars # <<>> /\ chars[1] = Minus THEN -1 ELSE 1
  IN  sign * FoldLeft(LAMBDA n, c : 10 * n + c, 0, IF sign = -1 THEN Tail(chars) ELSE chars)
IsNumber(chars) ==
  chars = <<>> \/ (chars # <<Minus>> /\ \A i \in DOMAIN chars :
                     chars[i] \in 0 .. 9 \/ (i = 1 /\ chars[i] = Minus))

(* The records are those of the files in order, one for each when the exit  *)
(* status is 0, and never of more files than may be open at once.  A record *)
(* that was written whole, which the exit status does not tell, reads as    *)
(* the number, the maximum and the minimum of the first BufferInts ints;    *)
(* the smallest int comes out in characters that are no digits, and with a  *)
(* positive sum.  Of an empty file only the number is true.                 *)
ReportsAreExact ==
  /\ exit = 0 => Len(report) = Len(given) /\ Len(given) <= MaxOpen
  /\ \A i \in {k \in DOMAIN report : report[k] # Torn} :
       LET first == {given[i][k] : k \in {j \in DOMAIN given[i] : j <= BufferInts}}
           Says(chars, n) == IF n = -IntMax - 1 THEN ~IsNumber(chars) /\ Number(chars) = -n
                             ELSE IsNumber(chars) /\ Number(chars) = n
       IN  /\ Says(report[i][1], IF Len(given[i]) < BufferInts THEN Len(given[i]) ELSE BufferInts)
           /\ first # {} => /\ \E n \in first : Says(report[i][2], n) /\ \A k \in first : k <= n
                            /\ \E n \in first : Says(report[i][3], n) /\ \A k \in first : k >= n
=============================================================================
