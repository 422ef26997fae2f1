------------------------------ MODULE Prompts -------------------------------
(***************************************************************************)
(* The programs that ask one question: c/os/5_33 for a password, with the  *)
(* terminal's echo switched off, and c/networks/6_09 for a name, with a    *)
(* time-out.  A line is the sequence of its characters; one that is not    *)
(* ended has no "\n" at its end.                                           *)
(***************************************************************************)
EXTENDS Integers, SequencesExt

CONSTANTS
  Secrets,     (* what the password file may hold                          *)
  Lines,       (* what may be typed; <<>> is the end of the input          *)
  buff,        (* 5_33: the length of its buffer                           *)
  bufsize      (* 6_09: the length of its buffer                           *)

VARIABLES
  asks,        (* the program                                              *)
  moment,      (* "start", "asked", "read" or "over"                       *)
  secret,      (* the password file                                        *)
  line,        (* what was typed                                           *)
  got,         (* what the program has of it in its buffer                 *)
  echo,        (* the terminal echoes                                      *)
  result       (* how it ended                                             *)

promptVars == <<asks, moment, secret, line, got, echo, result>>

Init ==
  /\ \/ asks = "5_33" /\ secret \in Secrets
     \/ asks = "6_09" /\ secret = <<>>
  /\ moment = "start" /\ line = <<>> /\ got = <<>> /\ echo = TRUE /\ result = ""

Over(r) == moment' = "over" /\ result' = r
FirstOf(s, n) == SubSeq(s, 1, IF Len(s) < n THEN Len(s) ELSE n)

-----------------------------------------------------------------------------
(* The password file cannot be opened, or the echo is switched off.         *)
OpenFails ==
  /\ asks = "5_33" /\ moment = "start" /\ Over("no file")
  /\ UNCHANGED <<asks, secret, line, got, echo>>
EchoOff ==
  /\ asks = "5_33" /\ moment = "start" /\ moment' = "asked" /\ echo' = FALSE
  /\ UNCHANGED <<asks, secret, line, got, result>>

(* fgets() leaves room for the zero; without a line the program leaves at   *)
(* once.                                                                    *)
Fgets ==
  /\ asks = "5_33" /\ moment = "asked" /\ line' \in Lines
  /\ IF line' = <<>> THEN Over("no line") /\ UNCHANGED <<got, echo>>
     ELSE /\ moment' = "read" /\ got' = FirstOf(line', buff - 1) /\ echo' = TRUE
          /\ UNCHANGED result
  /\ UNCHANGED <<asks, secret>>

(* The file's characters are compared with the buffer's up to a line's end  *)
(* in the file, which the buffer must have in the same place.  The end of   *)
(* the file is a character that the buffer has not.                         *)
Expected(i) == IF i <= Len(secret) THEN secret[i] ELSE "EOF"
TypedChar(i) == IF i <= Len(got) THEN got[i] ELSE "NUL"
check_password ==
  \E n \in 1 .. Len(got) : /\ Expected(n) = "\n" /\ TypedChar(n) = "\n"
                           /\ \A i \in 1 .. n - 1 : Expected(i) # "\n" /\ Expected(i) = TypedChar(i)
Check ==
  /\ asks = "5_33" /\ moment = "read"
  /\ Over(IF check_password THEN "right" ELSE "wrong")
  /\ UNCHANGED <<asks, secret, line, got, echo>>

(* 6_09: select() ends by a signal, by the time or by input.  One character *)
(* is taken off what read() returns; before the first one at the end of the *)
(* input, which is not this buffer any more.                                *)
Interrupted ==
  /\ asks = "6_09" /\ moment = "start" /\ Over("interrupted")
  /\ UNCHANGED <<asks, secret, line, got, echo>>
Timeout ==
  /\ asks = "6_09" /\ moment = "start" /\ Over("busy")
  /\ UNCHANGED <<asks, secret, line, got, echo>>
Answer ==
  /\ asks = "6_09" /\ moment = "start" /\ line' \in Lines
  /\ IF line' = <<>> THEN Over("undefined") /\ UNCHANGED got
     ELSE Over("meet") /\ got' = Front(FirstOf(line', bufsize))
  /\ UNCHANGED <<asks, secret, echo>>

(* Ctrl-C.                                                                  *)
Kill ==
  /\ moment # "over" /\ Over("killed")
  /\ UNCHANGED <<asks, secret, line, got, echo>>

Next == \/ OpenFails \/ EchoOff \/ Fgets \/ Check
        \/ Interrupted \/ Timeout \/ Answer \/ Kill

Spec == Init /\ [][Next]_promptVars

-----------------------------------------------------------------------------
(* A password is right just when it is the first line of the file, with its *)
(* line's end, and fits into the buffer.  The terminal echoes again when    *)
(* the program is over, unless it ended while it waited for the line: by    *)
(* Ctrl-C or at the end of the input.  A name is the line without its end,  *)
(* unless it is too long.                                                   *)
Ended(s) == s # <<>> /\ Last(s) = "\n"
PromptsAsAsked ==
  /\ result = "right" => Ended(line) /\ IsPrefix(line, secret) /\ Len(line) < buff
  /\ result = "wrong" => ~(Ended(line) /\ IsPrefix(line, secret)) \/ Len(line) >= buff
  /\ moment = "over" /\ ~echo => result \in {"no line", "killed"}
  /\ result = "meet" /\ Ended(line) /\ Len(line) <= bufsize => Append(got, "\n") = line
=============================================================================
