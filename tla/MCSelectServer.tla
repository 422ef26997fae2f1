--------------------------- MODULE MCSelectServer ---------------------------
(* Inputs for TLC: streams cut up token by token, and whole lines. *)
EXTENDS SelectServer, TLC

ByToken == {<<"up">>, <<"LF">>, <<"EOT">>}
ByLine == {<<"up", "LF">>, <<"down", "LF">>, <<"show", "CR", "LF">>, <<"junk", "LF">>, <<"LF">>}

(* One client sends more than the other: the longer one meets the length    *)
(* limit, the other one what a reused descriptor may leave behind.          *)
First == CHOOSE c \in Clients : TRUE
Uneven == [c \in Clients |-> IF c = First THEN 3 ELSE 1]
Even == [c \in Clients |-> 4]
=============================================================================
