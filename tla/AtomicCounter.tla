--------------------------- MODULE AtomicCounter ---------------------------
(***************************************************************************)
(* What the counter server of c/networks/6_13.c promises to a client that  *)
(* sends one whole line at a time: every request is executed once, in one  *)
(* indivisible step, on one counter that all the clients share.            *)
(***************************************************************************)
EXTENDS Integers, Sequences

CONSTANT Clients

Requests == {"unknown", "up", "down", "show"}

VARIABLES
  count,    (* the shared counter                                 *)
  pending,  (* per client, the request it has sent, or "none"     *)
  replies   (* per client, the replies sent to it, oldest first   *)

vars == <<count, pending, replies>>

Init ==
  /\ count = 0
  /\ pending = [c \in Clients |-> "none"]
  /\ replies = [c \in Clients |-> <<>>]

Submit(c) ==
  /\ pending[c] = "none"
  /\ \E r \in Requests : pending' = [pending EXCEPT ![c] = r]
  /\ UNCHANGED <<count, replies>>

(* "up" and "down" are silent, "show" is answered with the counter. *)
Execute(c) ==
  /\ pending[c] # "none"
  /\ pending' = [pending EXCEPT ![c] = "none"]
  /\ count' = CASE pending[c] = "up"   -> count + 1
                [] pending[c] = "down" -> count - 1
                [] OTHER               -> count
  /\ replies' = CASE pending[c] = "show" ->
                       [replies EXCEPT ![c] = Append(@, <<"count", count>>)]
                  [] pending[c] = "unknown" ->
                       [replies EXCEPT ![c] = Append(@, <<"unknown", 0>>)]
                  [] OTHER -> replies

Next == \E c \in Clients : Submit(c) \/ Execute(c)

Spec == Init /\ [][Next]_vars /\ \A c \in Clients : WF_vars(Execute(c))
=============================================================================
