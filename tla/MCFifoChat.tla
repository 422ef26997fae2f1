----------------------------- MODULE MCFifoChat -----------------------------
(* One side is started twice, the other once: the sides' code is the same.  *)
EXTENDS FifoChat, TLC

Restarts == [p \in Sides |-> IF p = "A" THEN 2 ELSE 1]
=============================================================================
