---------------------------- MODULE MCItemTable ----------------------------
(* Commands of 2_55 on one table, or one join of tables by 2_56.            *)
EXTENDS ItemTable, TLC

CONSTANTS Files, Tables
VARIABLES disk, before, args, loop, pos, failed
J == INSTANCE ItemJoin

(* What 2_55 leaves in a file when no commands overlap: records of which    *)
(* no two have the same short name (ItemTable.ExactWhenAlone).              *)
OneOfEach(t) == \A n \in Short : \A i, j \in DOMAIN t : t[i].name = n /\ t[j].name = n => i = j
ASSUME TablesAssumption == \A t \in Tables : t \in Seq(Record) /\ OneOfEach(t)

Symmetry == Permutations(Procs) \union Permutations(Short)

Row(n, c) == [name |-> n, tail |-> 0, count |-> c]
MCTables ==
  {<<>>} \union {<<Row(e, 1), Row(e, 2)>> : e \in Full}
  \union {<<[Row(e, 1) EXCEPT !.tail = 2], Row(e, 1)>> : e \in Full}
  \union {<<Row(n, 1), Row(m, 2)>> : n \in Short, m \in Full}
  \union {<<Row(q[1], 1), Row(q[2], 3)>> : q \in {r \in Short \X Short : r[1] # r[2]}}

join == <<disk, before, args, loop, pos, failed>>
MCInit ==
  \/ /\ Init
     /\ disk = [f \in Files |-> <<>>] /\ before = disk /\ args = <<>>
     /\ loop = 4 /\ pos = 0 /\ failed = FALSE
  \/ /\ J!Init
     /\ table = <<>> /\ pc = [p \in Procs |-> "idle"] /\ cmd = [p \in Procs |-> "add"]
     /\ \E n \in Full : item = [p \in Procs |-> n]
     /\ off = [p \in Procs |-> 0] /\ seen = [p \in Procs |-> 0]
     /\ answer = [p \in Procs |-> None] /\ misread = FALSE /\ runs = 0
     /\ adds = [n \in Names |-> 0] /\ overlapped = FALSE
MCNext ==
  \/ loop = 4 /\ Next /\ UNCHANGED join
  \/ J!Next /\ UNCHANGED vars
MCSpec == MCInit /\ [][MCNext]_<<vars, join>>

(* ItemJoin.JoinAdds: a join holds what its inputs held.                    *)
JoinAdds == J!JoinAdds
=============================================================================
