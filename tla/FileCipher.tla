----------------------------- MODULE FileCipher -----------------------------
(***************************************************************************)
(* c/os/5_06: a file is encrypted in place, block by block: read, seek     *)
(* back, write.  The same key decrypts it.  Several commands may run on    *)
(* one file, one after the other or at once, and any may be killed.  What  *)
(* a byte holds is the set of the keys it is encrypted with.               *)
(***************************************************************************)
EXTENDS Integers, Sequences, FiniteSets, FiniteSetsExt

CONSTANTS
  Cmds,        (* the commands, numbered in the order in which they start  *)
  Keys,        (* the keys                                                 *)
  Given,       (* the ways they may be given: functions from Cmds to Keys  *)
  Length,      (* the length of the file                                   *)
  buf_size     (* the bytes a command reads at once                        *)

VARIABLES
  data,        (* the file                                                 *)
  key,         (* each command's key                                       *)
  pc,          (* "new", "read", "seek", "write", "done", "failed", "killed" *)
  pos,         (* each command's place in the file                         *)
  block,       (* each command's buffer                                    *)
  wrote,       (* history: how far each command has written                *)
  overlapped   (* history: two commands have run at once                   *)

cipherVars == <<data, key, pc, pos, block, wrote, overlapped>>

Init ==
  /\ data = [i \in 1 .. Length |-> {}]
  /\ key \in Given
  /\ pc = [p \in Cmds |-> "new"] /\ pos = [p \in Cmds |-> 0]
  /\ block = [p \in Cmds |-> <<>>] /\ wrote = [p \in Cmds |-> 0]
  /\ overlapped = FALSE

-----------------------------------------------------------------------------
Running(p) == pc[p] \in {"read", "seek", "write"}

Start(p) ==
  /\ pc[p] = "new" /\ \A q \in Cmds : q < p => pc[q] # "new"
  /\ pc' = [pc EXCEPT ![p] = "read"]
  /\ overlapped' = (overlapped \/ \E q \in Cmds : Running(q))
  /\ UNCHANGED <<data, key, pos, block, wrote>>

Read(p) ==
  LET n == Min({buf_size, Length - pos[p]}) IN
  /\ pc[p] = "read"
  /\ pc' = [pc EXCEPT ![p] = IF n = 0 THEN "done" ELSE "seek"]
  /\ block' = [block EXCEPT ![p] = SubSeq(data, pos[p] + 1, pos[p] + n)]
  /\ pos' = [pos EXCEPT ![p] = @ + n]
  /\ UNCHANGED <<data, key, wrote, overlapped>>
ReadFails(p) ==
  /\ pc[p] = "read" /\ pc' = [pc EXCEPT ![p] = "failed"]
  /\ UNCHANGED <<data, key, pos, block, wrote, overlapped>>

Xor(byte, k) == IF k \in byte THEN byte \ {k} ELSE byte \cup {k}
encrypt_data(bytes, k) == [i \in DOMAIN bytes |-> Xor(bytes[i], k)]
(* The variant seeks by one buffer, not by what was read.                   *)
MutSeek(p) ==
  /\ pc[p] = "seek" /\ pc' = [pc EXCEPT ![p] = "write"]
  /\ block' = [block EXCEPT ![p] = encrypt_data(@, key[p])]
  /\ pos' = [pos EXCEPT ![p] = Max({0, @ - buf_size})]
  /\ UNCHANGED <<data, key, wrote, overlapped>>
Seek(p) ==
  /\ pc[p] = "seek" /\ pc' = [pc EXCEPT ![p] = "write"]
  /\ block' = [block EXCEPT ![p] = encrypt_data(@, key[p])]
  /\ pos' = [pos EXCEPT ![p] = @ - Len(block[p])]
  /\ UNCHANGED <<data, key, wrote, overlapped>>

Write(p) ==
  LET end == pos[p] + Len(block[p]) IN
  /\ pc[p] = "write" /\ pc' = [pc EXCEPT ![p] = "read"]
  /\ data' = [i \in 1 .. Length |->
                IF pos[p] < i /\ i <= end THEN block[p][i - pos[p]] ELSE data[i]]
  /\ pos' = [pos EXCEPT ![p] = end]
  /\ wrote' = [wrote EXCEPT ![p] = end]
  /\ UNCHANGED <<key, block, overlapped>>

Kill(p) ==
  /\ Running(p) /\ pc' = [pc EXCEPT ![p] = "killed"]
  /\ UNCHANGED <<data, key, pos, block, wrote, overlapped>>

Next == \E p \in Cmds :
          Start(p) \/ Read(p) \/ ReadFails(p) \/ Seek(p) \/ Write(p) \/ Kill(p)

Spec == Init /\ [][Next]_cipherVars

-----------------------------------------------------------------------------
(* What the commands together should have made of a byte.                   *)
Sum(cmds) == {k \in Keys : Cardinality({p \in cmds : key[p] = k}) % 2 = 1}
Writers(i) == {p \in Cmds : wrote[p] >= i}

(* Unless commands ran at once, each byte is encrypted with the keys of     *)
(* just the commands that came that far, so that a second command with the  *)
(* same key restores what the first has done, also where one was killed; a  *)
(* command that is done came to the end.  If they ran at once, some of      *)
(* those that wrote a byte may be lost, but not all.                        *)
CipherIsExact ==
  /\ \A i \in 1 .. Length :
       /\ ~overlapped => data[i] = Sum(Writers(i))
       /\ Writers(i) # {} =>
            \E cmds \in SUBSET Writers(i) : cmds # {} /\ data[i] = Sum(cmds)
       /\ Writers(i) = {} => data[i] = {}
  /\ \A p \in Cmds : pc[p] = "done" => wrote[p] = Length
=============================================================================
