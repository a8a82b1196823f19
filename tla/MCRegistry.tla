----------------------------- MODULE MCRegistry -----------------------------
(***************************************************************************)
(* Instances of Registry for TLC: every command is for every slave, ".".   *)
(***************************************************************************)
EXTENDS Registry, TLC

Everyone == [c \in Cmd |-> Slave]

(* Slaves, addresses and commands are alike; for safety only.              *)
Alike == Permutations(Slave) \cup Permutations(Addr) \cup Permutations(Cmd)
=============================================================================
