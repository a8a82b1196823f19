------------------------------ MODULE Transfer ------------------------------
(***************************************************************************)
(* What the transfer of a request's files down a chain of nodes promises:  *)
(* a node gets all of them or learns that it will not; it gets them only   *)
(* after the node above has them; it keeps them.  They are as the master   *)
(* has them, but for those that were torn on their way.  Nothing mends a   *)
(* torn file further down.                                                 *)
(***************************************************************************)
EXTENDS Naturals

CONSTANTS Hops, Name

VARIABLES
  node,  \* of each: without the files, with them, or failed
  torn   \* of each: the files it has got other than whole

Node == 1..Hops

Init ==
  /\ node = [h \in Node |-> "without"]
  /\ torn = [h \in Node |-> {}]

Deliver(h) ==
  /\ node[h] = "without"
  /\ h > 1 => node[h - 1] = "with"
  /\ node' = [node EXCEPT ![h] = "with"]
  /\ \E files \in SUBSET Name :
       /\ h > 1 => torn[h - 1] \subseteq files
       /\ torn' = [torn EXCEPT ![h] = files]

Fail(h) ==
  /\ node[h] = "without"
  /\ node' = [node EXCEPT ![h] = "failed"]
  /\ UNCHANGED torn

Next == \E h \in Node : Deliver(h) \/ Fail(h)

Spec == Init /\ [][Next]_<<node, torn>>
=============================================================================
