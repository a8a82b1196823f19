---------------------------- MODULE CommandSpec -----------------------------
(***************************************************************************)
(* What "gproc e" promises, without daemons, processes or connections: a   *)
(* command spreads over the tree as a set of open delegations, a node is   *)
(* only ever asked by a node that was itself asked and is still at it, a   *)
(* node is done with its part no earlier than every node it asked, and the *)
(* command finishes when the first-level nodes are done with theirs.       *)
(***************************************************************************)
CONSTANTS
  Cmd,         \* commands
  Delegation,  \* requests to one node on behalf of one command
  Owner,       \* Owner[d] is the command of delegation d
  Bosses       \* Bosses[d] are the delegations between d and the master

(* The delegations of a command form a forest: every one that is not at    *)
(* the first level has a first-level one of the same command above it.     *)
Forest ==
  /\ Owner \in [Delegation -> Cmd]
  /\ Bosses \in [Delegation -> SUBSET Delegation]
  /\ \A d \in Delegation : Bosses[d] # {} =>
       \E r \in Bosses[d] : Bosses[r] = {} /\ Owner[r] = Owner[d]

VARIABLES
  phase,       \* of each command, as its user sees it
  used,        \* delegations made so far
  open         \* those that are still being worked on

vars == <<phase, used, open>>

Of(c)    == {d \in Delegation : Owner[d] = c}
Roots(c) == {d \in Of(c) : Bosses[d] = {}}

TypeOK ==
  /\ phase \in [Cmd -> {"idle", "sent", "done", "abandoned"}]
  /\ used \in SUBSET Delegation
  /\ open \in SUBSET used

Init ==
  /\ phase = [c \in Cmd |-> "idle"]
  /\ used = {}
  /\ open = {}

Issue(c) ==
  /\ phase[c] = "idle"
  /\ phase' = [phase EXCEPT ![c] = "sent"]
  /\ UNCHANGED <<used, open>>

(* A first-level node is asked by the master, any other node by a node     *)
(* whose own part is still open.                                           *)
Delegate(d) ==
  /\ d \notin used
  /\ phase[Owner[d]] \in {"sent", "abandoned"}
  /\ Bosses[d] \subseteq open
  /\ used' = used \cup {d}
  /\ open' = open \cup {d}
  /\ UNCHANGED phase

(* Below a delegation its command has given up on, nodes may still go on   *)
(* asking others; the command never learns of it.                          *)
DelegateUnseen(d) ==
  /\ d \notin used
  /\ Bosses[d] \subseteq used /\ ~ (Bosses[d] \subseteq open)
  /\ used' = used \cup {d}
  /\ UNCHANGED <<phase, open>>

(* Delegations come to rest, never above one that is still open: one that  *)
(* fails takes with it all that is below.                                  *)
Retire(S) ==
  /\ S \subseteq open /\ S # {}
  /\ \A d \in open : Bosses[d] \cap S # {} => d \in S
  /\ open' = open \ S
  /\ UNCHANGED <<phase, used>>

(* The command is over when no first-level delegation is open.             *)
Finish(c) ==
  /\ phase[c] = "sent"
  /\ Roots(c) \cap open = {}
  /\ phase' = [phase EXCEPT ![c] = "done"]
  /\ UNCHANGED <<used, open>>

Abandon(c) ==
  /\ phase[c] = "sent"
  /\ phase' = [phase EXCEPT ![c] = "abandoned"]
  /\ UNCHANGED <<used, open>>

Next ==
  \/ \E c \in Cmd : Issue(c) \/ Finish(c) \/ Abandon(c)
  \/ \E d \in Delegation : Delegate(d) \/ DelegateUnseen(d)
  \/ \E S \in SUBSET open : Retire(S)

Spec == Init /\ [][Next]_vars

-----------------------------------------------------------------------------
(* Work is only going on below work that is going on, so a finished        *)
(* command has nothing open anywhere.                                      *)
Rooted    == \A d \in open : Bosses[d] \subseteq open
Quiescent == \A c \in Cmd : phase[c] = "done" => Of(c) \cap open = {}
=============================================================================
