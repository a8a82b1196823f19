--------------------------- MODULE ExecRefinement ---------------------------
(***************************************************************************)
(* The processes and connections of Exec implement CommandSpec, for every  *)
(* tree, every set of commands and every choice of faults.                 *)
(***************************************************************************)
EXTENDS ExecProofs

-----------------------------------------------------------------------------
(* Two more invariants: nothing happens for a command nobody sent, and     *)
(* whoever was reached was reached through the nodes above it.             *)

IdleInv  == \A c \in Cmd : client[c] = "idle" => serve[c] = "idle"
ChainInv == \A t \in Task : Reached(t) =>
              client[CmdOf(t)] # "idle" /\ \A a \in Over(t) : Reached(a)

RInv == IInv /\ IdleInv /\ ChainInv

LEMMA IdleStep == TypeOK /\ IdleInv /\ [Next]_vars => IdleInv'
<1> SUFFICES ASSUME TypeOK, IdleInv, [Next]_vars PROVE IdleInv'
  OBVIOUS
<1> USE DEF clientVars, masterVars, daemonVars, relayVars, taskVars, ChildVarsBut
<1>1. ASSUME NEW c \in Cmd, ClientSend(c) PROVE IdleInv'
  BY <1>1 DEF TypeOK, IdleInv, ClientSend
<1>2. ASSUME NEW c \in Cmd, ClientResp(c) PROVE IdleInv'
  BY <1>2 DEF TypeOK, IdleInv, ClientResp
<1>3. ASSUME NEW c \in Cmd, ClientDone(c) PROVE IdleInv'
  BY <1>3 DEF TypeOK, IdleInv, ClientDone
<1>4. ASSUME NEW c \in Cmd, ClientKilled(c) PROVE IdleInv'
  BY <1>4 DEF TypeOK, IdleInv, ClientKilled
<1>5. ASSUME NEW c \in Cmd, MasterRecv(c) PROVE IdleInv'
  BY <1>5 DEF TypeOK, IdleInv, MasterRecv
<1>6. ASSUME NEW c \in Cmd, MasterReply(c) PROVE IdleInv'
  BY <1>6 DEF TypeOK, IdleInv, MasterReply
<1>7. CASE UNCHANGED <<client, serve>>
  BY <1>7 DEF TypeOK, IdleInv
<1>8. ASSUME NEW c \in Cmd, NEW t \in Task, ClientCount(c, t) \/ MasterDial(c, t)
      PROVE  UNCHANGED <<client, serve>>
  BY <1>8 DEF ClientCount, MasterDial
<1>9. ASSUME NEW n \in Node, DaemonStep(n) \/ DaemonDies(n) PROVE UNCHANGED <<client, serve>>
  BY <1>9 DEF DaemonStep, DaemonAccept, DaemonReply, DaemonReap, DaemonDies
<1>a. ASSUME NEW t \in Task, ChildStep(t) PROVE UNCHANGED <<client, serve>>
  BY <1>a DEF ChildStep, ChildRecv, ChildDial, ChildParse, ChildLosesDaemon, RelayDone,
              ChildExit, RelayDial, ChildCount
<1>b. ASSUME NEW t \in Task,
             \/ SendReq(t) \/ IoEof(t) \/ ProgStart(t) \/ ProgFails(t) \/ ProgExit(t)
             \/ ChildPanics(t)
      PROVE  UNCHANGED <<client, serve>>
  BY <1>b DEF SendReq, IoEof, ProgStart, ProgFails, ProgExit, ChildPanics
<1>c. CASE UNCHANGED vars
  BY <1>7, <1>c DEF vars
<1>d. ASSUME NEW c \in Cmd, ClientSend(c) \/ ClientStep(c) \/ MasterStep(c) \/ ClientKilled(c)
      PROVE  IdleInv'
  <2>1. ASSUME NEW t \in Task, ClientCount(c, t) \/ MasterDial(c, t) PROVE IdleInv'
    BY <1>7, <1>8, <2>1
  <2>2. ASSUME MasterGroup(c) PROVE IdleInv'
    <3>1. UNCHANGED <<client, serve>>
      BY <2>2 DEF MasterGroup
    <3> QED BY <1>7, <3>1
  <2> QED BY <1>1, <1>2, <1>3, <1>4, <1>5, <1>6, <1>d, <2>1, <2>2 DEF ClientStep, MasterStep
<1>e. ASSUME NEW n \in Node, NEW t \in Task, DaemonPipeClosed(n, t)
      PROVE  UNCHANGED <<client, serve>>
  BY <1>e DEF DaemonPipeClosed
<1> QED BY <1>7, <1>9, <1>a, <1>b, <1>c, <1>d, <1>e DEF Next

LEMMA ChainStep == RInv /\ [Next]_vars => ChainInv'
<1> SUFFICES ASSUME RInv, [Next]_vars, NEW t \in Task, Reached(t)'
             PROVE  client'[CmdOf(t)] # "idle" /\ \A a \in Over(t) : Reached(a)'
  BY DEF ChainInv
<1>0. TypeOK /\ TreeInv /\ ServeInv
  BY DEF RInv, IInv
<1>1. Moves(t) /\ \A a \in Over(t) : Moves(a)
  BY <1>0, MovesStep, OverFacts
<1>2. CmdOf(t) \in Cmd
  BY TaskParts
<1>3. client[CmdOf(t)] # "idle" => client'[CmdOf(t)] # "idle"
  BY <1>0, <1>2, ClientMoves
  DEF ClientSend, ClientResp, ClientDone, ClientKilled, TypeOK
<1>4. CASE Reached(t)
  BY <1>1, <1>3, <1>4 DEF RInv, ChainInv, Moves
<1>5. ASSUME NEW c \in Cmd, MasterDial(c, t)
      PROVE  client[CmdOf(t)] # "idle" /\ \A a \in Over(t) : Reached(a)
  BY <1>0, <1>5, MasterDialFacts, OverFacts DEF RInv, IdleInv
<1>6. ASSUME NEW u \in Task, RelayDial(u, t)
      PROVE  client[CmdOf(t)] # "idle" /\ \A a \in Over(t) : Reached(a)
  <2>1. Over(t) = {u} \cup Over(u) /\ CmdOf(t) = CmdOf(u)
    BY <1>0, <1>6, RelayDialFacts, UpFacts
  <2>2. Reached(u)
    BY <1>6 DEF RelayDial, Reached
  <2> QED BY <2>1, <2>2 DEF RInv, ChainInv
<1> QED BY <1>1, <1>3, <1>4, <1>5, <1>6 DEF Moves, Dialled

LEMMA RInvStep == RInv /\ [Next]_vars => RInv'
<1>1. IInv => TypeOK
  BY DEF IInv
<1> QED BY <1>1, IInvStep, IdleStep, ChainStep DEF RInv

LEMMA RInvInit == Init => RInv
BY IInvInit DEF Init, RInv, IdleInv, ChainInv, Reached

-----------------------------------------------------------------------------
(* The refinement mapping, by name.                                        *)

AbsPhase == [c \in Cmd |-> CASE client[c] \in {"sent", "waiting"} -> "sent"
                             [] client[c] = "killed" -> "abandoned"
                             [] OTHER -> client[c]]
AbsUsed  == {t \in Task : Reached(t)}
AbsOpen  == {t \in Task : Open(t)}

LEMMA Mapping ==
  /\ Abs!Init <=> AbsPhase = [c \in Cmd |-> "idle"] /\ AbsUsed = {} /\ AbsOpen = {}
  /\ UNCHANGED <<AbsPhase, AbsUsed, AbsOpen>> => UNCHANGED Abs!vars
  /\ \A c \in Cmd : Abs!Issue(c) <=>
       /\ AbsPhase[c] = "idle" /\ AbsPhase' = [AbsPhase EXCEPT ![c] = "sent"]
       /\ UNCHANGED <<AbsUsed, AbsOpen>>
  /\ \A c \in Cmd : Abs!Abandon(c) <=>
       /\ AbsPhase[c] = "sent" /\ AbsPhase' = [AbsPhase EXCEPT ![c] = "abandoned"]
       /\ UNCHANGED <<AbsUsed, AbsOpen>>
  /\ \A c \in Cmd : Abs!Finish(c) <=>
       /\ AbsPhase[c] = "sent" /\ Abs!Roots(c) \cap AbsOpen = {}
       /\ AbsPhase' = [AbsPhase EXCEPT ![c] = "done"]
       /\ UNCHANGED <<AbsUsed, AbsOpen>>
BY DEF Abs!Init, Abs!vars, Abs!Issue, Abs!Abandon, Abs!Finish,
       AbsPhase, AbsUsed, AbsOpen, Open, Reached

LEMMA MappingDelegation ==
  ASSUME NEW d \in Task
  PROVE  /\ Abs!Delegate(d) <=>
              /\ d \notin AbsUsed /\ AbsPhase[CmdOf(d)] \in {"sent", "abandoned"}
              /\ Over(d) \subseteq AbsOpen
              /\ AbsUsed' = AbsUsed \cup {d} /\ AbsOpen' = AbsOpen \cup {d}
              /\ UNCHANGED AbsPhase
         /\ Abs!DelegateUnseen(d) <=>
              /\ d \notin AbsUsed
              /\ Over(d) \subseteq AbsUsed /\ ~ (Over(d) \subseteq AbsOpen)
              /\ AbsUsed' = AbsUsed \cup {d}
              /\ UNCHANGED <<AbsPhase, AbsOpen>>
BY DEF Abs!Delegate, Abs!DelegateUnseen, AbsPhase, AbsUsed, AbsOpen, Open, Reached

LEMMA MappingRetire ==
  ASSUME NEW S \in SUBSET AbsOpen
  PROVE  Abs!Retire(S) <=>
              /\ S # {} /\ \A d \in AbsOpen : Over(d) \cap S # {} => d \in S
              /\ AbsOpen' = AbsOpen \ S
              /\ UNCHANGED <<AbsPhase, AbsUsed>>
<1>1. \A d \in AbsOpen : d \in Task
  BY DEF AbsOpen
<1> QED BY <1>1 DEF Abs!Retire, AbsPhase, AbsUsed, AbsOpen, Open, Reached

LEMMA MappingNext ==
  /\ \A c \in Cmd : Abs!Issue(c) \/ Abs!Finish(c) \/ Abs!Abandon(c) => Abs!Next
  /\ \A d \in Task : Abs!Delegate(d) \/ Abs!DelegateUnseen(d) => Abs!Next
  /\ \A S \in SUBSET AbsOpen : Abs!Retire(S) => Abs!Next
BY DEF Abs!Next, AbsOpen, Open, Reached

-----------------------------------------------------------------------------
(* Steps.                                                                  *)

(* Everything above an open delegation is open.                            *)
LEMMA OpenAbove ==
  TypeOK /\ RootedInv => \A t \in Task : Open(t) => \A a \in Over(t) : a \in Task /\ Open(a)
<1> SUFFICES ASSUME TypeOK, RootedInv, NEW t \in Task, Open(t), NEW a \in Over(t)
             PROVE  a \in Task /\ Open(a)
  OBVIOUS
<1>1. a \in Task
  BY OverFacts
<1>2. Over(a) \subseteq Over(t)
  BY TaskParts, TaskOf, TreeAssumption DEF Over
<1>3. child[a] \in Relaying
  BY DEF RootedInv
<1> QED BY <1>1, <1>2, <1>3 DEF Open, Orphan, Busy, Relaying, Running

(* A step that dials nobody only takes delegations out of the open set.    *)
LEMMA Retiring ==
  ASSUME RInv, RInv', [Next]_vars, \A t \in Task : ~ Dialled(t)
  PROVE  /\ AbsUsed' = AbsUsed /\ AbsOpen' \subseteq AbsOpen
         /\ UNCHANGED AbsPhase => Abs!Next \/ UNCHANGED Abs!vars
<1>1. \A t \in Task : Moves(t)
  BY MovesStep DEF RInv, IInv
<1>2. AbsUsed' = AbsUsed
  BY <1>1 DEF AbsUsed, Moves
<1>3. \A t \in Task : Open(t)' => Open(t)
  BY <1>1, OverFacts DEF Open, Orphan, Moves
<1>4. AbsOpen' \subseteq AbsOpen
  BY <1>3 DEF AbsOpen
<1>5. \A t \in Task : Open(t)' => \A a \in Over(t) : a \in Task /\ Open(a)'
  <2>1. (TypeOK /\ RootedInv)'
    BY DEF RInv, IInv
  <2>2. (TypeOK /\ RootedInv =>
           \A t \in Task : Open(t) => \A a \in Over(t) : a \in Task /\ Open(a))'
    BY OpenAbove, PTL
  <2> QED BY <2>1, <2>2
<1>6. ASSUME UNCHANGED AbsPhase, AbsOpen' # AbsOpen PROVE Abs!Next
  <2> DEFINE S == AbsOpen \ AbsOpen'
  <2>1. S \in SUBSET AbsOpen /\ S # {} /\ AbsOpen' = AbsOpen \ S
    BY <1>4, <1>6
  <2>2. ASSUME NEW d \in AbsOpen, d \notin S PROVE Over(d) \cap S = {}
    <3>1. d \in Task /\ Open(d)'
      BY <2>2 DEF AbsOpen
    <3>2. \A a \in Over(d) : a \in Task /\ Open(a)'
      BY <3>1, <1>5
    <3> QED BY <3>2 DEF AbsOpen
  <2> HIDE DEF S
  <2>3. Abs!Retire(S)
    BY <2>1, <2>2, <1>2, <1>6, MappingRetire
  <2> QED BY <2>1, <2>3, MappingNext
<1> QED BY <1>2, <1>4, <1>6, Mapping

LEMMA MasterDialRefines ==
  ASSUME RInv, NEW c \in Cmd, NEW t \in Task, MasterDial(c, t)
  PROVE  Abs!Next \/ UNCHANGED Abs!vars
<1>0. TypeOK /\ ServeInv
  BY DEF RInv, IInv
<1>1. /\ TopLevel(t) /\ ~ Reached(t) /\ CmdOf(t) = c /\ serve[c] = "serving"
      /\ Over(t) = {}
  BY <1>0, MasterDialFacts, OverFacts
<1>2. UNCHANGED <<client, prog>> /\ UNCHANGED AbsPhase
  BY DEF MasterDial, clientVars, AbsPhase
<1>3. CASE daemon[NodeOf(t)] = "dead"
  <2>1. UNCHANGED child
    BY <1>3 DEF MasterDial
  <2>2. UNCHANGED <<AbsUsed, AbsOpen>>
    BY <2>1, <1>2 DEF AbsUsed, AbsOpen, Reached, Open, Busy, Orphan
  <2> QED BY <2>2, <1>2, Mapping
<1>4. CASE daemon[NodeOf(t)] # "dead"
  <2>1. child' = [child EXCEPT ![t] = "queued"]
    BY <1>4 DEF MasterDial, Delegate
  <2>2. AbsUsed' = AbsUsed \cup {t} /\ t \notin AbsUsed
    BY <1>0, <1>1, <2>1 DEF AbsUsed, Reached, TypeOK
  <2>3. \A v \in Task : Orphan(v)' <=> Orphan(v)
    BY <1>0, <1>1, <2>1, OverFacts DEF Orphan, TypeOK, Reached
  <2>4. \A v \in Task : v # t => (Busy(v)' <=> Busy(v))
    BY <1>0, <1>2, <2>1 DEF Busy, TypeOK
  <2>5. Open(t)'
    BY <1>0, <1>1, <2>1 DEF Open, Busy, Orphan, TypeOK
  <2>6. AbsOpen' = AbsOpen \cup {t}
    BY <2>3, <2>4, <2>5 DEF AbsOpen, Open
  <2>7. AbsPhase[c] \in {"sent", "abandoned"}
    BY <1>0, <1>1 DEF AbsPhase, TypeOK, ClientPhase, ServeInv, RInv, IdleInv
  <2>8. Abs!Delegate(t)
    BY <1>1, <1>2, <2>2, <2>6, <2>7, MappingDelegation
  <2> QED BY <2>8, MappingNext
<1> QED BY <1>3, <1>4

LEMMA RelayDialRefines ==
  ASSUME RInv, NEW t \in Task, NEW u \in Task, RelayDial(t, u)
  PROVE  Abs!Next \/ UNCHANGED Abs!vars
<1>0. TypeOK /\ TreeInv /\ RootedInv /\ DoneInv
  BY DEF RInv, IInv
<1>1. /\ ~ TopLevel(u) /\ ~ Reached(u) /\ Over(u) = {t} \cup Over(t) /\ CmdOf(u) = CmdOf(t)
  BY <1>0, RelayDialFacts, UpFacts
<1>2. UNCHANGED <<client, prog>> /\ UNCHANGED AbsPhase
  BY DEF RelayDial, clientVars, AbsPhase
<1>3. CASE daemon[NodeOf(u)] = "dead"
  <2>1. UNCHANGED child
    BY <1>3 DEF RelayDial
  <2>2. UNCHANGED <<AbsUsed, AbsOpen>>
    BY <2>1, <1>2 DEF AbsUsed, AbsOpen, Reached, Open, Busy, Orphan
  <2> QED BY <2>2, <1>2, Mapping
<1>4. CASE daemon[NodeOf(u)] # "dead"
  <2>1. child' = [child EXCEPT ![u] = "queued"] /\ child[t] = "relay"
    BY <1>4 DEF RelayDial, Delegate
  <2>2. AbsUsed' = AbsUsed \cup {u} /\ u \notin AbsUsed
    BY <1>0, <1>1, <2>1 DEF AbsUsed, Reached, TypeOK
  <2>3. \A v \in Task : Orphan(v)' <=> Orphan(v)
    BY <1>0, <1>1, <2>1, OverFacts DEF Orphan, TypeOK, Reached
  <2>4. \A v \in Task : v # u => (Busy(v)' <=> Busy(v))
    BY <1>0, <1>2, <2>1 DEF Busy, TypeOK
  <2>5. Busy(u)' /\ ~ Busy(u)
    <3>1. child[u] = "none"
      BY <1>1 DEF Reached
    <3>2. prog[u] = "none"
      BY <1>1 DEF RInv, IInv, IoInv
    <3> QED BY <1>0, <2>1, <3>1, <3>2 DEF Busy, TypeOK, Running
  <2>6. Over(u) \subseteq AbsUsed
    BY <1>1, <2>1, OverFacts DEF RInv, ChainInv, AbsUsed, Reached
  <2>7. CASE Orphan(u)
    <3>1. AbsOpen' = AbsOpen
      BY <2>3, <2>4, <2>5, <2>7 DEF AbsOpen, Open
    <3>2. t \notin AbsOpen
      BY <1>1, <2>1, <2>7 DEF Orphan, AbsOpen, Open
    <3>3. Abs!DelegateUnseen(u)
      BY <1>1, <1>2, <2>2, <2>6, <3>1, <3>2, MappingDelegation
    <3> QED BY <3>3, MappingNext
  <2>8. CASE ~ Orphan(u)
    <3>1. AbsOpen' = AbsOpen \cup {u}
      BY <2>3, <2>4, <2>5, <2>8 DEF AbsOpen, Open
    <3>2. Open(t)
      BY <1>1, <2>1, <2>8 DEF Open, Busy, Orphan, Running
    <3>3. Over(u) \subseteq AbsOpen
      BY <1>0, <1>1, <3>2, OpenAbove DEF AbsOpen
    <3>4. CmdOf(u) \in Cmd /\ client[CmdOf(u)] \notin {"idle", "done"}
      BY <1>0, <1>1, <2>1, <3>2, TaskParts DEF RInv, ChainInv, DoneInv, Reached
    <3>5. AbsPhase[CmdOf(u)] \in {"sent", "abandoned"}
      BY <1>0, <3>4 DEF AbsPhase, TypeOK, ClientPhase
    <3>6. Abs!Delegate(u)
      BY <1>2, <2>2, <3>1, <3>3, <3>5, MappingDelegation
    <3> QED BY <3>6, MappingNext
  <2> QED BY <2>7, <2>8
<1> QED BY <1>3, <1>4

LEMMA ClientRefines ==
  ASSUME RInv, NEW c \in Cmd,
         ClientSend(c) \/ ClientResp(c) \/ ClientDone(c) \/ ClientKilled(c)
  PROVE  Abs!Next \/ UNCHANGED Abs!vars
<1>0. TypeOK
  BY DEF RInv, IInv
<1>1. UNCHANGED <<child, prog>>
  BY DEF ClientSend, ClientResp, ClientDone, ClientKilled, taskVars
<1>2. UNCHANGED <<AbsUsed, AbsOpen>>
  BY <1>1 DEF AbsUsed, AbsOpen, Reached, Open, Busy, Orphan
<1>3. CASE ClientSend(c)
  <2>1. AbsPhase[c] = "idle" /\ AbsPhase' = [AbsPhase EXCEPT ![c] = "sent"]
    BY <1>0, <1>3 DEF ClientSend, AbsPhase, TypeOK, ClientPhase
  <2> QED BY <2>1, <1>2, Mapping, MappingNext
<1>4. CASE ClientResp(c)
  <2>1. AbsPhase' = AbsPhase
    BY <1>0, <1>4 DEF ClientResp, AbsPhase, TypeOK, ClientPhase
  <2> QED BY <2>1, <1>2, Mapping
<1>5. CASE ClientKilled(c)
  <2>1. AbsPhase[c] = "sent" /\ AbsPhase' = [AbsPhase EXCEPT ![c] = "abandoned"]
    BY <1>0, <1>5 DEF ClientKilled, AbsPhase, TypeOK, ClientPhase
  <2> QED BY <2>1, <1>2, Mapping, MappingNext
<1>6. CASE ClientDone(c)
  <2>1. AbsPhase[c] = "sent" /\ AbsPhase' = [AbsPhase EXCEPT ![c] = "done"]
    BY <1>0, <1>6 DEF ClientDone, AbsPhase, TypeOK, ClientPhase
  <2>2. Missing(c) = {}
    <3>1. Cardinality(Missing(c)) = 0 /\ Missing(c) \subseteq Task
      BY <1>6 DEF ClientDone, RInv, IInv, CountInv, Missing, Firsts
    <3> QED BY <3>1, FiniteTasks, FS_EmptySet
  <2>3. \A t \in Abs!Roots(c) : t \in Task /\ CmdOf(t) = c
    BY DEF Abs!Roots, Abs!Of
  <2>4. Abs!Roots(c) \cap AbsOpen = {}
    BY <2>2, <2>3, NothingLeft DEF RInv, AbsOpen
  <2> QED BY <2>1, <2>4, <1>2, Mapping, MappingNext
<1> QED BY <1>3, <1>4, <1>5, <1>6

LEMMA StepRefines ==
  ASSUME RInv, RInv', [Next]_vars
  PROVE  Abs!Next \/ UNCHANGED Abs!vars
<1>1. CASE \E t \in Task : Dialled(t)
  BY <1>1, MasterDialRefines, RelayDialRefines DEF Dialled
<1>2. CASE \A t \in Task : ~ Dialled(t)
  <2>1. CASE UNCHANGED client
    BY <1>2, <2>1, Retiring DEF AbsPhase
  <2>2. CASE ~ UNCHANGED client
    BY <2>2, ClientMoves, ClientRefines
  <2> QED BY <2>1, <2>2
<1> QED BY <1>1, <1>2

(* The delegations of gproc are a forest, as CommandSpec expects.          *)
THEOREM TreeIsForest == Abs!Forest
<1>1. \A t \in Task : CmdOf(t) \in Cmd /\ Over(t) \in SUBSET Task
  BY TaskParts, OverFacts
<1>2. \A t \in Task : Over(t) # {} =>
        \E r \in Over(t) : r \in Task /\ Over(r) = {} /\ CmdOf(r) = CmdOf(t)
  BY OverFacts
<1> QED BY <1>1, <1>2 DEF Abs!Forest

(* gproc keeps the promise of CommandSpec: in particular, that looking at  *)
(* the first level is enough to know that a whole subtree is at rest.      *)
THEOREM Implements == Spec => KeepsPromise
<1>1. Init => Abs!Init
  <2> SUFFICES ASSUME Init PROVE Abs!Init
    OBVIOUS
  <2>1. AbsPhase = [c \in Cmd |-> "idle"]
    BY DEF Init, AbsPhase
  <2>2. AbsUsed = {} /\ AbsOpen = {}
    BY DEF Init, AbsUsed, AbsOpen, Reached, Open, Busy, Running
  <2> QED BY <2>1, <2>2, Mapping
<1>2. RInv /\ RInv' /\ [Next]_vars => [Abs!Next]_(Abs!vars)
  BY StepRefines
<1> QED BY <1>1, <1>2, RInvInit, RInvStep, PTL DEF Spec, KeepsPromise, Abs!Spec
=============================================================================
