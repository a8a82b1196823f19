---------------------------- MODULE ExecProofs ------------------------------
(***************************************************************************)
(* Proofs about Exec, for every tree, every set of commands and requests,  *)
(* and every choice of faults.                                             *)
(***************************************************************************)
EXTENDS Exec, FiniteSetTheorems, SequenceTheorems, TLAPS

-----------------------------------------------------------------------------
(* Delegations and the tree.                                               *)

(* A delegation is its command, its group and its node.                    *)
LEMMA TaskParts ==
  ASSUME NEW t \in Task
  PROVE  /\ CmdOf(t) \in Cmd /\ GrpOf(t) \in Group /\ NodeOf(t) \in Node
         /\ t = <<CmdOf(t), GrpOf(t), NodeOf(t)>>
BY DEF Task, CmdOf, GrpOf, NodeOf

LEMMA TaskOf ==
  ASSUME NEW c \in Cmd, NEW g \in Group, NEW n \in Node
  PROVE  /\ <<c, g, n>> \in Task
         /\ CmdOf(<<c, g, n>>) = c /\ GrpOf(<<c, g, n>>) = g /\ NodeOf(<<c, g, n>>) = n
BY DEF Task, CmdOf, GrpOf, NodeOf

(* What is below the first level was asked by a delegation of the same     *)
(* command, and what is over it is that one and what is over that one.     *)
LEMMA UpFacts ==
  ASSUME NEW t \in Task, ~ TopLevel(t)
  PROVE  /\ Up(t) \in Task /\ CmdOf(Up(t)) = CmdOf(t)
         /\ Over(t) = {Up(t)} \cup Over(Up(t))
<1>1. Parent[NodeOf(t)] \in Node
  BY TaskParts, TreeAssumption DEF TopLevel
<1>2. /\ Up(t) \in Task /\ CmdOf(Up(t)) = CmdOf(t)
      /\ GrpOf(Up(t)) = GrpOf(t) /\ NodeOf(Up(t)) = Parent[NodeOf(t)]
  BY <1>1, TaskParts, TaskOf DEF Up
<1>3. Above[NodeOf(t)] = {Parent[NodeOf(t)]} \cup Above[Parent[NodeOf(t)]]
  BY TaskParts, TreeAssumption DEF TopLevel
<1> QED BY <1>2, <1>3 DEF Over, Up

LEMMA OverFacts ==
  ASSUME NEW t \in Task
  PROVE  /\ Over(t) \subseteq Task
         /\ \A a \in Over(t) : CmdOf(a) = CmdOf(t)
         /\ TopLevel(t) <=> Over(t) = {}
         /\ ~ TopLevel(t) => \E r \in Over(t) : TopLevel(r)
         /\ \A a \in Over(t) : \E k \in Over(t) \cup {t} : ~ TopLevel(k) /\ Up(k) = a
<1>0. /\ CmdOf(t) \in Cmd /\ GrpOf(t) \in Group /\ NodeOf(t) \in Node
      /\ t = <<CmdOf(t), GrpOf(t), NodeOf(t)>>
      /\ Above[NodeOf(t)] \subseteq Node
  BY TaskParts, TreeAssumption
<1>1. \A n \in Node : /\ <<CmdOf(t), GrpOf(t), n>> \in Task
                      /\ CmdOf(<<CmdOf(t), GrpOf(t), n>>) = CmdOf(t)
                      /\ GrpOf(<<CmdOf(t), GrpOf(t), n>>) = GrpOf(t)
                      /\ NodeOf(<<CmdOf(t), GrpOf(t), n>>) = n
  BY <1>0, TaskOf
<1>2. /\ Over(t) \subseteq Task
      /\ \A a \in Over(t) : CmdOf(a) = CmdOf(t)
  BY <1>0, <1>1 DEF Over
<1>3. TopLevel(t) <=> Over(t) = {}
  <2>1. Above[NodeOf(t)] = {} <=> Parent[NodeOf(t)] = Master
    BY <1>0, TreeAssumption
  <2>2. Over(t) = {} <=> Above[NodeOf(t)] = {}
    BY DEF Over
  <2> QED BY <2>1, <2>2 DEF TopLevel
<1>4. ~ TopLevel(t) => \E r \in Over(t) : TopLevel(r)
  <2> SUFFICES ASSUME ~ TopLevel(t) PROVE \E r \in Over(t) : TopLevel(r)
    OBVIOUS
  <2>1. PICK r \in Above[NodeOf(t)] : Parent[r] = Master
    BY <1>0, TreeAssumption DEF TopLevel
  <2> QED BY <2>1, <1>0, <1>1 DEF Over, TopLevel
<1>5. ASSUME NEW a \in Over(t)
      PROVE  \E k \in Over(t) \cup {t} : ~ TopLevel(k) /\ Up(k) = a
  <2>1. PICK n \in Above[NodeOf(t)] : a = <<CmdOf(t), GrpOf(t), n>>
    BY <1>5 DEF Over
  <2>2. PICK k \in Above[NodeOf(t)] \cup {NodeOf(t)} : Parent[k] = n
    BY <2>1, <1>0, TreeAssumption
  <2>3. k \in Node /\ n # Master
    BY <2>1, <2>2, <1>0, NodeAssumption
  <2>4. <<CmdOf(t), GrpOf(t), k>> \in Over(t) \cup {t}
    BY <2>2, <1>0 DEF Over
  <2> QED BY <2>1, <2>2, <2>3, <2>4, <1>1 DEF TopLevel, Up
<1> QED BY <1>2, <1>3, <1>4, <1>5

LEMMA PathParts ==
  ASSUME NEW p \in Path
  PROVE  First(p) \in Selector /\ Rest(p) \in Path
<1>1. CASE p = <<>>
  BY <1>1 DEF Path, First, Rest, Ids, Selector
<1>2. CASE p # <<>>
  BY <1>2 DEF Path, First, Rest
<1> QED BY <1>1, <1>2

LEMMA RequestParts ==
  ASSUME NEW c \in Cmd
  PROVE  /\ Len(Request[c]) \in Nat \ {0} /\ DOMAIN Request[c] = 1 .. Len(Request[c])
         /\ \A g \in 1 .. Len(Request[c]) : g \in Group /\ Request[c][g] \in Path
<1>1. Request[c] \in Seq(Path) /\ Request[c] # <<>>
  BY RequestAssumption
<1>2. DOMAIN Request[c] = 1 .. Len(Request[c]) /\ Len(Request[c]) \in Nat \ {0}
  BY <1>1
<1>3. \A g \in DOMAIN Request[c] : g \in Group
  BY DEF Group
<1> QED BY <1>1, <1>2, <1>3

LEMMA FiniteTasks ==
  ASSUME NEW S, S \subseteq Task
  PROVE  IsFiniteSet(S) /\ Cardinality(S) \in Nat
BY NodeAssumption, FS_Subset, FS_CardinalityType

-----------------------------------------------------------------------------
(* Type correctness.                                                       *)

LEMMA TypeInit == Init => TypeOK
BY TreeAssumption, NodeAssumption
DEF Init, TypeOK, ClientPhase, DaemonPhase, ChildPhase, Path

LEMMA DelegateType ==
  ASSUME TypeOK, NEW t \in Task, NEW p \in Path, Delegate(t, p)
  PROVE  child' \in [Task -> ChildPhase] /\ req' \in [Task -> Path]
<1>1. child \in [Task -> ChildPhase] /\ req \in [Task -> Path] /\ "queued" \in ChildPhase
  BY DEF TypeOK, ChildPhase
<1>2. child' = [child EXCEPT ![t] = "queued"] /\ req' = [req EXCEPT ![t] = p]
  BY DEF Delegate
<1> QED BY <1>1, <1>2

LEMMA TypeStep == TypeOK /\ [Next]_vars => TypeOK'
<1> SUFFICES ASSUME TypeOK, [Next]_vars PROVE TypeOK'
  OBVIOUS
<1> USE DEF clientVars, masterVars, daemonVars, relayVars, taskVars,
            ClientPhase, DaemonPhase, ChildPhase, Running, Ended, ChildVarsBut
<1>c. ASSUME NEW c \in Cmd,
             ClientSend(c) \/ ClientStep(c) \/ MasterStep(c) \/ ClientKilled(c)
      PROVE  TypeOK'
  <2>1. CASE ClientSend(c)
    BY <2>1 DEF TypeOK, ClientSend
  <2>2. CASE ClientResp(c)
    BY <2>2 DEF TypeOK, ClientResp
  <2>3. CASE ClientDone(c)
    BY <2>3 DEF TypeOK, ClientDone
  <2>4. ASSUME NEW t \in Task, ClientCount(c, t) PROVE TypeOK'
    BY <2>4 DEF TypeOK, ClientCount
  <2>5. CASE MasterRecv(c)
    BY <2>5 DEF TypeOK, MasterRecv
  <2>6. CASE MasterGroup(c)
    <3> DEFINE g == grp[c] + 1
               ns == ServIntersect(reg[Master], First(Request[c][g]))
    <3>1. g \in 1 .. Len(Request[c]) /\ g \in Nat
      BY <2>6, RequestParts DEF TypeOK, MasterGroup
    <3>2. g \in Group /\ Rest(Request[c][g]) \in Path
      BY <3>1, RequestParts, PathParts
    <3>3. ns \subseteq Node
      BY DEF TypeOK, ServIntersect
    <3>4. {<<c, g, n>> : n \in ns} \subseteq Task
      BY <3>2, <3>3 DEF Task
    <3>5. /\ grp' = [grp EXCEPT ![c] = g]
          /\ mtodo' = [mtodo EXCEPT ![c] = {<<c, g, n>> : n \in ns}]
          /\ sub' = [sub EXCEPT ![c] = Rest(Request[c][g])]
          /\ UNCHANGED <<clientVars, serve, nnodes, daemonVars, taskVars>>
      BY <2>6 DEF MasterGroup
    <3> HIDE DEF g, ns
    <3> QED BY <3>1, <3>2, <3>4, <3>5 DEF TypeOK
  <2>7. CASE MasterReply(c)
    BY <2>7 DEF TypeOK, MasterReply
  <2>8. ASSUME NEW t \in Task, MasterDial(c, t) PROVE TypeOK'
    <3>1. CASE daemon[NodeOf(t)] # "dead"
      <4>1. child' \in [Task -> ChildPhase] /\ req' \in [Task -> Path]
        <5>1. sub[c] \in Path
          BY DEF TypeOK
        <5>2. Delegate(t, sub[c])
          BY <2>8, <3>1 DEF MasterDial
        <5> QED BY <5>1, <5>2, DelegateType
      <4>2. /\ mtodo' \in [Cmd -> SUBSET Task] /\ nnodes' \in [Cmd -> Nat]
            /\ UNCHANGED <<clientVars, serve, grp, sub, daemonVars, got, asked,
                           relayVars, prog, io>>
        BY <2>8, <3>1 DEF TypeOK, MasterDial
      <4> QED BY <4>1, <4>2 DEF TypeOK
    <3>2. CASE daemon[NodeOf(t)] = "dead"
      BY <2>8, <3>2 DEF TypeOK, MasterDial
    <3> QED BY <3>1, <3>2
  <2>9. CASE ClientKilled(c)
    BY <2>9 DEF TypeOK, ClientKilled
  <2> QED BY <1>c, <2>1, <2>2, <2>3, <2>4, <2>5, <2>6, <2>7, <2>8, <2>9
          DEF ClientStep, MasterStep
<1>d. ASSUME NEW n \in Node, NEW t \in Task,
             \/ DaemonAccept(n, t) \/ DaemonReply(n, t) \/ DaemonReap(n, t)
             \/ DaemonPipeClosed(n, t)
      PROVE  TypeOK'
  <2>1. CASE DaemonAccept(n, t)
    BY <2>1 DEF TypeOK, DaemonAccept
  <2>2. CASE DaemonReply(n, t)
    <3> DEFINE us == {u \in Kids(t) :
                        NodeOf(u) \in ServIntersect(reg[n], First(req[t]))}
    <3>1. us \subseteq Task
      BY DEF Kids
    <3>2. Cardinality(us) \in Nat
      BY <3>1, FiniteTasks
    <3>3. CASE child[t] # "asked"
      BY <2>2, <3>3 DEF TypeOK, DaemonReply
    <3>4. CASE child[t] = "asked"
      <4>1. /\ daemon' = [daemon EXCEPT ![n] = "serving"]
            /\ child' = [child EXCEPT ![t] = "relay"]
            /\ avail' = [avail EXCEPT ![t] = us]
            /\ todo' = [todo EXCEPT ![t] = us]
            /\ need' = [need EXCEPT ![t] = Cardinality(us)]
            /\ UNCHANGED <<clientVars, masterVars, cur, reg, req, got, asked, prog, io>>
        BY <2>2, <3>4 DEF DaemonReply
      <4> HIDE DEF us
      <4> QED BY <4>1, <3>1, <3>2 DEF TypeOK
    <3> QED BY <3>3, <3>4
  <2>3. CASE DaemonReap(n, t)
    BY <2>3 DEF TypeOK, DaemonReap
  <2>4. CASE DaemonPipeClosed(n, t)
    BY <2>4 DEF TypeOK, DaemonPipeClosed
  <2> QED BY <1>d, <2>1, <2>2, <2>3, <2>4
<1>x. ASSUME NEW n \in Node, DaemonDies(n) PROVE TypeOK'
  BY <1>x DEF TypeOK, DaemonDies
<1>t. ASSUME NEW t \in Task,
             \/ SendReq(t) \/ ChildStep(t) \/ IoEof(t)
             \/ ProgStart(t) \/ ProgFails(t) \/ ProgExit(t) \/ ChildPanics(t)
      PROVE  TypeOK'
  <2>1. CASE SendReq(t)
    BY <2>1 DEF TypeOK, SendReq
  <2>2. CASE ChildRecv(t)
    BY <2>2 DEF TypeOK, ChildRecv
  <2>3. CASE ChildDial(t)
    BY <2>3, SMTT(30) DEF TypeOK, ChildDial
  <2>4. CASE ChildParse(t)
    <3>1. /\ child' \in [Task -> ChildPhase]
          /\ UNCHANGED <<clientVars, masterVars, daemonVars, req, got, relayVars, prog, io>>
      BY <2>4 DEF TypeOK, ChildParse
    <3>2. asked' \in [Task -> BOOLEAN]
      BY <2>4, Zenon DEF TypeOK, ChildParse
    <3> QED BY <3>1, <3>2 DEF TypeOK
  <2>5. CASE ChildLosesDaemon(t)
    BY <2>5 DEF TypeOK, ChildLosesDaemon
  <2>6. ASSUME NEW u \in Task, RelayDial(t, u) PROVE TypeOK'
    <3>1. Rest(req[t]) \in Path
      BY PathParts DEF TypeOK
    <3>2. CASE daemon[NodeOf(u)] # "dead"
      <4>1. child' \in [Task -> ChildPhase] /\ req' \in [Task -> Path]
        BY <2>6, <3>1, <3>2, DelegateType DEF RelayDial
      <4>2. todo' \in [Task -> SUBSET Task]
        BY <2>6 DEF TypeOK, RelayDial
      <4> QED BY <2>6, <4>1, <4>2 DEF TypeOK, RelayDial
    <3>3. CASE daemon[NodeOf(u)] = "dead"
      BY <2>6, <3>3 DEF TypeOK, RelayDial
    <3> QED BY <3>2, <3>3
  <2>7. CASE RelayDone(t)
    BY <2>7 DEF TypeOK, RelayDone
  <2>8. ASSUME NEW u \in Task, ChildCount(t, u) PROVE TypeOK'
    BY <2>8 DEF TypeOK, ChildCount
  <2>9. CASE ChildExit(t)
    BY <2>9 DEF TypeOK, ChildExit
  <2>10. CASE IoEof(t)
    BY <2>10 DEF TypeOK, IoEof
  <2>11. CASE ProgStart(t)
    BY <2>11 DEF TypeOK, ProgStart
  <2>12. CASE ProgFails(t)
    BY <2>12 DEF TypeOK, ProgFails
  <2>13. CASE ProgExit(t)
    BY <2>13 DEF TypeOK, ProgExit
  <2>14. CASE ChildPanics(t)
    BY <2>14 DEF TypeOK, ChildPanics
  <2> QED BY <1>t, <2>1, <2>2, <2>3, <2>4, <2>5, <2>6, <2>7, <2>8, <2>9,
             <2>10, <2>11, <2>12, <2>13, <2>14 DEF ChildStep
<1>s. CASE UNCHANGED vars
  BY <1>s DEF TypeOK, vars
<1> QED BY <1>c, <1>d, <1>x, <1>t, <1>s DEF Next, DaemonStep

(* Every variable keeps its type; in particular the two counters of        *)
(* outstanding answers never go below zero.                                *)
THEOREM TypeCorrect == Spec => []TypeOK
BY TypeInit, TypeStep, PTL DEF Spec

-----------------------------------------------------------------------------
(* The inductive invariant, by part.                                       *)

Reached(t)  == child[t] # "none"
Open(t)     == Busy(t) /\ ~ Orphan(t)
Awaited(t)  == {u \in avail[t] : io[u] # "counted"}
Firsts(c)   == {t \in Task : CmdOf(t) = c /\ TopLevel(t) /\ Reached(t)}
Missing(c)  == {t \in Firsts(c) : io[t] # "counted"}

(* A daemon is busy with at most one delegation, and only that one has a   *)
(* live R process.                                                         *)
LoopInv ==
  /\ \A t \in Task : child[t] \in Running => t \in cur[NodeOf(t)]
  /\ \A n \in Node : \A t, u \in cur[n] : t = u
  /\ \A n \in Node : daemon[n] = "accept" => cur[n] = {}

(* Who may have asked whom.                                                *)
TreeInv ==
  /\ \A p \in Node \cup {Master} : \A n \in reg[p] : Parent[n] = p
  /\ \A t \in Task : avail[t] \subseteq Kids(t) /\ todo[t] \subseteq avail[t]
  /\ \A t \in Task :
       child[t] \notin {"relay", "wait", "exited", "crashed"} => avail[t] = {}
  /\ \A t \in Task : \A u \in todo[t] : ~ Reached(u)
  /\ \A u \in Task : Reached(u) /\ ~ TopLevel(u) => u \in avail[Up(u)]

(* Output that has ended has no process behind it; a program has a request.*)
IoInv ==
  \A t \in Task :
    /\ io[t] \in {"reported", "counted"} => child[t] \in Ended /\ prog[t] # "running"
    /\ prog[t] # "none" => Reached(t)

(* The master works through one group after the other.                     *)
ServeInv ==
  \A c \in Cmd :
    /\ mtodo[c] # {} => serve[c] = "serving"
    /\ client[c] \in {"waiting", "done"} => serve[c] = "replied"
    /\ \A t \in mtodo[c] : /\ CmdOf(t) = c /\ TopLevel(t)
                           /\ ~ Reached(t) /\ GrpOf(t) = grp[c]
    /\ \A t \in Task : CmdOf(t) = c /\ TopLevel(t) /\ Reached(t) => GrpOf(t) <= grp[c]

(* What an R process still waits for is what it counts, and so for mexec.  *)
CountInv ==
  /\ \A t \in Task : child[t] \in {"relay", "wait", "exited"} =>
       need[t] = Cardinality(Awaited(t))
  /\ \A c \in Cmd : nnodes[c] = Cardinality(Firsts(c))
  /\ \A c \in Cmd : client[c] \in {"idle", "sent"} => Missing(c) = Firsts(c)
  /\ \A c \in Cmd : client[c] \in {"waiting", "done"} =>
       cneed[c] = Cardinality(Missing(c))

(* Work goes on only below R processes that wait for it, and not at all    *)
(* once the command is done.                                               *)
RootedInv == \A t \in Task : Open(t) => \A a \in Over(t) : child[a] \in Relaying
DoneInv   == \A c \in Cmd : client[c] = "done" => \A t \in Task : CmdOf(t) = c => ~ Open(t)

IInv == /\ TypeOK /\ LoopInv /\ TreeInv /\ IoInv /\ ServeInv /\ CountInv
        /\ RootedInv /\ DoneInv

-----------------------------------------------------------------------------
(* What the dialling actions know of the delegation they make.             *)
LEMMA GroupNat == Group \subseteq Nat
BY RequestParts DEF Group

LEMMA MasterDialFacts ==
  ASSUME ServeInv, NEW c \in Cmd, NEW t \in Task, MasterDial(c, t)
  PROVE  TopLevel(t) /\ ~ Reached(t) /\ CmdOf(t) = c /\ GrpOf(t) = grp[c] /\ serve[c] = "serving"
BY DEF ServeInv, MasterDial

LEMMA RelayDialFacts ==
  ASSUME TypeOK, TreeInv, NEW t \in Task, NEW u \in Task, RelayDial(t, u)
  PROVE  ~ TopLevel(u) /\ ~ Reached(u) /\ Up(u) = t /\ u \in avail[t]
BY DEF TreeInv, RelayDial, Kids

LEMMA LoopStep == TypeOK /\ LoopInv /\ [Next]_vars => LoopInv'
<1> SUFFICES ASSUME TypeOK, LoopInv, [Next]_vars PROVE LoopInv'
  OBVIOUS
<1> USE DEF clientVars, masterVars, daemonVars, relayVars, taskVars, Running, Ended
<1>1. ASSUME NEW c \in Cmd, NEW t \in Task, MasterDial(c, t) PROVE LoopInv'
  BY <1>1 DEF TypeOK, LoopInv, MasterDial, Delegate
<1>2. ASSUME NEW n \in Node, NEW t \in Task, DaemonAccept(n, t) PROVE LoopInv'
  BY <1>2 DEF TypeOK, LoopInv, DaemonAccept
<1>3. ASSUME NEW n \in Node, NEW t \in Task, DaemonReply(n, t) PROVE LoopInv'
  BY <1>3 DEF TypeOK, LoopInv, DaemonReply
<1>4. ASSUME NEW n \in Node, NEW t \in Task, DaemonReap(n, t) PROVE LoopInv'
  BY <1>4 DEF TypeOK, LoopInv, DaemonReap
<1>5. ASSUME NEW n \in Node, NEW t \in Task, DaemonPipeClosed(n, t) PROVE LoopInv'
  BY <1>5 DEF TypeOK, LoopInv, DaemonPipeClosed
<1>6. ASSUME NEW n \in Node, DaemonDies(n) PROVE LoopInv'
  BY <1>6 DEF TypeOK, LoopInv, DaemonDies
<1>7. ASSUME NEW t \in Task, ChildRecv(t) PROVE LoopInv'
  BY <1>7 DEF TypeOK, LoopInv, ChildRecv, ChildVarsBut
<1>8. ASSUME NEW t \in Task, ChildDial(t) PROVE LoopInv'
  BY <1>8 DEF TypeOK, LoopInv, ChildDial, ChildVarsBut
<1>9. ASSUME NEW t \in Task, ChildParse(t) PROVE LoopInv'
  BY <1>9 DEF TypeOK, LoopInv, ChildParse, ChildVarsBut
<1>10. ASSUME NEW t \in Task, ChildLosesDaemon(t) PROVE LoopInv'
  BY <1>10 DEF TypeOK, LoopInv, ChildLosesDaemon, ChildVarsBut
<1>11. ASSUME NEW t \in Task, NEW u \in Task, RelayDial(t, u) PROVE LoopInv'
  BY <1>11 DEF TypeOK, LoopInv, RelayDial, Delegate
<1>12. ASSUME NEW t \in Task, RelayDone(t) PROVE LoopInv'
  BY <1>12 DEF TypeOK, LoopInv, RelayDone, ChildVarsBut
<1>13. ASSUME NEW t \in Task, ChildExit(t) PROVE LoopInv'
  BY <1>13 DEF TypeOK, LoopInv, ChildExit, ChildVarsBut
<1>14. ASSUME NEW t \in Task, ChildPanics(t) PROVE LoopInv'
  BY <1>14 DEF TypeOK, LoopInv, ChildPanics, ChildVarsBut
<1>15. ASSUME NEW t \in Task, ProgFails(t) PROVE LoopInv'
  BY <1>15 DEF TypeOK, LoopInv, ProgFails, ChildVarsBut
<1>16. CASE UNCHANGED <<daemon, cur, child>>
  BY <1>16 DEF TypeOK, LoopInv
<1> QED BY <1>1, <1>2, <1>3, <1>4, <1>5, <1>6, <1>7, <1>8, <1>9, <1>10, <1>11, <1>12, <1>13, <1>14, <1>15, <1>16
     DEF vars, Next, ClientStep, MasterStep, DaemonStep, ChildStep,
         ClientSend, ClientResp, ClientDone, ClientKilled, ClientCount, MasterRecv, MasterGroup, MasterReply, SendReq, ChildCount, ProgStart, ProgExit, IoEof

LEMMA TreeStep == TypeOK /\ TreeInv /\ ServeInv /\ [Next]_vars => TreeInv'
<1> SUFFICES ASSUME TypeOK, TreeInv, ServeInv, [Next]_vars PROVE TreeInv'
  OBVIOUS
<1> USE DEF clientVars, masterVars, daemonVars, relayVars, taskVars, Running, Ended
<1>1. ASSUME NEW c \in Cmd, NEW t \in Task, MasterDial(c, t) PROVE TreeInv'
  <2>1. TopLevel(t) /\ ~ Reached(t)
    BY <1>1, MasterDialFacts
  <2>2. CASE daemon[NodeOf(t)] # "dead"
    <3>1. child' = [child EXCEPT ![t] = "queued"] /\ UNCHANGED <<reg, avail, todo>>
      BY <1>1, <2>2 DEF MasterDial, Delegate
    <3> QED BY <2>1, <3>1 DEF TypeOK, TreeInv, Reached, Kids
  <2>3. CASE daemon[NodeOf(t)] = "dead"
    <3>1. /\ reg' = [reg EXCEPT ![Master] = reg[Master] \ {NodeOf(t)}]
          /\ UNCHANGED <<child, avail, todo>>
      BY <1>1, <2>3 DEF MasterDial
    <3> QED BY <3>1 DEF TypeOK, TreeInv, Reached
  <2> QED BY <2>2, <2>3
<1>2. ASSUME NEW n \in Node, NEW t \in Task, DaemonAccept(n, t) PROVE TreeInv'
  BY <1>2 DEF TypeOK, TreeInv, Reached, DaemonAccept
<1>3. ASSUME NEW n \in Node, NEW t \in Task, DaemonReply(n, t) PROVE TreeInv'
  <2>1. CASE child[t] # "asked"
    BY <1>3, <2>1 DEF TreeInv, Reached, DaemonReply
  <2>2. CASE child[t] = "asked"
    <3> DEFINE us == {u \in Kids(t) :
                        NodeOf(u) \in ServIntersect(reg[n], First(req[t]))}
    <3>1. /\ child' = [child EXCEPT ![t] = "relay"]
          /\ avail' = [avail EXCEPT ![t] = us]
          /\ todo' = [todo EXCEPT ![t] = us]
          /\ UNCHANGED reg
      BY <1>3, <2>2 DEF DaemonReply
    <3>2. us \subseteq Kids(t)
      OBVIOUS
    <3>3. avail[t] = {}
      BY <2>2 DEF TreeInv
    <3>4. \A u \in Kids(t) : ~ Reached(u)
      BY <3>3 DEF TreeInv, Kids
    <3> HIDE DEF us
    <3>5. \A u \in Task : Reached(u)' <=> Reached(u)
      BY <2>2, <3>1 DEF Reached, TypeOK
    <3>6. \A u \in Task : Reached(u)' /\ ~ TopLevel(u) => u \in avail'[Up(u)]
      BY <3>1, <3>3, <3>5 DEF TreeInv, TypeOK
    <3>7. \A v \in Task : /\ avail'[v] \subseteq Kids(v) /\ todo'[v] \subseteq avail'[v]
                          /\ \A u \in todo'[v] : ~ Reached(u)'
      <4> TAKE v \in Task
      <4>1. CASE v = t
        BY <4>1, <3>1, <3>2, <3>4, <3>5 DEF TypeOK, Kids
      <4>2. CASE v # t
        <5>1. avail'[v] = avail[v] /\ todo'[v] = todo[v]
          BY <4>2, <3>1 DEF TypeOK
        <5>2. todo[v] \subseteq Task
          BY DEF TypeOK
        <5> QED BY <5>1, <5>2, <3>5 DEF TreeInv
      <4> QED BY <4>1, <4>2
    <3>8. \A v \in Task :
            child'[v] \notin {"relay", "wait", "exited", "crashed"} => avail'[v] = {}
      BY <3>1 DEF TypeOK, TreeInv
    <3> QED BY <3>1, <3>6, <3>7, <3>8 DEF TreeInv
  <2> QED BY <2>1, <2>2
<1>4. ASSUME NEW n \in Node, DaemonDies(n) PROVE TreeInv'
  BY <1>4 DEF TypeOK, TreeInv, Reached, DaemonDies
<1>5. ASSUME NEW t \in Task, ChildRecv(t) PROVE TreeInv'
  <2>1. PICK x \in {"dial", "crashed"} : child' = [child EXCEPT ![t] = x]
    BY <1>5 DEF ChildRecv, ChildVarsBut
  <2>2. child[t] = "recv" /\ UNCHANGED <<reg, avail, todo>>
    BY <1>5 DEF ChildRecv, ChildVarsBut
  <2> QED BY <2>1, <2>2 DEF TypeOK, TreeInv, Reached
<1>6. ASSUME NEW t \in Task, ChildDial(t) PROVE TreeInv'
  BY <1>6 DEF TypeOK, TreeInv, Reached, ChildDial, ChildVarsBut
<1>7. ASSUME NEW t \in Task, ChildParse(t) PROVE TreeInv'
  <2>1. PICK x \in {"quit", "asked"} : child' = [child EXCEPT ![t] = x]
    BY <1>7 DEF ChildParse, ChildVarsBut
  <2>2. child[t] = "parse" /\ UNCHANGED <<reg, avail, todo>>
    BY <1>7 DEF ChildParse, ChildVarsBut
  <2> QED BY <2>1, <2>2 DEF TypeOK, TreeInv, Reached
<1>8. ASSUME NEW t \in Task, ChildLosesDaemon(t) PROVE TreeInv'
  BY <1>8 DEF TypeOK, TreeInv, Reached, ChildLosesDaemon, ChildVarsBut
<1>9. ASSUME NEW t \in Task, NEW u \in Task, RelayDial(t, u) PROVE TreeInv'
  <2>1. ~ TopLevel(u) /\ ~ Reached(u) /\ Up(u) = t /\ u \in avail[t]
    BY <1>9, RelayDialFacts
  <2>2. todo' = [todo EXCEPT ![t] = todo[t] \ {u}] /\ UNCHANGED <<reg, avail>>
    BY <1>9 DEF RelayDial
  <2>3. child' = child \/ child' = [child EXCEPT ![u] = "queued"]
    BY <1>9 DEF RelayDial, Delegate
  <2>4. \A v \in Task : v # u => (Reached(v)' <=> Reached(v))
    BY <2>3 DEF TypeOK, Reached
  <2>5. \A v \in Task : \A w \in todo'[v] : w \in Task /\ w # u /\ ~ Reached(w)
    BY <2>1, <2>2 DEF TypeOK, TreeInv, Kids
  <2>6. \A v \in Task : todo'[v] \subseteq todo[v]
    BY <2>2 DEF TypeOK
  <2>7. \A v \in Task :
          child'[v] \notin {"relay", "wait", "exited", "crashed"} => avail'[v] = {}
    <3>1. child[u] = "none"
      BY <2>1 DEF Reached
    <3>2. \A v \in Task :
            child'[v] \notin {"relay", "wait", "exited", "crashed"}
              => child[v] \notin {"relay", "wait", "exited", "crashed"}
      BY <2>3, <3>1 DEF TypeOK
    <3> QED BY <2>2, <3>2 DEF TreeInv
  <2>8. \A v \in Task : avail[v] \subseteq Kids(v) /\ todo'[v] \subseteq avail[v]
    BY <2>6 DEF TreeInv
  <2>9. \A v \in Task : Reached(v)' /\ ~ TopLevel(v) => v \in avail[Up(v)]
    BY <2>1, <2>4 DEF TreeInv
  <2> QED BY <2>2, <2>4, <2>5, <2>7, <2>8, <2>9 DEF TreeInv
<1>10. ASSUME NEW t \in Task, RelayDone(t) PROVE TreeInv'
  BY <1>10 DEF TypeOK, TreeInv, Reached, RelayDone, ChildVarsBut
<1>11. ASSUME NEW t \in Task, ChildExit(t) PROVE TreeInv'
  BY <1>11 DEF TypeOK, TreeInv, Reached, ChildExit, ChildVarsBut
<1>12. ASSUME NEW t \in Task, ChildPanics(t) PROVE TreeInv'
  BY <1>12 DEF TypeOK, TreeInv, Reached, ChildPanics, ChildVarsBut
<1>13. ASSUME NEW t \in Task, ProgFails(t) PROVE TreeInv'
  BY <1>13 DEF TypeOK, TreeInv, Reached, ProgFails, ChildVarsBut
<1>14. CASE UNCHANGED <<reg, child, avail, todo>>
  BY <1>14 DEF TypeOK, TreeInv, Reached
<1> QED BY <1>1, <1>2, <1>3, <1>4, <1>5, <1>6, <1>7, <1>8, <1>9, <1>10, <1>11, <1>12, <1>13, <1>14
     DEF vars, Next, ClientStep, MasterStep, DaemonStep, ChildStep,
         ClientSend, ClientResp, ClientDone, ClientKilled, ClientCount, MasterRecv, MasterGroup, MasterReply, DaemonReap, DaemonPipeClosed, SendReq, ChildCount, ProgStart, ProgExit, IoEof

LEMMA IoStep == TypeOK /\ TreeInv /\ ServeInv /\ IoInv /\ [Next]_vars => IoInv'
<1> SUFFICES ASSUME TypeOK, TreeInv, ServeInv, IoInv, [Next]_vars PROVE IoInv'
  OBVIOUS
<1> USE DEF clientVars, masterVars, daemonVars, relayVars, taskVars, Running, Ended
<1>1. ASSUME NEW c \in Cmd, NEW t \in Task, ClientCount(c, t) PROVE IoInv'
  BY <1>1 DEF TypeOK, IoInv, Reached, ClientCount
<1>2. ASSUME NEW c \in Cmd, NEW t \in Task, MasterDial(c, t) PROVE IoInv'
  <2>1. child[t] = "none"
    BY <1>2, MasterDialFacts DEF Reached
  <2>2. child' = child \/ child' = [child EXCEPT ![t] = "queued"]
    BY <1>2 DEF MasterDial, Delegate
  <2>3. UNCHANGED <<io, prog>>
    BY <1>2 DEF MasterDial
  <2> QED BY <2>1, <2>2, <2>3 DEF TypeOK, IoInv, Reached
<1>3. ASSUME NEW n \in Node, NEW t \in Task, DaemonAccept(n, t) PROVE IoInv'
  BY <1>3 DEF TypeOK, IoInv, Reached, DaemonAccept
<1>4. ASSUME NEW n \in Node, NEW t \in Task, DaemonReply(n, t) PROVE IoInv'
  BY <1>4 DEF TypeOK, IoInv, Reached, DaemonReply
<1>5. ASSUME NEW n \in Node, DaemonDies(n) PROVE IoInv'
  BY <1>5 DEF TypeOK, IoInv, Reached, DaemonDies
<1>6. ASSUME NEW t \in Task, ChildRecv(t) PROVE IoInv'
  BY <1>6 DEF TypeOK, IoInv, Reached, ChildRecv, ChildVarsBut
<1>7. ASSUME NEW t \in Task, ChildDial(t) PROVE IoInv'
  BY <1>7 DEF TypeOK, IoInv, Reached, ChildDial, ChildVarsBut
<1>8. ASSUME NEW t \in Task, ChildParse(t) PROVE IoInv'
  BY <1>8 DEF TypeOK, IoInv, Reached, ChildParse, ChildVarsBut
<1>9. ASSUME NEW t \in Task, ChildLosesDaemon(t) PROVE IoInv'
  BY <1>9 DEF TypeOK, IoInv, Reached, ChildLosesDaemon, ChildVarsBut
<1>10. ASSUME NEW t \in Task, NEW u \in Task, RelayDial(t, u) PROVE IoInv'
  <2>1. child[u] = "none"
    BY <1>10, RelayDialFacts DEF Reached
  <2>2. child' = child \/ child' = [child EXCEPT ![u] = "queued"]
    BY <1>10 DEF RelayDial, Delegate
  <2>3. UNCHANGED <<io, prog>>
    BY <1>10 DEF RelayDial
  <2> QED BY <2>1, <2>2, <2>3 DEF TypeOK, IoInv, Reached
<1>11. ASSUME NEW t \in Task, RelayDone(t) PROVE IoInv'
  BY <1>11 DEF TypeOK, IoInv, Reached, RelayDone, ChildVarsBut
<1>12. ASSUME NEW t \in Task, NEW u \in Task, ChildCount(t, u) PROVE IoInv'
  BY <1>12 DEF TypeOK, IoInv, Reached, ChildCount
<1>13. ASSUME NEW t \in Task, ChildExit(t) PROVE IoInv'
  BY <1>13 DEF TypeOK, IoInv, Reached, ChildExit, ChildVarsBut
<1>14. ASSUME NEW t \in Task, ChildPanics(t) PROVE IoInv'
  BY <1>14 DEF TypeOK, IoInv, Reached, ChildPanics, ChildVarsBut
<1>15. ASSUME NEW t \in Task, ProgStart(t) PROVE IoInv'
  BY <1>15 DEF TypeOK, IoInv, Reached, ProgStart
<1>16. ASSUME NEW t \in Task, ProgFails(t) PROVE IoInv'
  BY <1>16 DEF TypeOK, IoInv, Reached, ProgFails, ChildVarsBut
<1>17. ASSUME NEW t \in Task, ProgExit(t) PROVE IoInv'
  BY <1>17 DEF TypeOK, IoInv, Reached, ProgExit
<1>18. ASSUME NEW t \in Task, IoEof(t) PROVE IoInv'
  BY <1>18 DEF TypeOK, IoInv, Reached, IoEof
<1>19. CASE UNCHANGED <<child, prog, io>>
  BY <1>19 DEF TypeOK, IoInv, Reached
<1> QED BY <1>1, <1>2, <1>3, <1>4, <1>5, <1>6, <1>7, <1>8, <1>9, <1>10, <1>11, <1>12, <1>13, <1>14, <1>15, <1>16, <1>17, <1>18, <1>19
     DEF vars, Next, ClientStep, MasterStep, DaemonStep, ChildStep,
         ClientSend, ClientResp, ClientDone, ClientKilled, MasterRecv, MasterGroup, MasterReply, DaemonReap, DaemonPipeClosed, SendReq

LEMMA ServeStep == TypeOK /\ TreeInv /\ ServeInv /\ [Next]_vars => ServeInv'
<1> SUFFICES ASSUME TypeOK, TreeInv, ServeInv, [Next]_vars PROVE ServeInv'
  OBVIOUS
<1> USE DEF clientVars, masterVars, daemonVars, relayVars, taskVars, Running, Ended
<1>1. ASSUME NEW c \in Cmd, ClientSend(c) PROVE ServeInv'
  BY <1>1 DEF TypeOK, ServeInv, Reached, ClientSend
<1>2. ASSUME NEW c \in Cmd, ClientResp(c) PROVE ServeInv'
  BY <1>2 DEF TypeOK, ServeInv, Reached, ClientResp
<1>3. ASSUME NEW c \in Cmd, ClientDone(c) PROVE ServeInv'
  BY <1>3 DEF TypeOK, ServeInv, Reached, ClientDone
<1>4. ASSUME NEW c \in Cmd, ClientKilled(c) PROVE ServeInv'
  BY <1>4 DEF TypeOK, ServeInv, Reached, ClientKilled
<1>5. ASSUME NEW c \in Cmd, MasterRecv(c) PROVE ServeInv'
  BY <1>5 DEF TypeOK, ServeInv, Reached, MasterRecv
<1>6. ASSUME NEW c \in Cmd, MasterGroup(c) PROVE ServeInv'
  <2> DEFINE g == grp[c] + 1
             ns == ServIntersect(reg[Master], First(Request[c][g]))
  <2>1. /\ grp' = [grp EXCEPT ![c] = g]
        /\ mtodo' = [mtodo EXCEPT ![c] = {<<c, g, n>> : n \in ns}]
        /\ serve[c] = "serving" /\ UNCHANGED <<client, serve, child>>
        /\ g \in 1 .. Len(Request[c])
    BY <1>6, RequestParts DEF MasterGroup, TypeOK
  <2>2. g \in Group
    BY <2>1, RequestParts
  <2>3. \A n \in ns : n \in Node /\ Parent[n] = Master
    BY DEF ServIntersect, TypeOK, TreeInv
  <2>4. \A n \in ns : LET t == <<c, g, n>> IN
          /\ t \in Task /\ CmdOf(t) = c /\ GrpOf(t) = g /\ TopLevel(t)
    BY <2>2, <2>3, TaskOf DEF TopLevel
  <2>5. \A t \in Task : CmdOf(t) = c /\ TopLevel(t) /\ Reached(t) => GrpOf(t) < g
    <3>1. grp[c] \in Nat /\ \A t \in Task : GrpOf(t) \in Nat
      BY GroupNat, TaskParts DEF TypeOK
    <3>2. \A t \in Task : CmdOf(t) = c /\ TopLevel(t) /\ Reached(t) => GrpOf(t) <= grp[c]
      BY DEF ServeInv
    <3> QED BY <3>1, <3>2
  <2>6. \A t \in {<<c, g, n>> : n \in ns} : ~ Reached(t)
    BY <2>1, <2>4, <2>5
  <2>7. \A t \in Task : Reached(t)' <=> Reached(t)
    BY <2>1 DEF Reached
  <2> HIDE DEF g, ns
  <2>8. ASSUME NEW d \in Cmd, d # c
        PROVE  mtodo'[d] = mtodo[d] /\ grp'[d] = grp[d]
    BY <2>8, <2>1 DEF TypeOK
  <2>9. mtodo'[c] = {<<c, g, n>> : n \in ns} /\ grp'[c] = g /\ grp[c] < g
    BY <2>1 DEF TypeOK, g
  <2>10. \A t \in Task : CmdOf(t) = c /\ TopLevel(t) /\ Reached(t)' => GrpOf(t) <= g
    <3>1. g \in Nat /\ \A t \in Task : GrpOf(t) \in Nat
      BY <2>1, RequestParts, GroupNat, TaskParts
    <3> QED BY <3>1, <2>5, <2>7
  <2>11. ASSUME NEW d \in Cmd
         PROVE  /\ mtodo'[d] # {} => serve'[d] = "serving"
                /\ client'[d] \in {"waiting", "done"} => serve'[d] = "replied"
                /\ \A t \in mtodo'[d] : /\ CmdOf(t) = d /\ TopLevel(t)
                                        /\ ~ Reached(t)' /\ GrpOf(t) = grp'[d]
                /\ \A t \in Task : CmdOf(t) = d /\ TopLevel(t) /\ Reached(t)' =>
                                     GrpOf(t) <= grp'[d]
    <3>1. CASE d = c
      BY <3>1, <2>1, <2>4, <2>6, <2>7, <2>9, <2>10 DEF ServeInv
    <3>2. CASE d # c
      <4>1. mtodo[d] \subseteq Task
        BY DEF TypeOK
      <4> QED BY <3>2, <4>1, <2>1, <2>7, <2>8 DEF ServeInv
    <3> QED BY <3>1, <3>2
  <2> QED BY <2>11 DEF ServeInv
<1>7. ASSUME NEW c \in Cmd, MasterReply(c) PROVE ServeInv'
  BY <1>7 DEF TypeOK, ServeInv, Reached, MasterReply
<1>8. ASSUME NEW c \in Cmd, NEW t \in Task, MasterDial(c, t) PROVE ServeInv'
  BY <1>8 DEF TypeOK, ServeInv, Reached, MasterDial, Delegate
<1>9. ASSUME NEW n \in Node, NEW t \in Task, DaemonAccept(n, t) PROVE ServeInv'
  BY <1>9 DEF TypeOK, ServeInv, Reached, DaemonAccept
<1>10. ASSUME NEW n \in Node, NEW t \in Task, DaemonReply(n, t) PROVE ServeInv'
  BY <1>10 DEF TypeOK, ServeInv, Reached, DaemonReply
<1>11. ASSUME NEW n \in Node, DaemonDies(n) PROVE ServeInv'
  BY <1>11 DEF TypeOK, ServeInv, Reached, DaemonDies
<1>12. ASSUME NEW t \in Task, ChildRecv(t) PROVE ServeInv'
  BY <1>12 DEF TypeOK, ServeInv, Reached, ChildRecv, ChildVarsBut
<1>13. ASSUME NEW t \in Task, ChildDial(t) PROVE ServeInv'
  BY <1>13 DEF TypeOK, ServeInv, Reached, ChildDial, ChildVarsBut
<1>14. ASSUME NEW t \in Task, ChildParse(t) PROVE ServeInv'
  BY <1>14 DEF TypeOK, ServeInv, Reached, ChildParse, ChildVarsBut
<1>15. ASSUME NEW t \in Task, ChildLosesDaemon(t) PROVE ServeInv'
  BY <1>15 DEF TypeOK, ServeInv, Reached, ChildLosesDaemon, ChildVarsBut
<1>16. ASSUME NEW t \in Task, NEW u \in Task, RelayDial(t, u) PROVE ServeInv'
  <2>1. ~ TopLevel(u)
    BY <1>16, RelayDialFacts
  <2>2. child' = child \/ child' = [child EXCEPT ![u] = "queued"]
    BY <1>16 DEF RelayDial, Delegate
  <2>3. UNCHANGED <<mtodo, serve, client, grp>>
    BY <1>16 DEF RelayDial
  <2>4. \A v \in Task : TopLevel(v) => (Reached(v)' <=> Reached(v))
    BY <2>1, <2>2 DEF Reached, TypeOK
  <2> QED BY <2>3, <2>4 DEF ServeInv, TypeOK
<1>17. ASSUME NEW t \in Task, RelayDone(t) PROVE ServeInv'
  BY <1>17 DEF TypeOK, ServeInv, Reached, RelayDone, ChildVarsBut
<1>18. ASSUME NEW t \in Task, ChildExit(t) PROVE ServeInv'
  BY <1>18 DEF TypeOK, ServeInv, Reached, ChildExit, ChildVarsBut
<1>19. ASSUME NEW t \in Task, ChildPanics(t) PROVE ServeInv'
  BY <1>19 DEF TypeOK, ServeInv, Reached, ChildPanics, ChildVarsBut
<1>20. ASSUME NEW t \in Task, ProgFails(t) PROVE ServeInv'
  BY <1>20 DEF TypeOK, ServeInv, Reached, ProgFails, ChildVarsBut
<1>21. CASE UNCHANGED <<client, serve, grp, mtodo, child>>
  BY <1>21 DEF TypeOK, ServeInv, Reached
<1> QED BY <1>1, <1>2, <1>3, <1>4, <1>5, <1>6, <1>7, <1>8, <1>9, <1>10, <1>11, <1>12, <1>13, <1>14, <1>15, <1>16, <1>17, <1>18, <1>19, <1>20, <1>21
     DEF vars, Next, ClientStep, MasterStep, DaemonStep, ChildStep,
         ClientCount, DaemonReap, DaemonPipeClosed, SendReq, ChildCount, ProgStart, ProgExit, IoEof

(* A step that reaches nobody and counts nobody keeps all counts.          *)
LEMMA CountQuiet ==
  ASSUME TypeOK, CountInv,
         \A t \in Task : Reached(t)' <=> Reached(t),
         \A t \in Task : io'[t] = "counted" <=> io[t] = "counted",
         \A t \in Task : child'[t] \in {"relay", "wait", "exited"} =>
                           child[t] \in {"relay", "wait", "exited"},
         \A c \in Cmd : client'[c] \in {"idle", "sent"} => client[c] \in {"idle", "sent"},
         \A c \in Cmd : client'[c] \in {"waiting", "done"} => client[c] \in {"waiting", "done"},
         UNCHANGED <<cneed, need, avail, nnodes>>
  PROVE  CountInv'
<1>1. \A c \in Cmd : Firsts(c)' = Firsts(c)
  BY DEF Firsts
<1>2. \A c \in Cmd : Missing(c)' = Missing(c)
  BY <1>1 DEF Missing, Firsts
<1>3. \A t \in Task : Awaited(t)' = Awaited(t)
  BY DEF Awaited, TypeOK
<1> QED BY <1>1, <1>2, <1>3 DEF CountInv

LEMMA CountStep == TypeOK /\ TreeInv /\ ServeInv /\ IoInv /\ CountInv /\ [Next]_vars => CountInv'
<1> SUFFICES ASSUME TypeOK, TreeInv, ServeInv, IoInv, CountInv, [Next]_vars PROVE CountInv'
  OBVIOUS
<1> USE DEF clientVars, masterVars, daemonVars, relayVars, taskVars, Running, Ended
<1>1. ASSUME NEW c \in Cmd, ClientSend(c) PROVE CountInv'
  <2>1. /\ UNCHANGED <<child, io, cneed, need, avail, nnodes>>
        /\ \A d \in Cmd : client'[d] \in {"idle", "sent"} => client[d] \in {"idle", "sent"}
        /\ \A d \in Cmd : client'[d] \in {"waiting", "done"} => client[d] \in {"waiting", "done"}
    BY <1>1 DEF TypeOK, ClientSend
  <2> QED BY <2>1, CountQuiet DEF Reached
<1>2. ASSUME NEW c \in Cmd, ClientResp(c) PROVE CountInv'
  <2>1. /\ client[c] = "sent" /\ client' = [client EXCEPT ![c] = "waiting"]
        /\ cneed' = [cneed EXCEPT ![c] = nnodes[c]]
        /\ UNCHANGED <<child, io, need, avail, nnodes>>
    BY <1>2 DEF ClientResp
  <2>2. /\ \A d \in Cmd : Firsts(d)' = Firsts(d) /\ Missing(d)' = Missing(d)
        /\ \A t \in Task : Awaited(t)' = Awaited(t)
    BY <2>1 DEF Firsts, Missing, Awaited, Reached
  <2>3. Missing(c) = Firsts(c) /\ nnodes[c] = Cardinality(Firsts(c))
    BY <2>1 DEF CountInv
  <2> QED BY <2>1, <2>2, <2>3 DEF CountInv, TypeOK
<1>3. ASSUME NEW c \in Cmd, ClientDone(c) PROVE CountInv'
  <2>1. /\ UNCHANGED <<child, io, cneed, need, avail, nnodes>>
        /\ \A d \in Cmd : client'[d] \in {"idle", "sent"} => client[d] \in {"idle", "sent"}
        /\ \A d \in Cmd : client'[d] \in {"waiting", "done"} => client[d] \in {"waiting", "done"}
    BY <1>3 DEF TypeOK, ClientDone
  <2> QED BY <2>1, CountQuiet DEF Reached
<1>4. ASSUME NEW c \in Cmd, ClientKilled(c) PROVE CountInv'
  <2>1. /\ UNCHANGED <<child, io, cneed, need, avail, nnodes>>
        /\ \A d \in Cmd : client'[d] \in {"idle", "sent"} => client[d] \in {"idle", "sent"}
        /\ \A d \in Cmd : client'[d] \in {"waiting", "done"} => client[d] \in {"waiting", "done"}
    BY <1>4 DEF TypeOK, ClientKilled
  <2> QED BY <2>1, CountQuiet DEF Reached
<1>5. ASSUME NEW c \in Cmd, NEW t \in Task, ClientCount(c, t) PROVE CountInv'
  <2>1. /\ client[c] = "waiting" /\ TopLevel(t) /\ CmdOf(t) = c /\ io[t] = "reported"
        /\ cneed' = [cneed EXCEPT ![c] = cneed[c] - 1]
        /\ io' = [io EXCEPT ![t] = "counted"]
        /\ UNCHANGED <<client, child, need, avail, nnodes>>
    BY <1>5 DEF ClientCount
  <2>2. t \in Missing(c)
    BY <2>1 DEF Missing, Firsts, Reached, IoInv
  <2>3. Missing(c)' = Missing(c) \ {t}
    BY <2>1, <2>2 DEF Missing, Firsts, Reached, TypeOK
  <2>4. \A d \in Cmd : Firsts(d)' = Firsts(d)
    BY <2>1 DEF Firsts, Reached
  <2>5. \A d \in Cmd : d # c => Missing(d)' = Missing(d)
    BY <2>1, <2>4 DEF Missing, Firsts, TypeOK
  <2>6. \A v \in Task : Awaited(v)' = Awaited(v)
    BY <2>1 DEF Awaited, TreeInv, Kids, TypeOK
  <2>7. cneed'[c] = Cardinality(Missing(c)')
    <3>1. Missing(c) \subseteq Task
      BY DEF Missing, Firsts
    <3>2. Cardinality(Missing(c) \ {t}) = Cardinality(Missing(c)) - 1
      BY <2>2, <3>1, FiniteTasks, FS_RemoveElement
    <3> QED BY <3>2, <2>1, <2>3 DEF CountInv, TypeOK
  <2> QED BY <2>1, <2>4, <2>5, <2>6, <2>7 DEF CountInv, TypeOK
<1>6. ASSUME NEW c \in Cmd, NEW t \in Task, MasterDial(c, t) PROVE CountInv'
  <2>1. /\ TopLevel(t) /\ ~ Reached(t) /\ CmdOf(t) = c /\ serve[c] = "serving"
        /\ io[t] # "counted"
    BY <1>6, MasterDialFacts DEF IoInv, Reached
  <2>2. client[c] \notin {"waiting", "done"}
    BY <2>1 DEF ServeInv
  <2>3. CASE daemon[NodeOf(t)] = "dead"
    <3>1. UNCHANGED <<child, io, client, cneed, need, avail, nnodes>>
      BY <1>6, <2>3 DEF MasterDial
    <3> QED BY <3>1, CountQuiet DEF Reached
  <2>4. CASE daemon[NodeOf(t)] # "dead"
    <3>1. /\ child' = [child EXCEPT ![t] = "queued"]
          /\ nnodes' = [nnodes EXCEPT ![c] = nnodes[c] + 1]
          /\ UNCHANGED <<io, client, cneed, need, avail>>
      BY <1>6, <2>4 DEF MasterDial, Delegate
    <3>2. \A v \in Task : Reached(v)' <=> v = t \/ Reached(v)
      BY <3>1 DEF Reached, TypeOK
    <3>3. Firsts(c)' = Firsts(c) \cup {t} /\ t \notin Firsts(c)
      BY <3>2, <2>1 DEF Firsts
    <3>4. Missing(c)' = Missing(c) \cup {t}
      BY <3>3, <3>1, <2>1 DEF Missing
    <3>5. \A d \in Cmd : d # c => Firsts(d)' = Firsts(d)
      BY <3>2, <2>1 DEF Firsts
    <3>6. \A d \in Cmd : d # c => Missing(d)' = Missing(d)
      BY <3>1, <3>5 DEF Missing
    <3>7. nnodes'[c] = Cardinality(Firsts(c)')
      <4>1. Firsts(c) \subseteq Task
        BY DEF Firsts
      <4>2. Cardinality(Firsts(c) \cup {t}) = Cardinality(Firsts(c)) + 1
        BY <4>1, <3>3, FiniteTasks, FS_AddElement
      <4> QED BY <4>2, <3>1, <3>3 DEF CountInv, TypeOK
    <3>8. \A v \in Task : /\ Awaited(v)' = Awaited(v)
                          /\ child'[v] \in {"relay", "wait", "exited"} => child'[v] = child[v]
      BY <3>1 DEF Awaited, TypeOK
    <3>9. \A v \in Task : child'[v] \in {"relay", "wait", "exited"} =>
                          need'[v] = Cardinality(Awaited(v)')
      BY <3>1, <3>8 DEF CountInv
    <3>10. \A d \in Cmd : nnodes'[d] = Cardinality(Firsts(d)')
      BY <3>1, <3>5, <3>7 DEF CountInv, TypeOK
    <3>11. \A d \in Cmd : client'[d] \in {"idle", "sent"} => Missing(d)' = Firsts(d)'
      BY <3>1, <3>3, <3>4, <3>5, <3>6 DEF CountInv
    <3>12. \A d \in Cmd : client'[d] \in {"waiting", "done"} =>
                          cneed'[d] = Cardinality(Missing(d)')
      BY <3>1, <3>6, <2>2 DEF CountInv
    <3> QED BY <3>9, <3>10, <3>11, <3>12 DEF CountInv
  <2> QED BY <2>3, <2>4
<1>7. ASSUME NEW n \in Node, NEW t \in Task, DaemonAccept(n, t) PROVE CountInv'
  <2>1. \A v \in Task : Reached(v)' <=> Reached(v)
    BY <1>7 DEF TypeOK, Reached, DaemonAccept
  <2>2. \A v \in Task : io'[v] = "counted" <=> io[v] = "counted"
    BY <1>7 DEF TypeOK, IoInv, DaemonAccept
  <2>3. \A v \in Task : child'[v] \in {"relay", "wait", "exited"} =>
                        child[v] \in {"relay", "wait", "exited"}
    BY <1>7 DEF TypeOK, DaemonAccept
  <2>4. UNCHANGED <<client, cneed, need, avail, nnodes>>
    BY <1>7 DEF DaemonAccept
  <2> QED BY <2>1, <2>2, <2>3, <2>4, CountQuiet
<1>8. ASSUME NEW n \in Node, NEW t \in Task, DaemonReply(n, t) PROVE CountInv'
  <2>1. UNCHANGED <<io, client, cneed, nnodes>>
    BY <1>8 DEF DaemonReply
  <2>2. CASE child[t] # "asked"
    <3>1. UNCHANGED <<child, need, avail>>
      BY <1>8, <2>2 DEF DaemonReply
    <3> QED BY <2>1, <3>1, CountQuiet DEF Reached
  <2>3. CASE child[t] = "asked"
    <3> DEFINE us == {u \in Kids(t) :
                        NodeOf(u) \in ServIntersect(reg[n], First(req[t]))}
    <3>1. /\ child' = [child EXCEPT ![t] = "relay"]
          /\ avail' = [avail EXCEPT ![t] = us]
          /\ need' = [need EXCEPT ![t] = Cardinality(us)]
      BY <1>8, <2>3 DEF DaemonReply
    <3>2. us \subseteq Kids(t)
      OBVIOUS
    <3> HIDE DEF us
    <3>3. \A u \in us : io[u] # "counted"
      BY <3>2, <2>3 DEF TreeInv, IoInv, Kids, Reached
    <3>4. Awaited(t)' = us
      BY <3>1, <3>3, <2>1 DEF Awaited, TypeOK
    <3>5. \A v \in Task : v # t => Awaited(v)' = Awaited(v)
      BY <3>1, <2>1 DEF Awaited, TypeOK
    <3>6. \A v \in Task : child'[v] \in {"relay", "wait", "exited"} =>
                          need'[v] = Cardinality(Awaited(v)')
      BY <3>1, <3>4, <3>5 DEF CountInv, TypeOK
    <3>7. \A v \in Task : Reached(v)' <=> Reached(v)
      BY <2>3, <3>1 DEF Reached, TypeOK
    <3>8. \A c \in Cmd : Firsts(c)' = Firsts(c)
      BY <3>7 DEF Firsts
    <3>9. \A c \in Cmd : Missing(c)' = Missing(c)
      BY <3>8, <2>1 DEF Missing
    <3> QED BY <2>1, <3>6, <3>8, <3>9 DEF CountInv
  <2> QED BY <2>2, <2>3
<1>9. ASSUME NEW n \in Node, DaemonDies(n) PROVE CountInv'
  <2>1. \A v \in Task : Reached(v)' <=> Reached(v)
    BY <1>9 DEF TypeOK, Reached, DaemonDies
  <2>2. \A v \in Task : io'[v] = "counted" <=> io[v] = "counted"
    BY <1>9 DEF TypeOK, IoInv, DaemonDies
  <2>3. \A v \in Task : child'[v] \in {"relay", "wait", "exited"} =>
                        child[v] \in {"relay", "wait", "exited"}
    BY <1>9 DEF TypeOK, DaemonDies
  <2>4. UNCHANGED <<client, cneed, need, avail, nnodes>>
    BY <1>9 DEF DaemonDies
  <2> QED BY <2>1, <2>2, <2>3, <2>4, CountQuiet
<1>10. ASSUME NEW t \in Task, ChildRecv(t) PROVE CountInv'
  <2>1. \A v \in Task : Reached(v)' <=> Reached(v)
    BY <1>10 DEF TypeOK, Reached, ChildRecv, ChildVarsBut
  <2>2. \A v \in Task : io'[v] = "counted" <=> io[v] = "counted"
    BY <1>10 DEF TypeOK, IoInv, ChildRecv, ChildVarsBut
  <2>3. \A v \in Task : child'[v] \in {"relay", "wait", "exited"} =>
                        child[v] \in {"relay", "wait", "exited"}
    BY <1>10 DEF TypeOK, ChildRecv, ChildVarsBut
  <2>4. UNCHANGED <<client, cneed, need, avail, nnodes>>
    BY <1>10 DEF ChildRecv, ChildVarsBut
  <2> QED BY <2>1, <2>2, <2>3, <2>4, CountQuiet
<1>11. ASSUME NEW t \in Task, ChildDial(t) PROVE CountInv'
  <2>1. \A v \in Task : Reached(v)' <=> Reached(v)
    BY <1>11 DEF TypeOK, Reached, ChildDial, ChildVarsBut
  <2>2. \A v \in Task : io'[v] = "counted" <=> io[v] = "counted"
    <3>1. io[t] # "counted"
      BY <1>11 DEF IoInv, ChildDial
    <3>2. io' = io \/ io' = [io EXCEPT ![t] = "copying"]
      BY <1>11 DEF ChildDial
    <3> QED BY <3>1, <3>2 DEF TypeOK
  <2>3. \A v \in Task : child'[v] \in {"relay", "wait", "exited"} =>
                        child[v] \in {"relay", "wait", "exited"}
    BY <1>11 DEF TypeOK, ChildDial, ChildVarsBut
  <2>4. UNCHANGED <<client, cneed, need, avail, nnodes>>
    BY <1>11 DEF ChildDial, ChildVarsBut
  <2> QED BY <2>1, <2>2, <2>3, <2>4, CountQuiet
<1>12. ASSUME NEW t \in Task, ChildParse(t) PROVE CountInv'
  <2>1. \A v \in Task : Reached(v)' <=> Reached(v)
    BY <1>12 DEF TypeOK, Reached, ChildParse, ChildVarsBut
  <2>2. \A v \in Task : io'[v] = "counted" <=> io[v] = "counted"
    BY <1>12 DEF TypeOK, IoInv, ChildParse, ChildVarsBut
  <2>3. \A v \in Task : child'[v] \in {"relay", "wait", "exited"} =>
                        child[v] \in {"relay", "wait", "exited"}
    BY <1>12 DEF TypeOK, ChildParse, ChildVarsBut
  <2>4. UNCHANGED <<client, cneed, need, avail, nnodes>>
    BY <1>12 DEF ChildParse, ChildVarsBut
  <2> QED BY <2>1, <2>2, <2>3, <2>4, CountQuiet
<1>13. ASSUME NEW t \in Task, ChildLosesDaemon(t) PROVE CountInv'
  <2>1. \A v \in Task : Reached(v)' <=> Reached(v)
    BY <1>13 DEF TypeOK, Reached, ChildLosesDaemon, ChildVarsBut
  <2>2. \A v \in Task : io'[v] = "counted" <=> io[v] = "counted"
    BY <1>13 DEF TypeOK, IoInv, ChildLosesDaemon, ChildVarsBut
  <2>3. \A v \in Task : child'[v] \in {"relay", "wait", "exited"} =>
                        child[v] \in {"relay", "wait", "exited"}
    BY <1>13 DEF TypeOK, ChildLosesDaemon, ChildVarsBut
  <2>4. UNCHANGED <<client, cneed, need, avail, nnodes>>
    BY <1>13 DEF ChildLosesDaemon, ChildVarsBut
  <2> QED BY <2>1, <2>2, <2>3, <2>4, CountQuiet
<1>14. ASSUME NEW t \in Task, NEW u \in Task, RelayDial(t, u) PROVE CountInv'
  <2>1. ~ TopLevel(u) /\ ~ Reached(u)
    BY <1>14, RelayDialFacts
  <2>2. UNCHANGED <<io, client, cneed, need, avail, nnodes>>
    BY <1>14 DEF RelayDial
  <2>3. child' = child \/ child' = [child EXCEPT ![u] = "queued"]
    BY <1>14 DEF RelayDial, Delegate
  <2>4. \A v \in Task : TopLevel(v) => (Reached(v)' <=> Reached(v))
    BY <2>1, <2>3 DEF Reached, TypeOK
  <2>5. \A c \in Cmd : Firsts(c)' = Firsts(c)
    BY <2>4 DEF Firsts
  <2>6. \A c \in Cmd : Missing(c)' = Missing(c)
    BY <2>5, <2>2 DEF Missing
  <2>7. \A v \in Task : child'[v] \in {"relay", "wait", "exited"} =>
                        need'[v] = Cardinality(Awaited(v)')
    BY <2>2, <2>3 DEF CountInv, TypeOK, Awaited
  <2> QED BY <2>2, <2>5, <2>6, <2>7 DEF CountInv
<1>15. ASSUME NEW t \in Task, RelayDone(t) PROVE CountInv'
  <2>1. \A v \in Task : Reached(v)' <=> Reached(v)
    BY <1>15 DEF TypeOK, Reached, RelayDone, ChildVarsBut
  <2>2. \A v \in Task : io'[v] = "counted" <=> io[v] = "counted"
    BY <1>15 DEF TypeOK, IoInv, RelayDone, ChildVarsBut
  <2>3. \A v \in Task : child'[v] \in {"relay", "wait", "exited"} =>
                        child[v] \in {"relay", "wait", "exited"}
    BY <1>15 DEF TypeOK, RelayDone, ChildVarsBut
  <2>4. UNCHANGED <<client, cneed, need, avail, nnodes>>
    BY <1>15 DEF RelayDone, ChildVarsBut
  <2> QED BY <2>1, <2>2, <2>3, <2>4, CountQuiet
<1>16. ASSUME NEW t \in Task, NEW u \in Task, ChildCount(t, u) PROVE CountInv'
  <2>1. /\ u \in Kids(t) /\ io[u] = "reported" /\ child[t] = "wait"
        /\ need' = [need EXCEPT ![t] = need[t] - 1]
        /\ io' = [io EXCEPT ![u] = "counted"]
        /\ UNCHANGED <<client, child, cneed, avail, nnodes>>
    BY <1>16 DEF ChildCount
  <2>2. ~ TopLevel(u) /\ Up(u) = t /\ u \in avail[t]
    BY <2>1 DEF IoInv, TreeInv, Reached, Kids
  <2>3. \A v \in Task : v # t => u \notin avail[v]
    BY <2>2 DEF TreeInv, Kids
  <2>4. Awaited(t)' = Awaited(t) \ {u} /\ u \in Awaited(t)
    BY <2>1, <2>2 DEF Awaited, TypeOK
  <2>5. \A v \in Task : v # t => Awaited(v)' = Awaited(v)
    BY <2>1, <2>3 DEF Awaited, TypeOK
  <2>6. need'[t] = Cardinality(Awaited(t)')
    <3>1. Awaited(t) \subseteq Task
      BY DEF Awaited, TypeOK
    <3>2. Cardinality(Awaited(t) \ {u}) = Cardinality(Awaited(t)) - 1
      BY <2>4, <3>1, FiniteTasks, FS_RemoveElement
    <3> QED BY <3>2, <2>1, <2>4 DEF CountInv, TypeOK
  <2>7. \A v \in Task : child'[v] \in {"relay", "wait", "exited"} =>
                        need'[v] = Cardinality(Awaited(v)')
    BY <2>1, <2>5, <2>6 DEF CountInv, TypeOK
  <2>8. \A c \in Cmd : Firsts(c)' = Firsts(c)
    BY <2>1 DEF Firsts, Reached
  <2>9. \A c \in Cmd : Missing(c)' = Missing(c)
    BY <2>1, <2>2, <2>8 DEF Missing, Firsts, TypeOK
  <2> QED BY <2>1, <2>7, <2>8, <2>9 DEF CountInv
<1>17. ASSUME NEW t \in Task, ChildExit(t) PROVE CountInv'
  <2>1. \A v \in Task : Reached(v)' <=> Reached(v)
    BY <1>17 DEF TypeOK, Reached, ChildExit, ChildVarsBut
  <2>2. \A v \in Task : io'[v] = "counted" <=> io[v] = "counted"
    BY <1>17 DEF TypeOK, IoInv, ChildExit, ChildVarsBut
  <2>3. \A v \in Task : child'[v] \in {"relay", "wait", "exited"} =>
                        child[v] \in {"relay", "wait", "exited"}
    BY <1>17 DEF TypeOK, ChildExit, ChildVarsBut
  <2>4. UNCHANGED <<client, cneed, need, avail, nnodes>>
    BY <1>17 DEF ChildExit, ChildVarsBut
  <2> QED BY <2>1, <2>2, <2>3, <2>4, CountQuiet
<1>18. ASSUME NEW t \in Task, ChildPanics(t) PROVE CountInv'
  <2>1. \A v \in Task : Reached(v)' <=> Reached(v)
    BY <1>18 DEF TypeOK, Reached, ChildPanics, ChildVarsBut
  <2>2. \A v \in Task : io'[v] = "counted" <=> io[v] = "counted"
    BY <1>18 DEF TypeOK, IoInv, ChildPanics, ChildVarsBut
  <2>3. \A v \in Task : child'[v] \in {"relay", "wait", "exited"} =>
                        child[v] \in {"relay", "wait", "exited"}
    BY <1>18 DEF TypeOK, ChildPanics, ChildVarsBut
  <2>4. UNCHANGED <<client, cneed, need, avail, nnodes>>
    BY <1>18 DEF ChildPanics, ChildVarsBut
  <2> QED BY <2>1, <2>2, <2>3, <2>4, CountQuiet
<1>19. ASSUME NEW t \in Task, ProgFails(t) PROVE CountInv'
  <2>1. \A v \in Task : Reached(v)' <=> Reached(v)
    BY <1>19 DEF TypeOK, Reached, ProgFails, ChildVarsBut
  <2>2. \A v \in Task : io'[v] = "counted" <=> io[v] = "counted"
    BY <1>19 DEF TypeOK, IoInv, ProgFails, ChildVarsBut
  <2>3. \A v \in Task : child'[v] \in {"relay", "wait", "exited"} =>
                        child[v] \in {"relay", "wait", "exited"}
    BY <1>19 DEF TypeOK, ProgFails, ChildVarsBut
  <2>4. UNCHANGED <<client, cneed, need, avail, nnodes>>
    BY <1>19 DEF ProgFails, ChildVarsBut
  <2> QED BY <2>1, <2>2, <2>3, <2>4, CountQuiet
<1>20. ASSUME NEW t \in Task, IoEof(t) PROVE CountInv'
  <2>1. \A v \in Task : Reached(v)' <=> Reached(v)
    BY <1>20 DEF TypeOK, Reached, IoEof
  <2>2. \A v \in Task : io'[v] = "counted" <=> io[v] = "counted"
    BY <1>20 DEF TypeOK, IoInv, IoEof
  <2>3. \A v \in Task : child'[v] \in {"relay", "wait", "exited"} =>
                        child[v] \in {"relay", "wait", "exited"}
    BY <1>20 DEF TypeOK, IoEof
  <2>4. UNCHANGED <<client, cneed, need, avail, nnodes>>
    BY <1>20 DEF IoEof
  <2> QED BY <2>1, <2>2, <2>3, <2>4, CountQuiet
<1>21. CASE UNCHANGED <<client, cneed, nnodes, child, avail, need, io>>
  BY <1>21, CountQuiet DEF Reached
<1> QED BY <1>1, <1>2, <1>3, <1>4, <1>5, <1>6, <1>7, <1>8, <1>9, <1>10, <1>11, <1>12, <1>13, <1>14, <1>15, <1>16, <1>17, <1>18, <1>19, <1>20, <1>21
     DEF vars, Next, ClientStep, MasterStep, DaemonStep, ChildStep,
         MasterRecv, MasterGroup, MasterReply, DaemonReap, DaemonPipeClosed, SendReq, ProgStart, ProgExit


(* How a delegation may move in one step: work starts by being dialled, a  *)
(* crash is for good, and a waiting R process ends by a crash or by        *)
(* leaving slaveProc.                                                      *)
Dialled(v) == \/ \E c \in Cmd : MasterDial(c, v)
              \/ \E t \in Task : RelayDial(t, v)
Moves(v) ==
  /\ Busy(v)' => Busy(v) \/ Dialled(v)
  /\ Reached(v) => Reached(v)'
  /\ Reached(v)' => Reached(v) \/ Dialled(v)
  /\ child[v] = "crashed" => child'[v] = "crashed"
  /\ child[v] \in Relaying => child'[v] \in Relaying \cup {"crashed"} \/ ChildExit(v)

LEMMA MovesStep == TypeOK /\ TreeInv /\ ServeInv /\ [Next]_vars => (\A v \in Task : Moves(v))
<1> SUFFICES ASSUME TypeOK, TreeInv, ServeInv, [Next]_vars PROVE (\A v \in Task : Moves(v))
  OBVIOUS
<1> USE DEF clientVars, masterVars, daemonVars, relayVars, taskVars, Running, Ended, Relaying
<1>1. ASSUME NEW c \in Cmd, NEW t \in Task, MasterDial(c, t) PROVE (\A v \in Task : Moves(v))
  <2> SUFFICES ASSUME NEW v \in Task PROVE Moves(v)
    OBVIOUS
  <2>1. child[t] = "none"
    BY <1>1, MasterDialFacts DEF Reached
  <2>2. child' = child \/ child' = [child EXCEPT ![t] = "queued"]
    BY <1>1 DEF MasterDial, Delegate
  <2>3. UNCHANGED prog /\ (v = t => Dialled(v))
    BY <1>1 DEF MasterDial, Dialled
  <2> QED BY <2>1, <2>2, <2>3 DEF TypeOK, Moves, Busy, Reached
<1>2. ASSUME NEW n \in Node, NEW t \in Task, DaemonAccept(n, t) PROVE (\A v \in Task : Moves(v))
  <2> SUFFICES ASSUME NEW v \in Task PROVE Moves(v)
    OBVIOUS
  <2> QED BY <1>2 DEF TypeOK, Moves, Busy, Reached, DaemonAccept
<1>3. ASSUME NEW n \in Node, NEW t \in Task, DaemonReply(n, t) PROVE (\A v \in Task : Moves(v))
  <2> SUFFICES ASSUME NEW v \in Task PROVE Moves(v)
    OBVIOUS
  <2> QED BY <1>3 DEF TypeOK, Moves, Busy, Reached, DaemonReply
<1>4. ASSUME NEW n \in Node, DaemonDies(n) PROVE (\A v \in Task : Moves(v))
  <2> SUFFICES ASSUME NEW v \in Task PROVE Moves(v)
    OBVIOUS
  <2> QED BY <1>4 DEF TypeOK, Moves, Busy, Reached, DaemonDies
<1>5. ASSUME NEW t \in Task, ChildRecv(t) PROVE (\A v \in Task : Moves(v))
  <2> SUFFICES ASSUME NEW v \in Task PROVE Moves(v)
    OBVIOUS
  <2> QED BY <1>5 DEF TypeOK, Moves, Busy, Reached, ChildRecv, ChildVarsBut
<1>6. ASSUME NEW t \in Task, ChildDial(t) PROVE (\A v \in Task : Moves(v))
  <2> SUFFICES ASSUME NEW v \in Task PROVE Moves(v)
    OBVIOUS
  <2> QED BY <1>6 DEF TypeOK, Moves, Busy, Reached, ChildDial, ChildVarsBut
<1>7. ASSUME NEW t \in Task, ChildParse(t) PROVE (\A v \in Task : Moves(v))
  <2> SUFFICES ASSUME NEW v \in Task PROVE Moves(v)
    OBVIOUS
  <2> QED BY <1>7 DEF TypeOK, Moves, Busy, Reached, ChildParse, ChildVarsBut
<1>8. ASSUME NEW t \in Task, ChildLosesDaemon(t) PROVE (\A v \in Task : Moves(v))
  <2> SUFFICES ASSUME NEW v \in Task PROVE Moves(v)
    OBVIOUS
  <2> QED BY <1>8 DEF TypeOK, Moves, Busy, Reached, ChildLosesDaemon, ChildVarsBut
<1>9. ASSUME NEW t \in Task, NEW u \in Task, RelayDial(t, u) PROVE (\A v \in Task : Moves(v))
  <2> SUFFICES ASSUME NEW v \in Task PROVE Moves(v)
    OBVIOUS
  <2>1. child[u] = "none"
    BY <1>9, RelayDialFacts DEF Reached
  <2>2. child' = child \/ child' = [child EXCEPT ![u] = "queued"]
    BY <1>9 DEF RelayDial, Delegate
  <2>3. UNCHANGED prog /\ (v = u => Dialled(v))
    BY <1>9 DEF RelayDial, Dialled
  <2> QED BY <2>1, <2>2, <2>3 DEF TypeOK, Moves, Busy, Reached
<1>10. ASSUME NEW t \in Task, RelayDone(t) PROVE (\A v \in Task : Moves(v))
  <2> SUFFICES ASSUME NEW v \in Task PROVE Moves(v)
    OBVIOUS
  <2> QED BY <1>10 DEF TypeOK, Moves, Busy, Reached, RelayDone, ChildVarsBut
<1>11. ASSUME NEW t \in Task, ChildExit(t) PROVE (\A v \in Task : Moves(v))
  <2> SUFFICES ASSUME NEW v \in Task PROVE Moves(v)
    OBVIOUS
  <2>1. child[t] = "wait" /\ child' = [child EXCEPT ![t] = "exited"] /\ UNCHANGED prog
    BY <1>11 DEF ChildExit, ChildVarsBut
  <2>2. v = t => ChildExit(v)
    BY <1>11
  <2> QED BY <2>1, <2>2 DEF TypeOK, Moves, Busy, Reached
<1>12. ASSUME NEW t \in Task, ChildPanics(t) PROVE (\A v \in Task : Moves(v))
  <2> SUFFICES ASSUME NEW v \in Task PROVE Moves(v)
    OBVIOUS
  <2> QED BY <1>12 DEF TypeOK, Moves, Busy, Reached, ChildPanics, ChildVarsBut
<1>13. ASSUME NEW t \in Task, ProgStart(t) PROVE (\A v \in Task : Moves(v))
  <2> SUFFICES ASSUME NEW v \in Task PROVE Moves(v)
    OBVIOUS
  <2> QED BY <1>13 DEF TypeOK, Moves, Busy, Reached, ProgStart
<1>14. ASSUME NEW t \in Task, ProgFails(t) PROVE (\A v \in Task : Moves(v))
  <2> SUFFICES ASSUME NEW v \in Task PROVE Moves(v)
    OBVIOUS
  <2> QED BY <1>14 DEF TypeOK, Moves, Busy, Reached, ProgFails, ChildVarsBut
<1>15. ASSUME NEW t \in Task, ProgExit(t) PROVE (\A v \in Task : Moves(v))
  <2> SUFFICES ASSUME NEW v \in Task PROVE Moves(v)
    OBVIOUS
  <2> QED BY <1>15 DEF TypeOK, Moves, Busy, Reached, ProgExit
<1>16. CASE UNCHANGED <<child, prog>>
  BY <1>16 DEF TypeOK, Moves, Busy, Reached
<1> QED BY <1>1, <1>2, <1>3, <1>4, <1>5, <1>6, <1>7, <1>8, <1>9, <1>10, <1>11, <1>12, <1>13, <1>14, <1>15, <1>16
     DEF vars, Next, ClientStep, MasterStep, DaemonStep, ChildStep,
         ClientSend, ClientResp, ClientDone, ClientKilled, ClientCount, MasterRecv, MasterGroup, MasterReply, DaemonReap, DaemonPipeClosed, SendReq, ChildCount, IoEof

(* An answer every one of the nodes has given leaves none of them at work. *)
LEMMA Counted ==
  ASSUME TypeOK, IoInv, NEW t \in Task, io[t] = "counted"
  PROVE  ~ Busy(t) /\ child[t] \notin Relaying
BY DEF TypeOK, IoInv, Busy, Running, Ended, Relaying

LEMMA BusyReached ==
  ASSUME IoInv, NEW t \in Task, Busy(t)
  PROVE  Reached(t)
BY DEF IoInv, Busy, Reached, Running

LEMMA NothingLeft ==
  ASSUME IInv, NEW c \in Cmd, Missing(c) = {}, NEW t \in Task, CmdOf(t) = c
  PROVE  ~ Open(t)
<1> SUFFICES ASSUME Open(t) PROVE FALSE
  OBVIOUS
<1>1. Busy(t)
  BY DEF Open
<1>2. PICK r \in Over(t) \cup {t} : TopLevel(r)
  BY OverFacts
<1>3. r \in Task /\ CmdOf(r) = c
  BY <1>2, OverFacts
<1>4. r # t => child[r] \in Relaying
  BY <1>2 DEF IInv, RootedInv
<1>5. Reached(r)
  BY <1>1, <1>3, <1>4, BusyReached DEF IInv, Reached, Relaying
<1>6. io[r] = "counted"
  BY <1>2, <1>3, <1>5 DEF Missing, Firsts
<1> QED BY <1>1, <1>3, <1>4, <1>6, Counted DEF IInv

LEMMA AwaitsAll ==
  ASSUME IInv, NEW t \in Task, Open(t), NEW a \in Over(t)
  PROVE  ~ ChildExit(a)
<1> SUFFICES ASSUME ChildExit(a) PROVE FALSE
  OBVIOUS
<1>1. a \in Task /\ Awaited(a) \subseteq Task
  BY OverFacts DEF Awaited, IInv, TypeOK
<1>2. Awaited(a) = {}
  <2>1. Cardinality(Awaited(a)) = 0
    BY <1>1 DEF IInv, CountInv, ChildExit
  <2> QED BY <1>1, <2>1, FiniteTasks, FS_EmptySet
<1>3. PICK k \in Over(t) \cup {t} : ~ TopLevel(k) /\ Up(k) = a
  BY OverFacts
<1>4. k \in Task /\ (k # t => child[k] \in Relaying)
  BY <1>3, OverFacts DEF IInv, RootedInv
<1>5. Busy(t)
  BY DEF Open
<1>6. Reached(k)
  BY <1>4, <1>5, BusyReached DEF IInv, Reached, Relaying
<1>7. k \in avail[a]
  BY <1>3, <1>4, <1>6 DEF IInv, TreeInv
<1>8. io[k] = "counted"
  BY <1>2, <1>7 DEF Awaited
<1> QED BY <1>4, <1>5, <1>8, Counted DEF IInv

(* A delegation that is passed on in good standing comes from one that is. *)
LEMMA RelayOpen ==
  ASSUME TypeOK, TreeInv, NEW t \in Task, NEW u \in Task, RelayDial(t, u), ~ Orphan(u)'
  PROVE  /\ Open(t) /\ Over(u) = {t} \cup Over(t) /\ CmdOf(u) = CmdOf(t)
         /\ \A a \in Over(u) : child'[a] = child[a]
<1>1. ~ TopLevel(u) /\ ~ Reached(u) /\ Up(u) = t /\ u \in avail[t]
  BY RelayDialFacts
<1>2. Over(u) = {t} \cup Over(t) /\ CmdOf(u) = CmdOf(t) /\ Over(u) \subseteq Task
  BY <1>1, UpFacts, OverFacts
<1>3. child[t] = "relay"
  BY DEF RelayDial
<1>4. u \notin Over(u)
  BY TaskParts, TreeAssumption DEF Over, NodeOf
<1>5. \A a \in Over(u) : child'[a] = child[a]
  BY <1>2, <1>4 DEF RelayDial, Delegate, TypeOK
<1>6. ~ Orphan(t)
  BY <1>2, <1>5 DEF Orphan
<1> QED BY <1>2, <1>3, <1>5, <1>6 DEF Open, Busy, Running

LEMMA RootedStep == IInv /\ [Next]_vars => RootedInv'
<1> SUFFICES ASSUME IInv, [Next]_vars, NEW t \in Task, Open(t)', NEW a \in Over(t)
             PROVE  child'[a] \in Relaying
  BY DEF RootedInv
<1>1. Moves(t) /\ Moves(a) /\ a \in Task /\ \A b \in Over(t) : Moves(b)
  BY MovesStep, OverFacts DEF IInv
<1>2. ~ Orphan(t)' /\ Busy(t)' /\ child'[a] # "crashed"
  BY DEF Open, Orphan
<1>3. CASE Busy(t)
  <2>1. Open(t)
    BY <1>1, <1>2, <1>3 DEF Open, Orphan, Moves
  <2>2. child[a] \in Relaying
    BY <2>1 DEF IInv, RootedInv
  <2> QED BY <1>1, <1>2, <2>1, <2>2, AwaitsAll DEF Moves
<1>4. ASSUME NEW c \in Cmd, MasterDial(c, t) PROVE child'[a] \in Relaying
  BY <1>4, MasterDialFacts, OverFacts DEF IInv
<1>5. ASSUME NEW u \in Task, RelayDial(u, t) PROVE child'[a] \in Relaying
  <2>1. /\ Open(u) /\ Over(t) = {u} \cup Over(u)
        /\ child'[a] = child[a]
    BY <1>2, <1>5, RelayOpen DEF IInv
  <2>2. child[u] \in Relaying
    BY <1>5 DEF RelayDial, Relaying
  <2> QED BY <2>1, <2>2 DEF IInv, RootedInv
<1> QED BY <1>1, <1>2, <1>3, <1>4, <1>5 DEF Moves, Dialled

(* Who can change the phase of a client.                                   *)
LEMMA ClientMoves ==
  ASSUME [Next]_vars
  PROVE  \/ UNCHANGED client
         \/ \E c \in Cmd : ClientSend(c) \/ ClientResp(c) \/ ClientDone(c) \/ ClientKilled(c)
<1> USE DEF clientVars, masterVars, daemonVars, relayVars, taskVars
<1>1. ASSUME NEW c \in Cmd, MasterStep(c) PROVE UNCHANGED client
  BY <1>1 DEF MasterStep, MasterRecv, MasterGroup, MasterReply, MasterDial
<1>2. ASSUME NEW n \in Node, DaemonStep(n) \/ DaemonDies(n) PROVE UNCHANGED client
  BY <1>2 DEF DaemonStep, DaemonAccept, DaemonReply, DaemonReap, DaemonDies
<1>3. ASSUME NEW n \in Node, NEW t \in Task, DaemonPipeClosed(n, t) PROVE UNCHANGED client
  BY <1>3 DEF DaemonPipeClosed
<1>4. ASSUME NEW t \in Task, ChildStep(t) PROVE UNCHANGED client
  BY <1>4 DEF ChildStep, ChildVarsBut, ChildRecv, ChildDial, ChildParse, ChildLosesDaemon,
              RelayDone, ChildExit, RelayDial, ChildCount
<1>5. ASSUME NEW t \in Task,
             \/ SendReq(t) \/ IoEof(t) \/ ProgStart(t) \/ ProgFails(t) \/ ProgExit(t)
             \/ ChildPanics(t)
      PROVE  UNCHANGED client
  BY <1>5 DEF SendReq, IoEof, ProgStart, ProgFails, ProgExit, ChildPanics, ChildVarsBut
<1>6. ASSUME NEW c \in Cmd, NEW t \in Task, ClientCount(c, t) PROVE UNCHANGED client
  BY <1>6 DEF ClientCount
<1>7. UNCHANGED vars => UNCHANGED client
  BY DEF vars
<1>8. ASSUME NEW c \in Cmd, ClientSend(c) \/ ClientStep(c) \/ MasterStep(c) \/ ClientKilled(c)
      PROVE  \/ UNCHANGED client
             \/ ClientSend(c) \/ ClientResp(c) \/ ClientDone(c) \/ ClientKilled(c)
  BY <1>1, <1>6, <1>8 DEF ClientStep
<1> QED BY <1>2, <1>3, <1>4, <1>5, <1>7, <1>8 DEF Next

LEMMA ClientFinishes ==
  ASSUME TypeOK, [Next]_vars, NEW c \in Cmd, client'[c] = "done", client[c] # "done"
  PROVE  ClientDone(c)
<1> USE DEF clientVars, masterVars, daemonVars, relayVars, taskVars
<1>1. ASSUME NEW d \in Cmd, ClientSend(d) PROVE FALSE
  BY <1>1 DEF ClientSend, TypeOK
<1>2. ASSUME NEW d \in Cmd, ClientResp(d) PROVE FALSE
  BY <1>2 DEF ClientResp, TypeOK
<1>3. ASSUME NEW d \in Cmd, ClientKilled(d) PROVE FALSE
  BY <1>3 DEF ClientKilled, TypeOK
<1>4. ASSUME NEW d \in Cmd, ClientDone(d) PROVE d = c
  BY <1>4 DEF ClientDone, TypeOK
<1> QED BY <1>1, <1>2, <1>3, <1>4, ClientMoves

LEMMA DoneStep == IInv /\ [Next]_vars => DoneInv'
<1> SUFFICES ASSUME IInv, [Next]_vars, NEW c \in Cmd, client'[c] = "done",
                    NEW t \in Task, CmdOf(t) = c, Open(t)'
             PROVE  FALSE
  BY DEF DoneInv
<1>1. Moves(t) /\ \A b \in Over(t) : Moves(b)
  BY MovesStep, OverFacts DEF IInv
<1>2. ~ Orphan(t)' /\ Busy(t)'
  BY DEF Open
<1>3. Busy(t) => Open(t)
  BY <1>1, <1>2 DEF Open, Orphan, Moves
<1>4. CASE client[c] = "done"
  <2>1. Dialled(t)
    BY <1>1, <1>2, <1>3, <1>4 DEF Moves, IInv, DoneInv
  <2>2. ASSUME NEW d \in Cmd, MasterDial(d, t) PROVE FALSE
    BY <2>2, <1>4, MasterDialFacts DEF IInv, ServeInv
  <2>3. ASSUME NEW u \in Task, RelayDial(u, t) PROVE FALSE
    BY <2>3, <1>2, <1>4, RelayOpen DEF IInv, DoneInv
  <2> QED BY <2>1, <2>2, <2>3 DEF Dialled
<1>5. CASE client[c] # "done"
  <2>1. client[c] = "waiting" /\ cneed[c] = 0 /\ UNCHANGED <<child, prog>>
    BY <1>5, ClientFinishes DEF ClientDone, IInv, taskVars
  <2>2. Open(t)
    BY <2>1, <1>2, <1>3 DEF Busy
  <2>3. Missing(c) \subseteq Task
    BY DEF Missing, Firsts
  <2>4. Missing(c) = {}
    BY <2>1, <2>3, FiniteTasks, FS_EmptySet DEF IInv, CountInv
  <2> QED BY <2>2, <2>4, NothingLeft
<1> QED BY <1>4, <1>5

LEMMA IInvInit == Init => IInv
<1> SUFFICES ASSUME Init PROVE IInv
  OBVIOUS
<1>1. TypeOK
  BY TypeInit
<1>2. \A t \in Task : child[t] = "none" /\ prog[t] = "none" /\ io[t] = "none" /\ avail[t] = {} /\ todo[t] = {}
  BY DEF Init
<1>3. \A c \in Cmd : Firsts(c) = {} /\ Missing(c) = {}
  BY <1>2 DEF Firsts, Missing, Reached
<1>4. \A t \in Task : ~ Open(t)
  BY <1>2 DEF Open, Busy, Running
<1>5. LoopInv
  BY <1>2 DEF Init, LoopInv, Running
<1>6. TreeInv
  BY <1>2 DEF Init, TreeInv, Reached
<1>7. IoInv
  BY <1>2 DEF IoInv
<1>8. ServeInv
  BY <1>2 DEF Init, ServeInv, Reached
<1>9. CountInv
  BY <1>2, <1>3, FS_EmptySet DEF Init, CountInv
<1>10. RootedInv /\ DoneInv
  BY <1>4 DEF RootedInv, DoneInv
<1> QED BY <1>1, <1>5, <1>6, <1>7, <1>8, <1>9, <1>10 DEF IInv

LEMMA IInvStep == IInv /\ [Next]_vars => IInv'
BY TypeStep, LoopStep, TreeStep, IoStep, ServeStep, CountStep, RootedStep, DoneStep DEF IInv

THEOREM Invariance == Spec => []IInv
BY IInvInit, IInvStep, PTL DEF Spec

-----------------------------------------------------------------------------
(* What follows from it.                                                   *)

(* When "gproc e" returns, whatever of its command is still at work        *)
(* anywhere in the tree is below an R process that crashed.                *)
THEOREM CompletionIsSound == Spec => []CompletionSound
<1>1. IInv => CompletionSound
  BY DEF IInv, DoneInv, CompletionSound, Open
<1> QED BY <1>1, Invariance, PTL

(* An R process that leaves slaveProc normally leaves nothing running      *)
(* below it, except below a crash.                                         *)
THEOREM SubtreeEndsFirst == Spec => []ExitAfterSubtree
<1>1. IInv => ExitAfterSubtree
  BY DEF IInv, RootedInv, ExitAfterSubtree, Open, Relaying
<1> QED BY <1>1, Invariance, PTL

(* No slave daemon ever has two live R processes.                          *)
THEOREM OneAtATime == Spec => []OneChildPerNode
<1>1. IInv => OneChildPerNode
  BY TaskParts DEF IInv, LoopInv, OneChildPerNode
<1> QED BY <1>1, Invariance, PTL

(* While it waits, mexec counts down exactly the first-level nodes that    *)
(* were reached and have not reported.                                     *)
THEOREM CountIsExact == Spec => []NumNodesExact
<1>1. ASSUME IInv PROVE NumNodesExact
  <2> SUFFICES ASSUME NEW c \in Cmd, client[c] = "waiting"
               PROVE  cneed[c] = Cardinality({t \in Task :
                          /\ CmdOf(t) = c /\ TopLevel(t)
                          /\ child[t] # "none" /\ io[t] # "counted"})
    BY DEF NumNodesExact
  <2>1. Missing(c) = {t \in Task : /\ CmdOf(t) = c /\ TopLevel(t)
                                  /\ child[t] # "none" /\ io[t] # "counted"}
    BY DEF Missing, Firsts, Reached
  <2> QED BY <2>1, <1>1 DEF IInv, CountInv
<1> QED BY <1>1, Invariance, PTL

-----------------------------------------------------------------------------
(* Which part of its path a delegation carries.                            *)

Depth(n)  == Cardinality(Above[n])
PathOf(t) == Request[CmdOf(t)][GrpOf(t)]

(* What is left of p after k more levels have taken their selector.        *)
Below(p, k) == SubSeq(p, k + 2, Len(p))

(* A group that is being worked on has its rest in sub; what a delegation  *)
(* carries is what is left at its depth.                                   *)
PathInv ==
  /\ \A c \in Cmd : mtodo[c] # {} =>
       grp[c] \in 1..Len(Request[c]) /\ sub[c] = Rest(Request[c][grp[c]])
  /\ \A t \in Task : Reached(t) =>
       /\ GrpOf(t) \in 1..Len(Request[CmdOf(t)])
       /\ req[t] = Below(PathOf(t), Depth(NodeOf(t)))

LEMMA BelowFirst ==
  ASSUME NEW p \in Path
  PROVE  Rest(p) = Below(p, 0)
<1>1. CASE p = <<>>
  BY <1>1 DEF Rest, Below, Path
<1>2. CASE p # <<>>
  <2>1. Rest(p) \in Seq(Selector) /\ Len(Rest(p)) = Len(p) - 1
        /\ \A i \in 1..(Len(p) - 1) : Rest(p)[i] = p[i + 1]
    BY <1>2 DEF Rest, Path
  <2>2. Below(p, 0) \in Seq(Selector) /\ Len(Below(p, 0)) = Len(p) - 1
        /\ \A i \in 1..(Len(p) - 1) : Below(p, 0)[i] = p[i + 1]
    <3>1. p \in Seq(Selector) /\ Len(p) \in Nat \ {0}
      BY <1>2 DEF Path
    <3>2. Below(p, 0) = SubSeq(p, 2, Len(p))
      BY DEF Below
    <3>3. \A i \in 2..Len(p) : p[i] \in Selector
      BY <3>1, ElementOfSeq
    <3>4. /\ SubSeq(p, 2, Len(p)) \in Seq(Selector)
          /\ Len(SubSeq(p, 2, Len(p))) = IF 2 <= Len(p) THEN Len(p) - 2 + 1 ELSE 0
          /\ \A i \in 1..(Len(p) - 2 + 1) : SubSeq(p, 2, Len(p))[i] = p[2 + i - 1]
      BY <3>1, <3>3, SubSeqProperties
    <3>5. Len(SubSeq(p, 2, Len(p))) = Len(p) - 1
      <4> DEFINE n == Len(p)
                 l == Len(SubSeq(p, 2, Len(p)))
      <4>1. n \in Nat \ {0} /\ l = IF 2 <= n THEN n - 2 + 1 ELSE 0
        BY <3>1, <3>4
      <4> HIDE DEF n, l
      <4>2. l = n - 1
        BY <4>1
      <4> QED BY <4>2 DEF n, l
    <3>6. ASSUME NEW i \in 1..(Len(p) - 1) PROVE SubSeq(p, 2, Len(p))[i] = p[i + 1]
      <4>1. i \in 1..(Len(p) - 2 + 1) /\ 2 + i - 1 = i + 1
        BY <3>1
      <4> QED BY <4>1, <3>4
    <3> QED BY <3>2, <3>4, <3>5, <3>6
  <2> QED BY <2>1, <2>2, SeqEqual
<1> QED BY <1>1, <1>2

LEMMA BelowNext ==
  ASSUME NEW p \in Path, NEW k \in Nat
  PROVE  Rest(Below(p, k)) = Below(p, k + 1)
<1> DEFINE q == Below(p, k)
           r == Below(p, k + 1)
<1>1. p \in Seq(Selector) /\ Len(p) \in Nat
  BY DEF Path
<1>2. CASE Len(p) <= k + 1
  <2>1. q = <<>> /\ r = <<>>
    BY <1>1, <1>2 DEF Below
  <2> QED BY <2>1 DEF Rest
<1>3. CASE Len(p) > k + 1
  <2>1. /\ q \in Seq(Selector) /\ Len(q) = Len(p) - (k + 1)
        /\ \A i \in 1..Len(q) : q[i] = p[i + (k + 1)]
    BY <1>1, <1>3 DEF Below
  <2>2. /\ r \in Seq(Selector) /\ Len(r) = Len(p) - (k + 2)
        /\ \A i \in 1..Len(r) : r[i] = p[i + (k + 2)]
    BY <1>1, <1>3 DEF Below
  <2> HIDE DEF q, r
  <2>3. /\ q # <<>> /\ Rest(q) \in Seq(Selector) /\ Len(Rest(q)) = Len(q) - 1
        /\ \A i \in 1..(Len(q) - 1) : Rest(q)[i] = q[i + 1]
    BY <1>1, <1>3, <2>1 DEF Rest
  <2>4. Len(Rest(q)) = Len(r)
    BY <1>1, <2>1, <2>2, <2>3
  <2>5. \A i \in 1..Len(r) : Rest(q)[i] = r[i]
    <3> TAKE i \in 1..Len(r)
    <3>1. i + 1 \in 1..Len(q) /\ i \in 1..(Len(q) - 1)
      BY <1>1, <1>3, <2>1, <2>2
    <3>2. Rest(q)[i] = p[(i + 1) + (k + 1)] /\ r[i] = p[i + (k + 2)]
      BY <2>1, <2>2, <2>3, <3>1
    <3>3. (i + 1) + (k + 1) = i + (k + 2)
      BY <1>1, <2>2
    <3> QED BY <3>2, <3>3
  <2> QED BY <2>2, <2>3, <2>4, <2>5, SeqEqual DEF q, r
<1> QED BY <1>1, <1>2, <1>3

(* One level further down there is one slave more above.                   *)
LEMMA DepthFacts ==
  ASSUME NEW t \in Task
  PROVE  /\ Depth(NodeOf(t)) \in Nat
         /\ TopLevel(t) => Depth(NodeOf(t)) = 0
         /\ ~ TopLevel(t) => Depth(NodeOf(t)) = Depth(Parent[NodeOf(t)]) + 1
<1>1. ASSUME NEW n \in Node PROVE IsFiniteSet(Above[n])
  <2> DEFINE over == {<<CmdOf(t), GrpOf(t), a>> : a \in Above[n]}
             f == [x \in over |-> NodeOf(x)]
  <2>1. over \subseteq Task
    BY TaskParts, TaskOf, TreeAssumption
  <2>2. IsFiniteSet(over)
    BY <2>1, FiniteTasks
  <2>3. \A a \in Above[n] : NodeOf(<<CmdOf(t), GrpOf(t), a>>) = a
    BY TaskParts, TaskOf, TreeAssumption
  <2>4. f \in Surjection(over, Above[n])
    BY <2>3 DEF Surjection
  <2> QED BY <2>2, <2>4, FS_Surjection
<1>2. NodeOf(t) \in Node
  BY TaskParts
<1>3. Depth(NodeOf(t)) \in Nat
  BY <1>1, <1>2, FS_CardinalityType DEF Depth
<1>4. TopLevel(t) => Depth(NodeOf(t)) = 0
  BY <1>2, TreeAssumption, FS_EmptySet DEF TopLevel, Depth
<1>5. ASSUME ~ TopLevel(t) PROVE Depth(NodeOf(t)) = Depth(Parent[NodeOf(t)]) + 1
  <2>1. /\ Parent[NodeOf(t)] \in Node
        /\ Above[NodeOf(t)] = Above[Parent[NodeOf(t)]] \cup {Parent[NodeOf(t)]}
        /\ Parent[NodeOf(t)] \notin Above[Parent[NodeOf(t)]]
    BY <1>2, <1>5, TreeAssumption DEF TopLevel
  <2> QED BY <1>1, <2>1, FS_AddElement DEF Depth
<1> QED BY <1>3, <1>4, <1>5

LEMMA PathInit == Init => PathInv
BY DEF Init, PathInv, Reached

(* A step that reaches nobody and starts no group.                         *)
LEMMA PathQuiet ==
  ASSUME TypeOK, PathInv, UNCHANGED <<req, grp, sub>>,
         \A c \in Cmd : mtodo'[c] \subseteq mtodo[c],
         \A t \in Task : Reached(t)' => Reached(t)
  PROVE  PathInv'
BY DEF PathInv

(* A step that reaches u and gives it the rest of its path.                *)
LEMMA PathReach ==
  ASSUME TypeOK, PathInv, UNCHANGED <<grp, sub>>,
         \A c \in Cmd : mtodo'[c] \subseteq mtodo[c],
         NEW u \in Task, NEW p, Delegate(u, p),
         GrpOf(u) \in 1..Len(Request[CmdOf(u)]),
         p = Below(PathOf(u), Depth(NodeOf(u)))
  PROVE  PathInv'
<1>1. \A t \in Task \ {u} : (Reached(t)' <=> Reached(t)) /\ req'[t] = req[t]
  BY DEF Delegate, TypeOK, Reached
<1>2. req'[u] = p
  BY DEF Delegate, TypeOK
<1> QED BY <1>1, <1>2 DEF PathInv

LEMMA PathStep == IInv /\ PathInv /\ [Next]_vars => PathInv'
<1> SUFFICES ASSUME IInv, PathInv, [Next]_vars PROVE PathInv'
  OBVIOUS
<1> USE DEF clientVars, masterVars, daemonVars, relayVars, taskVars
<1>0. TypeOK /\ TreeInv /\ ServeInv
  BY DEF IInv
<1>1. ASSUME NEW c \in Cmd, MasterGroup(c) PROVE PathInv'
  <2> DEFINE g == grp[c] + 1
  <2>1. g \in 1..Len(Request[c]) /\ grp' = [grp EXCEPT ![c] = g]
    BY <1>0, <1>1, RequestParts DEF TypeOK, MasterGroup
  <2>2. sub' = [sub EXCEPT ![c] = Rest(Request[c][g])]
    BY <1>1 DEF MasterGroup
  <2>3. UNCHANGED <<child, req>> /\ \A d \in Cmd \ {c} : mtodo'[d] = mtodo[d]
    BY <1>0, <1>1 DEF MasterGroup, TypeOK
  <2> HIDE DEF g
  <2>4. /\ grp'[c] = g /\ sub'[c] = Rest(Request[c][g])
        /\ \A d \in Cmd \ {c} : grp'[d] = grp[d] /\ sub'[d] = sub[d]
    BY <1>0, <2>1, <2>2 DEF TypeOK
  <2> QED BY <2>1, <2>3, <2>4 DEF PathInv, Reached
<1>2. ASSUME NEW c \in Cmd, NEW t \in Task, MasterDial(c, t) PROVE PathInv'
  <2>1. /\ t \in mtodo[c] /\ CmdOf(t) = c /\ GrpOf(t) = grp[c] /\ TopLevel(t)
        /\ UNCHANGED <<grp, sub>> /\ \A d \in Cmd : mtodo'[d] \subseteq mtodo[d]
    BY <1>0, <1>2 DEF MasterDial, ServeInv, TypeOK
  <2>2. CASE Delegate(t, sub[c])
    <3>1. grp[c] \in 1..Len(Request[c]) /\ sub[c] = Rest(Request[c][grp[c]])
      BY <2>1 DEF PathInv
    <3>2. sub[c] = Below(PathOf(t), Depth(NodeOf(t)))
      BY <2>1, <3>1, RequestParts, BelowFirst, DepthFacts DEF PathOf
    <3> QED BY <1>0, <2>1, <2>2, <3>1, <3>2, PathReach
  <2>3. CASE UNCHANGED <<child, req>>
    BY <1>0, <2>1, <2>3, PathQuiet DEF Reached
  <2> QED BY <1>2, <2>2, <2>3 DEF MasterDial
<1>3. ASSUME NEW t \in Task, NEW u \in Task, RelayDial(t, u) PROVE PathInv'
  <2>1. /\ u \in Kids(t) /\ Reached(t)
        /\ UNCHANGED <<grp, sub>> /\ \A d \in Cmd : mtodo'[d] \subseteq mtodo[d]
    BY <1>0, <1>3 DEF RelayDial, TreeInv, Reached
  <2>2. CASE Delegate(u, Rest(req[t]))
    <3>1. /\ ~ TopLevel(u) /\ Up(u) = t
          /\ CmdOf(t) = CmdOf(u) /\ GrpOf(t) = GrpOf(u) /\ NodeOf(t) = Parent[NodeOf(u)]
      BY <2>1 DEF Kids, Up, CmdOf, GrpOf, NodeOf
    <3>2. /\ GrpOf(t) \in 1..Len(Request[CmdOf(t)])
          /\ req[t] = Below(PathOf(t), Depth(NodeOf(t)))
      BY <2>1 DEF PathInv
    <3>3. PathOf(t) \in Path /\ PathOf(u) = PathOf(t)
      BY <3>1, <3>2, TaskParts, RequestParts DEF PathOf
    <3>4. Depth(NodeOf(t)) \in Nat /\ Depth(NodeOf(u)) = Depth(NodeOf(t)) + 1
      BY <3>1, DepthFacts
    <3>5. Rest(req[t]) = Below(PathOf(u), Depth(NodeOf(u)))
      BY <3>2, <3>3, <3>4, BelowNext
    <3> QED BY <1>0, <2>1, <2>2, <3>1, <3>2, <3>5, PathReach
  <2>3. CASE UNCHANGED <<child, req>>
    BY <1>0, <2>1, <2>3, PathQuiet DEF Reached
  <2> QED BY <1>3, <2>2, <2>3 DEF RelayDial
<1>4. ASSUME UNCHANGED <<req, grp, sub, mtodo>>, \A t \in Task : Reached(t)' => Reached(t)
      PROVE  PathInv'
  BY <1>0, <1>4, PathQuiet
<1>5. ASSUME NEW c \in Cmd,
             ClientSend(c) \/ ClientStep(c) \/ ClientKilled(c) \/ MasterRecv(c) \/ MasterReply(c)
      PROVE  PathInv'
  BY <1>4, <1>5 DEF Reached, ClientSend, ClientStep, ClientKilled, ClientResp, ClientDone,
                    ClientCount, MasterRecv, MasterReply
<1>6. ASSUME NEW n \in Node, NEW t \in Task,
             DaemonAccept(n, t) \/ DaemonReply(n, t) \/ DaemonReap(n, t) \/ DaemonPipeClosed(n, t)
      PROVE  PathInv'
  <2>1. UNCHANGED <<req, grp, sub, mtodo>>
    BY <1>6 DEF DaemonAccept, DaemonReply, DaemonReap, DaemonPipeClosed
  <2>2. \A v \in Task : Reached(v)' => Reached(v)
    BY <1>0, <1>6 DEF TypeOK, Reached, DaemonAccept, DaemonReply, DaemonReap, DaemonPipeClosed
  <2> QED BY <1>4, <2>1, <2>2
<1>7. ASSUME NEW n \in Node, DaemonDies(n) PROVE PathInv'
  BY <1>0, <1>4, <1>7 DEF TypeOK, Reached, DaemonDies
<1>8. ASSUME NEW t \in Task,
             \/ ChildRecv(t) \/ ChildDial(t) \/ ChildParse(t) \/ ChildLosesDaemon(t)
             \/ RelayDone(t) \/ ChildExit(t) \/ ProgFails(t) \/ ChildPanics(t)
      PROVE  PathInv'
  <2>1. /\ UNCHANGED <<req, grp, sub, mtodo>>
        /\ child[t] # "none" /\ \A v \in Task \ {t} : child'[v] = child[v]
    BY <1>0, <1>8 DEF TypeOK, ChildRecv, ChildDial, ChildParse, ChildLosesDaemon, RelayDone,
                      ChildExit, ProgFails, ChildPanics, ChildVarsBut, Running
  <2> QED BY <1>4, <2>1 DEF Reached
<1>9. ASSUME NEW t \in Task,
             \/ SendReq(t) \/ IoEof(t) \/ ProgStart(t) \/ ProgExit(t)
             \/ \E u \in Task : ChildCount(t, u)
      PROVE  PathInv'
  BY <1>4, <1>9 DEF Reached, SendReq, IoEof, ProgStart, ProgExit, ChildCount
<1>10. CASE UNCHANGED vars
  BY <1>4, <1>10 DEF Reached, vars
<1> QED BY <1>1, <1>2, <1>3, <1>5, <1>6, <1>7, <1>8, <1>9, <1>10
     DEF Next, ClientStep, MasterStep, DaemonStep, ChildStep

(* Whatever node is reached, by whatever way, however far the master has   *)
(* gone on meanwhile: it gets the rest of the path of its own group.       *)
THEOREM EachItsOwnPath == Spec => []OwnPath
<1>1. PathInv => OwnPath
  BY DEF PathInv, OwnPath, Reached, Below, PathOf, Depth
<1>2. IInv /\ PathInv /\ [Next]_vars => PathInv'
  BY PathStep
<1> QED BY <1>1, <1>2, PathInit, Invariance, PTL DEF Spec
=============================================================================
