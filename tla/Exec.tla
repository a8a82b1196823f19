-------------------------------- MODULE Exec --------------------------------
(***************************************************************************)
(* One "gproc e" command from the user's prompt to the last program and    *)
(* back: mexec (the client), the master's goroutine that serves it, the    *)
(* slave daemons with their accept loops, the "R" process a daemon starts  *)
(* for each request, the program that process runs, and the ioProxy        *)
(* goroutines that bring the output back up the tree.                      *)
(*                                                                         *)
(* A delegation <<c, g, n>> is the request that reaches node n on behalf   *)
(* of the g-th comma-separated group of command c.  It names at once the   *)
(* TCP connection that carries the StartReq, the R process started for     *)
(* it, the program, and the connection back to the ioProxy one level up.   *)
(***************************************************************************)
EXTENDS Integers, Sequences, FiniteSets

CONSTANTS
  Node,     \* the slave daemons; a node's id and its server address are one
  Master,   \* the master daemon
  Parent,   \* Parent[n] is the daemon slave n registered with
  Above,    \* Above[n] is the set of slaves strictly between n and the master
  Cmd,      \* the invocations of "gproc e"
  Request,  \* Request[c] is the parsed <nodes> argument: a sequence of groups
  Faults    \* which faults may happen: subset of {"daemon", "child", "exec", "client"}

-----------------------------------------------------------------------------
(* Node lists.  A group is a path of selectors, one per level of the tree. *)

Selector == [kind : {"dot", "ids", "bad"}, ids : SUBSET Node]
Dot      == [kind |-> "dot", ids |-> {}]       \* "."
Ids(S)   == [kind |-> "ids", ids |-> S]        \* "3" or "3-5"
BadRange == [kind |-> "bad", ids |-> {}]       \* "5-3"

Path == Seq(Selector)

(* parseNodeList on one group: the empty string names the node "", which   *)
(* nobody registers.                                                       *)
First(p) == IF p = <<>> THEN Ids({}) ELSE Head(p)
Rest(p)  == IF p = <<>> THEN <<>> ELSE Tail(p)

(* Slaves.ServIntersect: the registered nodes a selector stands for.       *)
ServIntersect(known, s) == IF s.kind = "dot" THEN known ELSE known \cap s.ids

-----------------------------------------------------------------------------
(* Delegations.                                                            *)

Group == UNION {DOMAIN Request[c] : c \in Cmd}
Task  == Cmd \X Group \X Node

CmdOf(t)  == t[1]
GrpOf(t)  == t[2]
NodeOf(t) == t[3]

TopLevel(t) == Parent[NodeOf(t)] = Master
Up(t)       == <<CmdOf(t), GrpOf(t), Parent[NodeOf(t)]>>
Kids(t)     == {u \in Task : ~ TopLevel(u) /\ Up(u) = t}
Over(t)     == {<<CmdOf(t), GrpOf(t), a>> : a \in Above[NodeOf(t)]}

ASSUME NodeAssumption == Master \notin Node /\ IsFiniteSet(Task)

ASSUME TreeAssumption ==
  /\ Parent \in [Node -> Node \cup {Master}]
  /\ Above \in [Node -> SUBSET Node]
  /\ \A n \in Node : Parent[n] = Master => Above[n] = {}
  /\ \A n \in Node : Parent[n] # Master => Above[n] = {Parent[n]} \cup Above[Parent[n]]
  \* every slave hangs, through slaves above it, below a top-level one, and
  \* the slave under an ancestor on the way down is itself on that way
  /\ \A n \in Node : Parent[n] = Master \/ \E r \in Above[n] : Parent[r] = Master
  /\ \A n \in Node : \A a \in Above[n] :
       \E k \in Above[n] \cup {n} : Parent[k] = a
  /\ \A n \in Node : \A a \in Above[n] : Above[a] \subseteq Above[n]
  /\ \A n \in Node : n \notin Above[n]

ASSUME RequestAssumption ==
  Request \in [Cmd -> Seq(Path)] /\ \A c \in Cmd : Request[c] # <<>>

ASSUME FaultAssumption == Faults \subseteq {"daemon", "child", "exec", "client"}

-----------------------------------------------------------------------------
VARIABLES
  client,   \* phase of mexec
  cneed,    \* numWorkers in mexec
  serve,    \* phase of the master's goroutine for the command
  grp,      \* index of the group it is at
  mtodo,    \* delegations of that group still to be dialled
  sub,      \* sendReq.Nodes: the rest of that group's path
  nnodes,   \* numnodes
  daemon,   \* accept loop of each slave daemon
  cur,      \* the delegations whose R process the loop has started and not reaped
  reg,      \* per daemon, the slaves registered with it
  child,    \* main goroutine of the R process of each delegation
  req,      \* StartReq.Nodes as the delegation carries it
  got,      \* the StartReq has been written to the connection
  asked,    \* the R process has written its node list into the daemon's pipe
  avail,    \* availableSlaves, as delegations
  todo,     \* those of avail not dialled yet
  need,     \* numWorkers in slaveProc
  prog,     \* the program run by runLocal
  io        \* the upstream ioProxy goroutine that copies this delegation's output

clientVars == <<client, cneed>>
masterVars == <<serve, grp, mtodo, sub, nnodes>>
daemonVars == <<daemon, cur, reg>>
relayVars  == <<avail, todo, need>>
taskVars   == <<child, req, got, asked, relayVars, prog, io>>
vars       == <<clientVars, masterVars, daemonVars, taskVars>>

ClientPhase == {"idle", "sent", "waiting", "done", "killed"}
DaemonPhase == {"accept", "starting", "serving", "stopped", "dead"}
Running     == {"recv", "dial", "parse", "asked", "relay", "wait"}
Relaying    == {"relay", "wait"}
Ended       == {"exited", "quit", "crashed"}
ChildPhase  == {"none", "queued", "lost"} \cup Running \cup Ended

TypeOK ==
  /\ client \in [Cmd -> ClientPhase]
  /\ cneed \in [Cmd -> Nat]
  /\ serve \in [Cmd -> {"idle", "serving", "replied"}]
  /\ grp \in [Cmd -> Nat]
  /\ mtodo \in [Cmd -> SUBSET Task]
  /\ sub \in [Cmd -> Path]
  /\ nnodes \in [Cmd -> Nat]
  /\ daemon \in [Node -> DaemonPhase]
  /\ cur \in [Node -> SUBSET Task]
  /\ reg \in [Node \cup {Master} -> SUBSET Node]
  /\ child \in [Task -> ChildPhase]
  /\ req \in [Task -> Path]
  /\ got \in [Task -> BOOLEAN]
  /\ asked \in [Task -> BOOLEAN]
  /\ avail \in [Task -> SUBSET Task]
  /\ todo \in [Task -> SUBSET Task]
  /\ need \in [Task -> Nat]
  /\ prog \in [Task -> {"none", "launching", "running", "ended", "failed"}]
  /\ io \in [Task -> {"none", "copying", "reported", "counted"}]

(* Every slave has registered; HostReady is true.                          *)
Init ==
  /\ client = [c \in Cmd |-> "idle"]
  /\ cneed = [c \in Cmd |-> 0]
  /\ serve = [c \in Cmd |-> "idle"]
  /\ grp = [c \in Cmd |-> 0]
  /\ mtodo = [c \in Cmd |-> {}]
  /\ sub = [c \in Cmd |-> <<>>]
  /\ nnodes = [c \in Cmd |-> 0]
  /\ daemon = [n \in Node |-> "accept"]
  /\ cur = [n \in Node |-> {}]
  /\ reg = [p \in Node \cup {Master} |-> {n \in Node : Parent[n] = p}]
  /\ child = [t \in Task |-> "none"]
  /\ req = [t \in Task |-> <<>>]
  /\ got = [t \in Task |-> FALSE]
  /\ asked = [t \in Task |-> FALSE]
  /\ avail = [t \in Task |-> {}]
  /\ todo = [t \in Task |-> {}]
  /\ need = [t \in Task |-> 0]
  /\ prog = [t \in Task |-> "none"]
  /\ io = [t \in Task |-> "none"]

(* The process whose ioProxy delegation t reports to is up: mexec for a    *)
(* top-level slave, the R process of the parent otherwise.                 *)
ProxyUp(t) ==
  IF TopLevel(t) THEN client[CmdOf(t)] \in {"sent", "waiting"}
                 ELSE child[Up(t)] \in Relaying

(* The process that dialled t, and whose goroutine writes its StartReq.    *)
SenderUp(t) == IF TopLevel(t) THEN TRUE ELSE child[Up(t)] \in Relaying

-----------------------------------------------------------------------------
(* mexec: startExecution.                                                  *)

(* Vital data received, ioProxy listening, StartReq sent.                  *)
ClientSend(c) ==
  /\ client[c] = "idle"
  /\ client' = [client EXCEPT ![c] = "sent"]
  /\ UNCHANGED <<cneed, masterVars, daemonVars, taskVars>>

ClientResp(c) ==
  /\ client[c] = "sent"
  /\ serve[c] = "replied"
  /\ client' = [client EXCEPT ![c] = "waiting"]
  /\ cneed' = [cneed EXCEPT ![c] = nnodes[c]]
  /\ UNCHANGED <<masterVars, daemonVars, taskVars>>

ClientCount(c, t) ==
  /\ client[c] = "waiting"
  /\ cneed[c] > 0
  /\ TopLevel(t) /\ CmdOf(t) = c
  /\ io[t] = "reported"
  /\ cneed' = [cneed EXCEPT ![c] = @ - 1]
  /\ io' = [io EXCEPT ![t] = "counted"]
  /\ UNCHANGED <<client, masterVars, daemonVars, child, req, got, asked, relayVars, prog>>

ClientDone(c) ==
  /\ client[c] = "waiting"
  /\ cneed[c] = 0
  /\ client' = [client EXCEPT ![c] = "done"]
  /\ UNCHANGED <<cneed, masterVars, daemonVars, taskVars>>

-----------------------------------------------------------------------------
(* The master's goroutine for the command: receiveCmds, case 'e'.          *)

(* A bad range in the part of a group the master looks at refuses the      *)
(* whole command with NumNodes 0.                                          *)
MasterRecv(c) ==
  /\ serve[c] = "idle"
  /\ client[c] # "idle"
  /\ serve' = [serve EXCEPT ![c] =
       IF \E g \in DOMAIN Request[c] : First(Request[c][g]).kind = "bad"
       THEN "replied" ELSE "serving"]
  /\ UNCHANGED <<clientVars, grp, mtodo, sub, nnodes, daemonVars, taskVars>>

(* Variant in which the requests still being written share the sendReq the *)
(* loop goes on to change.                                                 *)
MasterGroupAliased(c) ==
  /\ serve[c] = "serving"
  /\ mtodo[c] = {}
  /\ grp[c] < Len(Request[c])
  /\ LET g == grp[c] + 1
         nodeSet == ServIntersect(reg[Master], First(Request[c][g]))
         nodes == Rest(Request[c][g])
     IN  /\ grp' = [grp EXCEPT ![c] = g]
         /\ mtodo' = [mtodo EXCEPT ![c] = {<<c, g, n>> : n \in nodeSet}]
         /\ sub' = [sub EXCEPT ![c] = nodes]
         /\ req' = [t \in Task |-> IF CmdOf(t) = c /\ TopLevel(t) /\ child[t] = "queued" /\ ~ got[t]
                                    THEN nodes ELSE req[t]]
  /\ UNCHANGED <<clientVars, serve, nnodes, daemonVars, child, got, asked, relayVars, prog, io>>

MasterGroup(c) ==
  /\ serve[c] = "serving"
  /\ mtodo[c] = {}
  /\ grp[c] < Len(Request[c])
  /\ LET g == grp[c] + 1
         nodeSet == ServIntersect(reg[Master], First(Request[c][g]))
     IN  /\ grp' = [grp EXCEPT ![c] = g]
         /\ mtodo' = [mtodo EXCEPT ![c] = {<<c, g, n>> : n \in nodeSet}]
         /\ sub' = [sub EXCEPT ![c] = Rest(Request[c][g])]
  /\ UNCHANGED <<clientVars, serve, nnodes, daemonVars, taskVars>>

(* newStartReq copies the request, so what the delegation carries does not *)
(* follow later changes of sendReq.  The connection waits in the backlog   *)
(* of the daemon's listener; writing the request is SendReq's business.    *)
Delegate(t, nodes) ==
  /\ child' = [child EXCEPT ![t] = "queued"]
  /\ req' = [req EXCEPT ![t] = nodes]

(* Variants: every node is expected to connect twice; nodes that could not *)
(* be dialled are counted.                                                 *)
MasterDialTwo(c, t) ==
  /\ t \in mtodo[c] /\ daemon[NodeOf(t)] # "dead"
  /\ mtodo' = [mtodo EXCEPT ![c] = @ \ {t}]
  /\ Delegate(t, sub[c])
  /\ nnodes' = [nnodes EXCEPT ![c] = @ + 2]
  /\ UNCHANGED <<clientVars, serve, grp, sub, daemonVars, got, asked, relayVars, prog, io>>

MasterDialAny(c, t) ==
  /\ t \in mtodo[c]
  /\ mtodo' = [mtodo EXCEPT ![c] = @ \ {t}]
  /\ IF daemon[NodeOf(t)] # "dead" THEN Delegate(t, sub[c]) ELSE UNCHANGED <<child, req>>
  /\ nnodes' = [nnodes EXCEPT ![c] = @ + 1]
  /\ UNCHANGED <<clientVars, serve, grp, sub, daemonVars, got, asked, relayVars, prog, io>>

MasterDial(c, t) ==
  /\ t \in mtodo[c]
  /\ mtodo' = [mtodo EXCEPT ![c] = @ \ {t}]
  /\ \/ /\ daemon[NodeOf(t)] # "dead"
        /\ Delegate(t, sub[c])
        /\ nnodes' = [nnodes EXCEPT ![c] = @ + 1]
        /\ UNCHANGED reg
     \/ /\ daemon[NodeOf(t)] = "dead"
        /\ reg' = [reg EXCEPT ![Master] = @ \ {NodeOf(t)}]
        /\ UNCHANGED <<child, req, nnodes>>
  /\ UNCHANGED <<clientVars, serve, grp, sub, daemon, cur, got, asked, relayVars, prog, io>>

(* Variant that answers before the last group has been dialled.            *)
MasterReplyEarly(c) ==
  /\ serve[c] = "serving"
  /\ grp[c] = Len(Request[c])
  /\ serve' = [serve EXCEPT ![c] = "replied"]
  /\ UNCHANGED <<clientVars, grp, mtodo, sub, nnodes, daemonVars, taskVars>>

MasterReply(c) ==
  /\ serve[c] = "serving"
  /\ mtodo[c] = {}
  /\ grp[c] = Len(Request[c])
  /\ serve' = [serve EXCEPT ![c] = "replied"]
  /\ UNCHANGED <<clientVars, grp, mtodo, sub, nnodes, daemonVars, taskVars>>

(* The goroutine cacheRelayFilesAndDelegateExec starts: it runs on after   *)
(* the function has returned.                                              *)
SendReq(t) ==
  /\ child[t] \in {"queued", "recv"}
  /\ ~ got[t]
  /\ SenderUp(t)
  /\ got' = [got EXCEPT ![t] = TRUE]
  /\ UNCHANGED <<clientVars, masterVars, daemonVars, child, req, asked, relayVars, prog, io>>

-----------------------------------------------------------------------------
(* The accept loop of a slave daemon: startSlave.                          *)

DaemonAccept(n, t) ==
  /\ daemon[n] = "accept"
  /\ NodeOf(t) = n /\ child[t] = "queued"
  /\ daemon' = [daemon EXCEPT ![n] = "starting"]
  /\ cur' = [cur EXCEPT ![n] = @ \cup {t}]
  /\ child' = [child EXCEPT ![t] = "recv"]
  /\ UNCHANGED <<clientVars, masterVars, reg, req, got, asked, relayVars, prog, io>>

(* Variant: a count that starts one too low.                               *)
DaemonReplyShort(n, t) ==
  /\ daemon[n] = "starting"
  /\ t \in cur[n] /\ asked[t] /\ child[t] = "asked"
  /\ daemon' = [daemon EXCEPT ![n] = "serving"]
  /\ child' = [child EXCEPT ![t] = "relay"]
  /\ avail' = [avail EXCEPT ![t] = {}]
  /\ todo' = [todo EXCEPT ![t] = {}]
  /\ need' = [need EXCEPT ![t] = -1]
  /\ UNCHANGED <<clientVars, masterVars, cur, reg, req, got, asked, prog, io>>

(* The daemon reads the node list of its R process and answers with the    *)
(* slaves it has under those names.  A process that is still there reads   *)
(* the answer, opens an ioProxy and counts one worker per slave named.     *)
DaemonReply(n, t) ==
  /\ daemon[n] = "starting"
  /\ t \in cur[n] /\ asked[t]
  /\ daemon' = [daemon EXCEPT ![n] = "serving"]
  /\ \/ /\ child[t] = "asked"
        /\ LET nodes == ServIntersect(reg[n], First(req[t]))
               us    == {u \in Kids(t) : NodeOf(u) \in nodes}
           IN  /\ child' = [child EXCEPT ![t] = "relay"]
               /\ avail' = [avail EXCEPT ![t] = us]
               /\ todo' = [todo EXCEPT ![t] = us]
               /\ need' = [need EXCEPT ![t] = Cardinality(us)]
     \/ /\ child[t] # "asked"
        /\ UNCHANGED <<child, relayVars>>
  /\ UNCHANGED <<clientVars, masterVars, cur, reg, req, got, asked, prog, io>>

(* Variant without p.Wait().                                               *)
DaemonReapAtOnce(n, t) ==
  /\ daemon[n] = "serving"
  /\ t \in cur[n]
  /\ daemon' = [daemon EXCEPT ![n] = "accept"]
  /\ cur' = [cur EXCEPT ![n] = {}]
  /\ UNCHANGED <<clientVars, masterVars, reg, taskVars>>

(* p.Wait() returned.                                                      *)
DaemonReap(n, t) ==
  /\ daemon[n] = "serving"
  /\ t \in cur[n]
  /\ child[t] \in Ended
  /\ daemon' = [daemon EXCEPT ![n] = "accept"]
  /\ cur' = [cur EXCEPT ![n] = {}]
  /\ UNCHANGED <<clientVars, masterVars, reg, taskVars>>

(* The R process ended without writing its node list.  The daemon holds    *)
(* the write end of that pipe itself, so its read fails only if the        *)
(* collector happens to close the file; then the loop returns for good.    *)
DaemonPipeClosed(n, t) ==
  /\ daemon[n] = "starting"
  /\ t \in cur[n]
  /\ child[t] \in Ended /\ ~ asked[t]
  /\ daemon' = [daemon EXCEPT ![n] = "stopped"]
  /\ UNCHANGED <<clientVars, masterVars, cur, reg, taskVars>>

-----------------------------------------------------------------------------
(* The R process: slaveProc.                                               *)

ChildVarsBut(t, phase) ==
  /\ child' = [child EXCEPT ![t] = phase]
  /\ UNCHANGED <<clientVars, masterVars, daemonVars, req, got, relayVars>>

(* Without its request the process panics.                                 *)
ChildRecv(t) ==
  /\ child[t] = "recv"
  /\ \/ got[t] /\ ChildVarsBut(t, "dial")
     \/ ~ got[t] /\ ~ SenderUp(t) /\ ChildVarsBut(t, "crashed")
  /\ UNCHANGED <<asked, prog, io>>

ChildDial(t) ==
  /\ child[t] = "dial"
  /\ \/ /\ ProxyUp(t)
        /\ ChildVarsBut(t, "parse")
        /\ prog' = [prog EXCEPT ![t] = "launching"]
        /\ io' = [io EXCEPT ![t] = "copying"]
     \/ /\ ~ ProxyUp(t)
        /\ ChildVarsBut(t, "quit")
        /\ UNCHANGED <<prog, io>>
  /\ UNCHANGED asked

(* Variant that has nothing to ask the daemon when its path is used up.    *)
ChildParseLeaf(t) ==
  /\ child[t] = "parse"
  /\ \/ First(req[t]).kind = "bad" /\ ChildVarsBut(t, "quit") /\ UNCHANGED asked
     \/ req[t] = <<>> /\ ChildVarsBut(t, "wait") /\ UNCHANGED asked
     \/ /\ req[t] # <<>> /\ First(req[t]).kind # "bad"
        /\ ChildVarsBut(t, "asked")
        /\ asked' = [asked EXCEPT ![t] = TRUE]
  /\ UNCHANGED <<prog, io>>

ChildParse(t) ==
  /\ child[t] = "parse"
  /\ \/ /\ First(req[t]).kind = "bad"
        /\ ChildVarsBut(t, "quit")
        /\ UNCHANGED asked
     \/ /\ First(req[t]).kind # "bad"
        /\ ChildVarsBut(t, "asked")
        /\ asked' = [asked EXCEPT ![t] = TRUE]
  /\ UNCHANGED <<prog, io>>

ChildLosesDaemon(t) ==
  /\ child[t] = "asked"
  /\ daemon[NodeOf(t)] = "dead"
  /\ ChildVarsBut(t, "quit")
  /\ UNCHANGED <<asked, prog, io>>

(* sendCommandsToANodeSet in the R process: its own table of slaves is     *)
(* empty, so nothing is removed when a dial fails.                         *)
RelayDial(t, u) ==
  /\ child[t] = "relay"
  /\ u \in todo[t]
  /\ todo' = [todo EXCEPT ![t] = @ \ {u}]
  /\ \/ daemon[NodeOf(u)] # "dead" /\ Delegate(u, Rest(req[t]))
     \/ daemon[NodeOf(u)] = "dead" /\ UNCHANGED <<child, req>>
  /\ UNCHANGED <<clientVars, masterVars, daemonVars, got, asked, avail, need, prog, io>>

RelayDone(t) ==
  /\ child[t] = "relay"
  /\ todo[t] = {}
  /\ ChildVarsBut(t, "wait")
  /\ UNCHANGED <<asked, prog, io>>

ChildCount(t, u) ==
  /\ child[t] = "wait"
  /\ need[t] > 0
  /\ u \in Kids(t)
  /\ io[u] = "reported"
  /\ need' = [need EXCEPT ![t] = @ - 1]
  /\ io' = [io EXCEPT ![u] = "counted"]
  /\ UNCHANGED <<clientVars, masterVars, daemonVars, child, req, got, asked, avail, todo, prog>>

(* Variant that waits for its own program only.                            *)
ChildExitEarly(t) ==
  /\ child[t] = "wait"
  /\ prog[t] = "ended"
  /\ ChildVarsBut(t, "exited")
  /\ UNCHANGED <<asked, prog, io>>

ChildExit(t) ==
  /\ child[t] = "wait"
  /\ need[t] = 0
  /\ prog[t] = "ended"
  /\ ChildVarsBut(t, "exited")
  /\ UNCHANGED <<asked, prog, io>>

-----------------------------------------------------------------------------
(* runLocal, a goroutine of the R process, and the program it starts.      *)

ProgStart(t) ==
  /\ prog[t] = "launching"
  /\ child[t] \in Running
  /\ prog' = [prog EXCEPT ![t] = "running"]
  /\ UNCHANGED <<clientVars, masterVars, daemonVars, child, req, got, asked, relayVars, io>>

(* StartProcess failed: log_error panics and takes the process down.       *)
ProgFails(t) ==
  /\ "exec" \in Faults
  /\ prog[t] = "launching"
  /\ child[t] \in Running
  /\ prog' = [prog EXCEPT ![t] = "failed"]
  /\ ChildVarsBut(t, "crashed")
  /\ UNCHANGED <<asked, io>>

ProgExit(t) ==
  /\ prog[t] = "running"
  /\ prog' = [prog EXCEPT ![t] = "ended"]
  /\ UNCHANGED <<clientVars, masterVars, daemonVars, child, req, got, asked, relayVars, io>>

-----------------------------------------------------------------------------
(* ioProxy: io.Copy has seen the end of the connection, which the R        *)
(* process and the program hold open, and the goroutine offers its id on   *)
(* workerChan.                                                             *)
IoEof(t) ==
  /\ io[t] = "copying"
  /\ child[t] \in Ended
  /\ prog[t] # "running"
  /\ ProxyUp(t)
  /\ io' = [io EXCEPT ![t] = "reported"]
  /\ UNCHANGED <<clientVars, masterVars, daemonVars, child, req, got, asked, relayVars, prog>>

-----------------------------------------------------------------------------
(* Faults.                                                                 *)

(* A daemon process dies: the connections in its backlog are reset.        *)
DaemonDies(n) ==
  /\ "daemon" \in Faults
  /\ daemon[n] # "dead"
  /\ daemon' = [daemon EXCEPT ![n] = "dead"]
  /\ child' = [t \in Task |-> IF NodeOf(t) = n /\ child[t] = "queued"
                              THEN "lost" ELSE child[t]]
  /\ UNCHANGED <<clientVars, masterVars, cur, reg, req, got, asked, relayVars, prog, io>>

(* A panic in any goroutine of an R process, or its being killed.  Output  *)
(* that cannot be passed on, because the proxy above is gone, is one cause *)
(* no fault of the process itself is needed for.                           *)
ChildPanics(t) ==
  /\ "child" \in Faults \/ (io[t] # "none" /\ ~ ProxyUp(t))
  /\ child[t] \in Running
  /\ ChildVarsBut(t, "crashed")
  /\ UNCHANGED <<asked, prog, io>>

(* The user interrupts mexec.                                              *)
ClientKilled(c) ==
  /\ "client" \in Faults
  /\ client[c] \in {"sent", "waiting"}
  /\ client' = [client EXCEPT ![c] = "killed"]
  /\ UNCHANGED <<cneed, masterVars, daemonVars, taskVars>>

-----------------------------------------------------------------------------
ClientStep(c) ==
  ClientResp(c) \/ ClientDone(c) \/ \E t \in Task : ClientCount(c, t)
MasterStep(c) ==
  MasterRecv(c) \/ MasterGroup(c) \/ MasterReply(c) \/ \E t \in Task : MasterDial(c, t)
DaemonStep(n) ==
  \E t \in Task : DaemonAccept(n, t) \/ DaemonReply(n, t) \/ DaemonReap(n, t)
ChildStep(t) ==
  \/ ChildRecv(t) \/ ChildDial(t) \/ ChildParse(t) \/ ChildLosesDaemon(t)
  \/ RelayDone(t) \/ ChildExit(t)
  \/ \E u \in Task : RelayDial(t, u) \/ ChildCount(t, u)

Next ==
  \/ \E c \in Cmd : ClientSend(c) \/ ClientStep(c) \/ MasterStep(c) \/ ClientKilled(c)
  \/ \E n \in Node : \/ DaemonStep(n) \/ DaemonDies(n)
                     \/ \E t \in Task : DaemonPipeClosed(n, t)
  \/ \E t \in Task : \/ SendReq(t) \/ ChildStep(t) \/ IoEof(t)
                     \/ ProgStart(t) \/ ProgFails(t) \/ ProgExit(t) \/ ChildPanics(t)

(* Every goroutine is scheduled; programs terminate.  Users may stay away, *)
(* faults need not happen, and nothing makes the collector close a pipe.   *)
Fairness ==
  /\ \A c \in Cmd : WF_vars(ClientStep(c)) /\ WF_vars(MasterStep(c))
  /\ \A n \in Node : WF_vars(DaemonStep(n))
  /\ \A t \in Task : /\ WF_vars(SendReq(t)) /\ WF_vars(ChildStep(t)) /\ WF_vars(IoEof(t))
                     /\ WF_vars(ProgStart(t)) /\ WF_vars(ProgExit(t))

Spec     == Init /\ [][Next]_vars
FairSpec == Spec /\ Fairness

-----------------------------------------------------------------------------
(* A delegation keeps its node busy from the dial until its R process is   *)
(* gone and its program has ended.  It is an orphan once the R process of  *)
(* a node above it has crashed: nobody up there waits for it any more.     *)
Busy(t)   == child[t] \in {"queued"} \cup Running \/ prog[t] = "running"
Orphan(t) == \E a \in Over(t) : child[a] = "crashed"

(* When "gproc e" returns to the prompt, no delegation of that command is  *)
(* still at work anywhere in the tree, except below an R process that      *)
(* crashed.  (mexec counts connections; nothing tells it who they are.)    *)
CompletionSound ==
  \A c \in Cmd : client[c] = "done" =>
    \A t \in Task : CmdOf(t) = c /\ Busy(t) => Orphan(t)

(* The same one level down: an R process leaves slaveProc normally only    *)
(* after everything it delegated, at any depth, has come to rest.          *)
ExitAfterSubtree ==
  \A t \in Task : child[t] = "exited" =>
    \A u \in Task : t \in Over(u) /\ Busy(u) => Orphan(u)

(* startSlave: "we need to do things sorta synchronously".  A node never   *)
(* runs two R processes at once, however many commands reach it.           *)
OneChildPerNode ==
  \A t, u \in Task :
    NodeOf(t) = NodeOf(u) /\ child[t] \in Running /\ child[u] \in Running => t = u

(* Each node receives the rest of the path of its own group, although all  *)
(* delegations of a command are cut from one sendReq that the dispatching  *)
(* loop overwrites while earlier requests are still being written.         *)
OwnPath ==
  \A t \in Task : child[t] # "none" =>
    LET p == Request[CmdOf(t)][GrpOf(t)]
    IN  req[t] = SubSeq(p, Cardinality(Above[NodeOf(t)]) + 2, Len(p))

(* While mexec waits, its count is the number of top-level nodes that were *)
(* reached for this command and have not reported yet, even when some      *)
(* nodes were dead.                                                        *)
NumNodesExact ==
  \A c \in Cmd : client[c] = "waiting" =>
    cneed[c] = Cardinality({t \in Task : /\ CmdOf(t) = c /\ TopLevel(t)
                                         /\ child[t] # "none" /\ io[t] # "counted"})

(* slave.go says it waits "for all the children to finish execution": a    *)
(* process that waits should be owed an answer by exactly as many nodes as *)
(* it reached.  It counts the nodes it was told of instead, reached or not.*)
WaitsForContacted ==
  \A t \in Task : child[t] = "wait" =>
    need[t] = Cardinality({u \in Kids(t) : child[u] # "none" /\ io[u] # "counted"})

(* With no fault, every command that was sent returns to the prompt.       *)
CommandsFinish == \A c \in Cmd : client[c] = "sent" ~> client[c] = "done"

(* With no fault, every daemon that took a request comes back to accept    *)
(* the next one.                                                           *)
DaemonsComeBack == \A n \in Node : daemon[n] # "accept" ~> daemon[n] = "accept"

-----------------------------------------------------------------------------
(* The promise of CommandSpec.  An orphan is not open: its command has     *)
(* given up on it.                                                         *)
Abs == INSTANCE CommandSpec WITH
  Delegation <- Task,
  Owner  <- [t \in Task |-> CmdOf(t)],
  Bosses <- [t \in Task |-> Over(t)],
  phase  <- [c \in Cmd |-> CASE client[c] \in {"sent", "waiting"} -> "sent"
                             [] client[c] = "killed" -> "abandoned"
                             [] OTHER -> client[c]],
  used   <- {t \in Task : child[t] # "none"},
  open   <- {t \in Task : Busy(t) /\ ~ Orphan(t)}

(* The goroutines, processes and connections of gproc implement it.        *)
KeepsPromise == Abs!Spec
=============================================================================
