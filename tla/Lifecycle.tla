----------------------------- MODULE Lifecycle ------------------------------
(***************************************************************************)
(* The daemons of a tree from their command lines to their end.  Each      *)
(* computes its id, its address and its parent's from the name of its      *)
(* host; a slave dials, registers, then listens for slaves of its own; it  *)
(* ends when its parent does.  Daemons die and are started again at any    *)
(* time.  What is behind one registration (Registry) and behind one        *)
(* request (Exec) is a step or two here.                                   *)
(***************************************************************************)
EXTENDS Forth

CONSTANTS
  Proc,    \* the daemons somebody may start
  Master,  \* the one started with "m", the others are slaves
  Conf,    \* ways to start them: of each its host, its three flags, and its
           \* path of ids below the master if the tree is a documented one
  Hosts,   \* what startkane.go and README say a host's flags come to
  Backlog, \* connections a listener keeps waiting, at most
  None, Cut, Dead

ASSUME MasterAssumption == Master \in Proc
ASSUME NoDaemons == /\ {None, Cut, Dead} \cap Proc = {}
                    /\ None # Cut /\ None # Dead
ASSUME ConfAssumption ==
  \A k \in Conf : {DOMAIN k.host, DOMAIN k.flags, DOMAIN k.place} = {Proc}

Slave == Proc \ {Master}

VARIABLES
  conf,    \* how they are started this time, with what their flags come to
  phase,   \* how far each daemon is
  me,      \* its myId, myAddress and parent, evaluated
  link,    \* the daemon its connection leads to; Cut when that one has ended
  queue,   \* connections it has not accepted yet
  table,   \* its Slaves: id to daemon, Dead for one that has ended
  job      \* the R process it has started last, and waits for

vars == <<conf, phase, me, link, queue, table, job>>

NoFlags == [ok |-> FALSE, id |-> "", address |-> "", parent |-> ""]

(* main: three programs, one after the other, on one interpreter.          *)
Flags(f, host) ==
  LET i == Eval(f.myId, <<>>, host)
      a == Eval(f.myAddress, i.stack, host)
      q == Eval(f.myParent, a.stack, host)
  IN  IF i.ok /\ a.ok /\ q.ok
      THEN [ok |-> TRUE, id |-> i.value, address |-> a.value, parent |-> q.value]
      ELSE NoFlags

(* All flags are evaluated before anything else is done with them.         *)
Evaluated ==
  {[place |-> k.place, flags |-> k.flags,
    are |-> [p \in Proc |-> Flags(k.flags[p], k.host[p])]] : k \in Conf}
FlagsOf(p) == conf.are[p]

Id == {FlagsOf(p).id : p \in Proc} \cup {""}
Nobody == [i \in Id |-> None]

TypeOK ==
  /\ conf \in Evaluated
  /\ phase \in [Proc -> {"down", "dialled", "sent", "up", "listening"}]
  /\ me = [p \in Proc |-> IF phase[p] = "down" THEN NoFlags ELSE FlagsOf(p)]
  /\ \A p \in Proc : phase[p] # "down" => FlagsOf(p).ok
  /\ link \in [Proc -> Proc \cup {None, Cut}]
  /\ \A p \in Proc : link[p] = None <=> p = Master \/ phase[p] = "down"
  /\ queue \in [Proc -> Seq([who : Proc \cup {Dead}, id : Id, told : BOOLEAN])]
  /\ table \in [Proc -> [Id -> Proc \cup {None, Dead}]]
  /\ job \in [Proc -> {"none", "started", "serving", "exited"}]

Init ==
  /\ conf \in Evaluated
  /\ phase = [p \in Proc |-> "down"]
  /\ me = [p \in Proc |-> NoFlags]
  /\ link = [p \in Proc |-> None]
  /\ queue = [p \in Proc |-> <<>>]
  /\ table = [p \in Proc |-> Nobody]
  /\ job = [p \in Proc |-> "none"]

Listens(q, address) == phase[q] = "listening" /\ me[q].address = address

(* Process p ends.  The connections of its children break, and what others *)
(* still have of it leads nowhere.                                         *)
EndCutting(p, children) ==
  LET Gone(x) == IF x = p THEN Dead ELSE x
  IN  /\ phase' = [phase EXCEPT ![p] = "down"]
      /\ me' = [me EXCEPT ![p] = NoFlags]
      /\ job' = [job EXCEPT ![p] = "none"]
      /\ link' = [c \in Proc |-> IF c = p THEN None
                                 ELSE IF c \in children THEN Cut ELSE link[c]]
      /\ queue' = [q \in Proc |-> IF q = p THEN <<>>
                     ELSE [i \in DOMAIN queue[q] |-> [queue[q][i] EXCEPT !.who = Gone(@)]]]
      /\ table' = [q \in Proc |-> IF q = p THEN Nobody
                                  ELSE [i \in Id |-> Gone(table[q][i])]]
      /\ UNCHANGED conf

(* Variant in which nobody reads from the parent any more once registered. *)
EndUnseen(p) == EndCutting(p, {c \in Proc : link[c] = p /\ phase[c] \in {"dialled", "sent"}})

End(p) == EndCutting(p, {c \in Proc : link[c] = p})

-----------------------------------------------------------------------------
(* startMaster: two listeners on one address are an error.                 *)
StartMaster ==
  /\ phase[Master] = "down"
  /\ LET f == FlagsOf(Master)
     IN  /\ f.ok /\ \A q \in Proc : ~ Listens(q, f.address)
         /\ me' = [me EXCEPT ![Master] = f]
  /\ phase' = [phase EXCEPT ![Master] = "listening"]
  /\ UNCHANGED <<conf, link, queue, table, job>>

(* startSlave with flags f: if nobody answers at the parent's address the  *)
(* process panics, which leaves everything as it was.                      *)
Answers(q, address) == Listens(q, address) /\ Len(queue[q]) < Backlog

Dialled(p, f) ==
  /\ phase[p] = "down"
  /\ phase' = [phase EXCEPT ![p] = "dialled"]
  /\ me' = [me EXCEPT ![p] = f]
  /\ UNCHANGED <<conf, table, job>>

DialWith(p, f) ==
  \E q \in Proc :
    /\ Answers(q, f.parent)
    /\ link' = [link EXCEPT ![p] = q]
    /\ queue' = [queue EXCEPT ![q] = Append(@, [who |-> p, id |-> f.id, told |-> FALSE])]
    /\ Dialled(p, f)

(* Variant that goes on when nobody answers.                               *)
StartSlaveAlone(p) ==
  LET f == FlagsOf(p)
  IN  /\ f.ok /\ f.id # "" /\ f.address # "" /\ f.parent # ""
      /\ \/ DialWith(p, f)
         \/ /\ \A q \in Proc : ~ Answers(q, f.parent)
            /\ Dialled(p, f) /\ UNCHANGED <<link, queue>>

(* Variant without the sanity checks of runSlave.                          *)
StartSlaveUnchecked(p) == LET f == FlagsOf(p) IN f.ok /\ DialWith(p, f)

StartSlave(p) ==
  LET f == FlagsOf(p)
  IN  f.ok /\ f.id # "" /\ f.address # "" /\ f.parent # "" /\ DialWith(p, f)

(* initSlave sends the vital data, then waits for the answer.              *)
SendVital(p) ==
  /\ phase[p] = "dialled" /\ link[p] # Cut
  /\ phase' = [phase EXCEPT ![p] = "sent"]
  /\ queue' = [queue EXCEPT ![link[p]] =
                 [i \in DOMAIN @ |-> IF @[i].who = p THEN [@[i] EXCEPT !.told = TRUE] ELSE @[i]]]
  /\ UNCHANGED <<conf, me, link, table, job>>

(* One turn of registerSlaves with the first connection that waits: the    *)
(* slave is added and answered; a connection that broke before it told     *)
(* anything is dropped.                                                    *)
Accept(q) ==
  /\ phase[q] = "listening" /\ queue[q] # <<>>
  /\ LET e == Head(queue[q])
     IN  \/ /\ e.told
            /\ table' = [table EXCEPT ![q][e.id] = e.who]
            /\ phase' = [p \in Proc |-> IF p = e.who THEN "up" ELSE phase[p]]
         \/ /\ ~ e.told /\ e.who = Dead
            /\ UNCHANGED <<table, phase>>
  /\ queue' = [queue EXCEPT ![q] = Tail(@)]
  /\ UNCHANGED <<conf, me, link, job>>

(* The slave's own registerSlaves, with an empty table.                    *)
ListenForSlaves(p) ==
  /\ phase[p] = "up"
  /\ \A q \in Proc : ~ Listens(q, me[p].address)
  /\ phase' = [phase EXCEPT ![p] = "listening"]
  /\ UNCHANGED <<conf, me, link, queue, table, job>>

(* Somebody listens there already: a panic in a goroutine ends the process.*)
ListenFails(p) ==
  /\ phase[p] = "up"
  /\ \E q \in Proc : Listens(q, me[p].address)
  /\ End(p)

(* A request arrives and the accept loop starts an R process for it.       *)
StartR(p) ==
  /\ phase[p] \in {"up", "listening"} /\ job[p] = "none"
  /\ link[p] \in Proc /\ table[link[p]][me[p].id] = p
  /\ job' = [job EXCEPT ![p] = "started"]
  /\ UNCHANGED <<conf, phase, me, link, queue, table>>

(* flag.Parse in the R process exits if it is given a flag main does not   *)
(* declare.  Otherwise slaveProc takes over, see Exec.                     *)
Declared == { "prefix", "localbin", "p", "debug", "f", "r", "L", "binRoot",
              "defaultMasterUDS", "iopp", "cmdport", "fam", "gprocBin",
              "myParent", "myAddress", "myId" }
Passed   == {"debug", "p", "binRoot", "parent", "prefix"}

ParseR(p) ==
  /\ job[p] = "started"
  /\ job' = [job EXCEPT ![p] = IF Passed \subseteq Declared THEN "serving" ELSE "exited"]
  /\ UNCHANGED <<conf, phase, me, link, queue, table>>

(* Variant that looks at its parent only while no R process is out.        *)
LosesParentWhenIdle(p) == link[p] = Cut /\ job[p] = "none" /\ End(p)

(* A slave whose connection breaks ends: one that waits for its answer by  *)
(* a panic, one that serves by an exit.                                    *)
LosesParent(p) == link[p] = Cut /\ End(p)

Dies(p) == phase[p] # "down" /\ End(p)

-----------------------------------------------------------------------------
SlaveStep(p) == SendVital(p) \/ ListenForSlaves(p) \/ ListenFails(p) \/ ParseR(p)

Next ==
  \/ StartMaster
  \/ \E p \in Slave : StartSlave(p) \/ SlaveStep(p) \/ StartR(p) \/ LosesParent(p)
  \/ \E p \in Proc : Accept(p) \/ Dies(p)

(* Goroutines that can run do; users and faults come as they like.         *)
Fairness ==
  \A p \in Slave : WF_vars(SlaveStep(p)) /\ WF_vars(LosesParent(p))

Spec     == Init /\ [][Next]_vars
FairSpec == Spec /\ Fairness
-----------------------------------------------------------------------------
(* Slaves.Get: a name that is no id goes through Addr2id, which knows it   *)
(* as little and yields the empty id.                                      *)
Get(q, n) == LET known(i) == i \in Id /\ table[q][i] # None
             IN  IF known(n) THEN {table[q][n]} ELSE IF known("") THEN {table[q][""]} ELSE {}

-----------------------------------------------------------------------------
(* However daemons die, come back and take each other's addresses, nobody  *)
(* is its own parent's parent: such a circle would never end by itself.    *)
NoCircle == \A S \in (SUBSET Slave) \ {{}} : \E p \in S : link[p] \notin S

Computed == {h \in Hosts : LET f == Flags(h.flags, h.host)
                           IN  f.ok /\ f.id = h.id /\ f.parent = h.parent}

AsDocumented ==
  {k \in Evaluated : \A p \in Proc, h \in Hosts : k.flags[p] = h.flags => h \in Computed}

(* The flags of startkane.go and of README's example mean what is said of  *)
(* them on every host of the cluster, not only on those started here: the  *)
(* id is the host's number, and the parent the top of its block of twenty, *)
(* the master for that one itself, or the node of its remainder.           *)
FlagsAsDocumented == conf \in AsDocumented

(* The start of a documented tree.                                         *)
Documented == \E p \in Slave : conf.place[p] # <<>>

(* The ids of the slaves differ, as they do in documented trees.           *)
DistinctIds == \A p, r \in Slave : FlagsOf(p).id = FlagsOf(r).id => p = r

Registered(p, q) == link[p] = q /\ phase[p] \in {"up", "listening"}
Owner(q, n)      == {p \in Slave : Registered(p, q) /\ me[p].id = n}

(* A name leads to the slave that has this id and is registered here now,  *)
(* whatever else was registered under it before or broke off half-way; and *)
(* if ids differ every registered slave is found.  A name that is no id    *)
(* leads nowhere, not to a slave with the empty id.                        *)
GetFinds ==
  /\ \A q \in Proc, n \in Id \cup {"unknown"} :
       Get(q, n) \ {Dead} \subseteq Owner(q, n) /\ (n \notin Id => Get(q, n) = {})
  /\ DistinctIds => \A q \in Proc, n \in Id : Owner(q, n) \subseteq Get(q, n)

(* "destroy the whole tree", slave.go: once the master stays away, every   *)
(* daemon ends and stays away, however deep, whatever it was doing, and    *)
(* although its accept loop may be stuck.  In a tree that is no documented *)
(* one slaves may be each other's parents in turn as long as somebody goes *)
(* on starting them.                                                       *)
TreeGoesDown ==
  /\ <>[](phase[Master] = "down")
  /\ Documented \/ <>[][\A p \in Slave : ~ StartSlave(p)]_vars
  => <>[](\A p \in Proc : phase[p] = "down")
=============================================================================
