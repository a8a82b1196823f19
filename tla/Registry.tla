------------------------------ MODULE Registry ------------------------------
(***************************************************************************)
(* The registry of one daemon, here the master: slaves come, register, die *)
(* and come back at another address; registerSlaves enters them into the   *)
(* maps Slaves and Addr2id; the goroutines of commands expand node sets    *)
(* from the same maps and take out what they cannot dial.  Nothing locks   *)
(* the maps, so every access to one of them is a step of its own.          *)
(***************************************************************************)
EXTENDS Naturals, Sequences, FiniteSets

CONSTANTS
  Slave,    \* ids of slaves (-myId)
  Addr,     \* addresses slaves may get to listen on: bounds their restarts
  Cmd,      \* goroutines of the master that serve commands
  Wanted,   \* Wanted[c] are the ids command c is for; all of them for "."
  None

ASSUME NoneAssumption == None \notin Slave \cup Addr
ASSUME WantedAssumption == Wanted \in [Cmd -> SUBSET Slave]

VARIABLES
  up,       \* the master is running
  slave,    \* phase of each slave daemon
  addr,     \* the address it listens on
  owner,    \* the slave an address was given to, for good
  wrote,    \* the addresses whose slave has written its vital data
  backlog,  \* connections the registrar has not accepted yet
  ready,    \* netaddr is set, so clients are told HostReady
  reg,      \* phase of the registrar
  vd,       \* ServerAddr of the vital data it is at
  table,    \* Slaves: id to the Server of its SlaveInfo
  addr2id,  \* Addr2id
  pc,       \* phase of each command goroutine
  left,     \* ids it has not looked up yet
  nodeSet,  \* servers it has not dialled yet
  gid,      \* id it found for the server it could not dial
  si        \* that server, then the server of the SlaveInfo to remove

slaveVars == <<slave, addr, owner, wrote>>
mapVars   == <<table, addr2id>>
regVars   == <<backlog, ready, reg, vd>>
cmdVars   == <<pc, left, nodeSet, gid, si>>
vars      == <<up, slaveVars, mapVars, regVars, cmdVars>>

TypeOK ==
  /\ up \in BOOLEAN
  /\ slave \in [Slave -> {"down", "dialled", "sent", "up"}]
  /\ addr \in [Slave -> Addr \cup {None}]
  /\ owner \in [Addr -> Slave \cup {None}]
  /\ wrote \in SUBSET Addr
  /\ backlog \in Seq(Addr)
  /\ ready \in BOOLEAN
  /\ reg \in {"accept", "slaves", "addr2id", "reply"}
  /\ vd \in Addr \cup {None}
  /\ table \in [Slave -> Addr \cup {None}]
  /\ addr2id \in [Addr -> Slave \cup {None}]
  /\ pc \in [Cmd -> {"idle", "nodes", "getid", "getinfo", "remove", "forget"}]
  /\ left \in [Cmd -> SUBSET Slave]
  /\ nodeSet \in [Cmd -> SUBSET Addr]
  /\ gid \in [Cmd -> Slave \cup {None}]
  /\ si \in [Cmd -> Addr \cup {None}]

Init ==
  /\ up = TRUE
  /\ slave = [i \in Slave |-> "down"]
  /\ addr = [i \in Slave |-> None]
  /\ owner = [a \in Addr |-> None]
  /\ wrote = {}
  /\ backlog = <<>>
  /\ ready = FALSE
  /\ reg = "accept"
  /\ vd = None
  /\ table = [i \in Slave |-> None]
  /\ addr2id = [a \in Addr |-> None]
  /\ pc = [c \in Cmd |-> "idle"]
  /\ left = [c \in Cmd |-> {}]
  /\ nodeSet = [c \in Cmd |-> {}]
  /\ gid = [c \in Cmd |-> None]
  /\ si = [c \in Cmd |-> None]

(* Somebody listens on a: the slave it was given to is still the same one. *)
Listening(a) == \E i \in Slave : addr[i] = a

-----------------------------------------------------------------------------
(* A slave daemon: startSlave.                                             *)

(* It dials its parent and listens on a port the kernel picks.             *)
SlaveStart(i, a) ==
  /\ up
  /\ slave[i] = "down"
  /\ owner[a] = None
  /\ slave' = [slave EXCEPT ![i] = "dialled"]
  /\ addr' = [addr EXCEPT ![i] = a]
  /\ owner' = [owner EXCEPT ![a] = i]
  /\ backlog' = Append(backlog, a)
  /\ UNCHANGED <<up, wrote, mapVars, ready, reg, vd, cmdVars>>

(* initSlave sends the vital data, then waits for the answer.              *)
SlaveSend(i) ==
  /\ up
  /\ slave[i] = "dialled"
  /\ slave' = [slave EXCEPT ![i] = "sent"]
  /\ wrote' = wrote \cup {addr[i]}
  /\ UNCHANGED <<up, addr, owner, mapVars, regVars, cmdVars>>

SlaveEnds(i) ==
  /\ slave[i] # "down"
  /\ slave' = [slave EXCEPT ![i] = "down"]
  /\ addr' = [addr EXCEPT ![i] = None]
  /\ UNCHANGED <<up, owner, wrote, mapVars, regVars, cmdVars>>

(* The process or its node dies.                                           *)
SlaveDies(i) == up /\ SlaveEnds(i)

(* Variant that watches its connection only once it serves commands.       *)
SlaveLosesMasterLate(i) == ~ up /\ slave[i] = "up" /\ SlaveEnds(i)

(* The connection to the master fails: a slave that waits for its answer   *)
(* panics, one that serves commands exits.                                 *)
SlaveLosesMaster(i) == ~ up /\ SlaveEnds(i)

(* Control-C, or the runtime aborts on two accesses to a map at once.      *)
MasterDies ==
  /\ up
  /\ up' = FALSE
  /\ UNCHANGED <<slaveVars, mapVars, regVars, cmdVars>>

-----------------------------------------------------------------------------
(* registerSlaves.                                                         *)

(* Variant that waits for vital data without noticing the end of the       *)
(* connection.                                                             *)
RegRecvPatient ==
  /\ up
  /\ reg = "accept" /\ backlog # <<>>
  /\ Head(backlog) \in wrote
  /\ reg' = "slaves"
  /\ vd' = Head(backlog)
  /\ ready' = TRUE
  /\ backlog' = Tail(backlog)
  /\ UNCHANGED <<up, slaveVars, mapVars, cmdVars>>

(* Accept the next connection and receive its vital data, which fails if   *)
(* the slave ended before it wrote them.  Other connections wait.          *)
RegRecv ==
  /\ up
  /\ reg = "accept" /\ backlog # <<>>
  /\ backlog' = Tail(backlog)
  /\ LET a == Head(backlog)
     IN  \/ /\ a \in wrote
            /\ reg' = "slaves"
            /\ vd' = a
            /\ ready' = TRUE
         \/ /\ a \notin wrote /\ ~ Listening(a)
            /\ UNCHANGED <<reg, vd, ready>>
  /\ UNCHANGED <<up, slaveVars, mapVars, cmdVars>>

(* Variant that enters the id where the server belongs.                    *)
AddSlaveId ==
  /\ up
  /\ reg = "slaves"
  /\ reg' = "addr2id"
  /\ table' = [table EXCEPT ![owner[vd]] = owner[vd]]
  /\ UNCHANGED <<up, slaveVars, addr2id, backlog, ready, vd, cmdVars>>

(* Slaves.Add, one map after the other.                                    *)
AddSlave ==
  /\ up
  /\ reg = "slaves"
  /\ reg' = "addr2id"
  /\ table' = [table EXCEPT ![owner[vd]] = vd]
  /\ UNCHANGED <<up, slaveVars, addr2id, backlog, ready, vd, cmdVars>>

(* Variant that knows an id by its first address only.                     *)
AddAddrOnce ==
  /\ up
  /\ reg = "addr2id"
  /\ reg' = "reply"
  /\ addr2id' = IF \E a \in Addr : addr2id[a] = owner[vd] THEN addr2id
                ELSE [addr2id EXCEPT ![vd] = owner[vd]]
  /\ UNCHANGED <<up, slaveVars, table, backlog, ready, vd, cmdVars>>

AddAddr ==
  /\ up
  /\ reg = "addr2id"
  /\ reg' = "reply"
  /\ addr2id' = [addr2id EXCEPT ![vd] = owner[vd]]
  /\ UNCHANGED <<up, slaveVars, table, backlog, ready, vd, cmdVars>>

(* The answer lets the slave go on to serve commands, if it is still there.*)
RegReply ==
  /\ up
  /\ reg = "reply"
  /\ reg' = "accept"
  /\ vd' = None
  /\ slave' = [i \in Slave |-> IF addr[i] = vd THEN "up" ELSE slave[i]]
  /\ UNCHANGED <<up, addr, owner, wrote, mapVars, backlog, ready, cmdVars>>

-----------------------------------------------------------------------------
(* The goroutine of a command: ServIntersect, then one dial per server.    *)

CmdStart(c) ==
  /\ up
  /\ pc[c] = "idle"
  /\ ready
  /\ pc' = [pc EXCEPT ![c] = "nodes"]
  /\ left' = [left EXCEPT ![c] = Wanted[c]]
  /\ UNCHANGED <<up, slaveVars, mapVars, regVars, nodeSet, gid, si>>

(* The next id of the list, or the next entry of the range over the map.   *)
CmdLookup(c, i) ==
  /\ up
  /\ pc[c] = "nodes" /\ i \in left[c]
  /\ left' = [left EXCEPT ![c] = @ \ {i}]
  /\ nodeSet' = [nodeSet EXCEPT ![c] = @ \cup ({table[i]} \ {None})]
  /\ UNCHANGED <<up, slaveVars, mapVars, regVars, pc, gid, si>>

(* Variant that takes a slave still waiting for its answer for dead.       *)
CmdDialHasty(c, a) ==
  /\ up
  /\ pc[c] = "nodes" /\ left[c] = {} /\ a \in nodeSet[c]
  /\ nodeSet' = [nodeSet EXCEPT ![c] = @ \ {a}]
  /\ IF \E i \in Slave : addr[i] = a /\ slave[i] = "up"
     THEN UNCHANGED <<pc, si>>
     ELSE pc' = [pc EXCEPT ![c] = "getid"] /\ si' = [si EXCEPT ![c] = a]
  /\ UNCHANGED <<up, slaveVars, mapVars, regVars, left, gid>>

CmdDial(c, a) ==
  /\ up
  /\ pc[c] = "nodes" /\ left[c] = {} /\ a \in nodeSet[c]
  /\ nodeSet' = [nodeSet EXCEPT ![c] = @ \ {a}]
  /\ \/ Listening(a) /\ UNCHANGED <<pc, si>>
     \/ /\ ~ Listening(a)
        /\ pc' = [pc EXCEPT ![c] = "getid"]
        /\ si' = [si EXCEPT ![c] = a]
  /\ UNCHANGED <<up, slaveVars, mapVars, regVars, left, gid>>

(* Slaves.Get(server): an address is nobody's id, so it goes through       *)
(* Addr2id, and then to whatever Slaves holds for that id.                 *)
GetId(c) ==
  /\ up
  /\ pc[c] = "getid"
  /\ gid' = [gid EXCEPT ![c] = addr2id[si[c]]]
  /\ pc' = [pc EXCEPT ![c] = IF addr2id[si[c]] = None THEN "nodes" ELSE "getinfo"]
  /\ UNCHANGED <<up, slaveVars, mapVars, regVars, left, nodeSet, si>>

GetInfo(c) ==
  /\ up
  /\ pc[c] = "getinfo"
  /\ si' = [si EXCEPT ![c] = table[gid[c]]]
  /\ pc' = [pc EXCEPT ![c] = IF table[gid[c]] = None THEN "nodes" ELSE "remove"]
  /\ UNCHANGED <<up, slaveVars, mapVars, regVars, left, nodeSet, gid>>

(* Slaves.Remove, one map after the other.                                 *)
RemoveSlave(c) ==
  /\ up
  /\ pc[c] = "remove"
  /\ pc' = [pc EXCEPT ![c] = "forget"]
  /\ table' = [table EXCEPT ![gid[c]] = None]
  /\ UNCHANGED <<up, slaveVars, addr2id, regVars, left, nodeSet, gid, si>>

(* Variant that forgets every address the id was known by.                 *)
RemoveAddrAll(c) ==
  /\ up
  /\ pc[c] = "forget"
  /\ pc' = [pc EXCEPT ![c] = "nodes"]
  /\ addr2id' = [a \in Addr |-> IF addr2id[a] = gid[c] THEN None ELSE addr2id[a]]
  /\ UNCHANGED <<up, slaveVars, table, regVars, left, nodeSet, gid, si>>

RemoveAddr(c) ==
  /\ up
  /\ pc[c] = "forget"
  /\ pc' = [pc EXCEPT ![c] = "nodes"]
  /\ addr2id' = [addr2id EXCEPT ![si[c]] = None]
  /\ UNCHANGED <<up, slaveVars, table, regVars, left, nodeSet, gid, si>>

CmdDone(c) ==
  /\ up
  /\ pc[c] = "nodes" /\ left[c] = {} /\ nodeSet[c] = {}
  /\ pc' = [pc EXCEPT ![c] = "idle"]
  /\ gid' = [gid EXCEPT ![c] = None]
  /\ si' = [si EXCEPT ![c] = None]
  /\ UNCHANGED <<up, slaveVars, mapVars, regVars, left, nodeSet>>

-----------------------------------------------------------------------------
RegStep == RegRecv \/ AddSlave \/ AddAddr \/ RegReply
CmdStep(c) ==
  \/ GetId(c) \/ GetInfo(c) \/ RemoveSlave(c) \/ RemoveAddr(c) \/ CmdDone(c)
  \/ \E i \in Slave : CmdLookup(c, i)
  \/ \E a \in Addr : CmdDial(c, a)

Next ==
  \/ MasterDies
  \/ RegStep
  \/ \E i \in Slave : \/ SlaveSend(i) \/ SlaveDies(i) \/ SlaveLosesMaster(i)
                      \/ \E a \in Addr : SlaveStart(i, a)
  \/ \E c \in Cmd : CmdStart(c) \/ CmdStep(c)

(* Goroutines that can run do; slaves need not start and users need not    *)
(* come, nothing has to die.                                               *)
Fairness ==
  /\ WF_vars(RegStep)
  /\ \A i \in Slave : WF_vars(SlaveSend(i)) /\ WF_vars(SlaveLosesMaster(i))
  /\ \A c \in Cmd : WF_vars(CmdStep(c))

Spec     == Init /\ [][Next]_vars
FairSpec == Spec /\ Fairness

-----------------------------------------------------------------------------
(* Whoever is in Slaves can be found by the address it is dialled at, and  *)
(* so can be removed when the dial fails, whatever additions and removals  *)
(* of the same id interleave; the registrar between its two writes is the  *)
(* one exception.                                                          *)
ServerResolves ==
  \A i \in Slave : table[i] # None =>
    \/ addr2id[table[i]] = i
    \/ reg = "addr2id" /\ vd = table[i] /\ owner[vd] = i

(* A slave that serves commands and has never been restarted stays in the  *)
(* table, whatever happens to others.                                      *)
SteadySlavesStay ==
  \A i \in Slave :
    slave[i] = "up" /\ {a \in Addr : owner[a] = i} = {addr[i]} => table[i] = addr[i]

(* common.go speaks of "nodes that have contacted you to tell them who     *)
(* they are": a slave that has registered and serves commands can be asked.*)
(* A restarted one may have been taken out in place of its predecessor.    *)
RegisteredStay ==
  \A i \in Slave : slave[i] = "up" => table[i] = addr[i]

(* While commands for everyone keep coming, a server nobody listens on     *)
(* does not stay in the table.                                             *)
DeadArePruned ==
  \A c \in Cmd : []<><<CmdStart(c)>>_vars =>
    \A i \in Wanted[c], a \in Addr :
      table[i] = a /\ ~ Listening(a) ~> table[i] # a

(* A slave that has dialled gets its answer, or dies; one that ends before *)
(* it has told anything about itself does not hold up the others.          *)
RegistrationEnds ==
  \A i \in Slave : slave[i] \in {"dialled", "sent"} ~> slave[i] \in {"up", "down"}

(* "Ctrl-C the master process; all the slaves should then automatically    *)
(* exit", wherever each of them is, and they stay away.                    *)
SlavesExitWithMaster == ~ up ~> [](\A i \in Slave : slave[i] = "down")
=============================================================================
