--------------------------- MODULE RegistryProofs ---------------------------
(***************************************************************************)
(* Type correctness of Registry, and its two safety properties: the maps   *)
(* resolve each other, and a slave that never died is never dropped.       *)
(***************************************************************************)
EXTENDS Registry, TLAPS

(* What a slave is doing agrees with its address; the registrar is at the  *)
(* vital data of some slave unless it waits in Accept.                     *)
SlaveInv ==
  /\ \A i \in Slave : addr[i] = None <=> slave[i] = "down"
  /\ \A i \in Slave : addr[i] # None => owner[addr[i]] = i
  /\ IF reg = "accept" THEN vd = None ELSE vd \in Addr /\ owner[vd] \in Slave
  /\ \A k \in 1..Len(backlog) : owner[backlog[k]] \in Slave

(* Both maps, and what commands took out of them, name an address together *)
(* with the slave it was given to.                                         *)
EntryInv ==
  /\ \A i \in Slave : table[i] # None => owner[table[i]] = i
  /\ \A a \in Addr : addr2id[a] # None => addr2id[a] = owner[a]
  /\ \A c \in Cmd : \A a \in nodeSet[c] : owner[a] \in Slave
  /\ \A c \in Cmd : pc[c] \in {"remove", "forget"} =>
       gid[c] \in Slave /\ si[c] \in Addr /\ owner[si[c]] = gid[c]

(* An address whose slave ended.  It stays dead: no address is given twice.*)
Dead(a) == owner[a] # None /\ ~ Listening(a)

(* A command looks for something to remove only after a dial has failed at *)
(* an address of the slave it removes, if not at the address it removes.   *)
DeadInv ==
  /\ \A c \in Cmd : pc[c] = "getid" => si[c] \in Addr /\ Dead(si[c])
  /\ \A c \in Cmd : pc[c] \in {"getinfo", "remove", "forget"} =>
       gid[c] \in Slave /\ \E a \in Addr : owner[a] = gid[c] /\ Dead(a)

(* Nothing has ever been said of an address still to be entered.           *)
New(a) ==
  /\ \A i \in Slave : table[i] # a
  /\ \A c \in Cmd : pc[c] \in {"remove", "forget"} => si[c] # a

NewInv ==
  /\ \A k \in 1..Len(backlog) : New(backlog[k]) /\ backlog[k] # vd
  /\ \A j, k \in 1..Len(backlog) : j # k => backlog[j] # backlog[k]
  /\ reg = "slaves" => New(vd)

(* Between the two deletions of a removal the server does not come back.   *)
ForgetInv == \A c \in Cmd : pc[c] = "forget" => table[gid[c]] # si[c]

(* The only address this slave was ever given is the one it listens on.    *)
Steady(i) == addr[i] \in Addr /\ \A a \in Addr : owner[a] = i => a = addr[i]

SteadyInv ==
  \A i \in Slave : Steady(i) =>
    /\ slave[i] = "up" => table[i] = addr[i]
    /\ reg \in {"addr2id", "reply"} /\ vd = addr[i] => table[i] = addr[i]

IInv == /\ TypeOK /\ SlaveInv /\ EntryInv /\ DeadInv /\ NewInv
        /\ ForgetInv /\ ServerResolves /\ SteadyInv

-----------------------------------------------------------------------------
LEMMA InitInv == Init => IInv
<1> SUFFICES ASSUME Init PROVE IInv
  OBVIOUS
<1> USE NoneAssumption DEF Init
<1>1. TypeOK
  <2>1. backlog \in Seq(Addr)
    OBVIOUS
  <2> QED BY <2>1 DEF TypeOK
<1>2. SlaveInv /\ EntryInv /\ DeadInv /\ NewInv /\ ForgetInv
  BY DEF SlaveInv, EntryInv, DeadInv, NewInv, ForgetInv
<1>3. ServerResolves /\ SteadyInv
  BY DEF ServerResolves, SteadyInv, Steady
<1> QED BY <1>1, <1>2, <1>3 DEF IInv

LEMMA TypeStep == TypeOK /\ SlaveInv /\ DeadInv /\ [Next]_vars => TypeOK'
<1> SUFFICES ASSUME TypeOK, SlaveInv, DeadInv, [Next]_vars PROVE TypeOK'
  OBVIOUS
<1> USE NoneAssumption, WantedAssumption DEF TypeOK, slaveVars, mapVars, regVars, cmdVars
<1>1. CASE MasterDies
  BY <1>1 DEF MasterDies
<1>2. ASSUME NEW i \in Slave, NEW a \in Addr, SlaveStart(i, a) PROVE TypeOK'
  BY <1>2 DEF SlaveStart
<1>3. ASSUME NEW i \in Slave, SlaveSend(i) PROVE TypeOK'
  <2>1. addr[i] \in Addr
    BY <1>3 DEF SlaveSend, SlaveInv
  <2> QED BY <1>3, <2>1 DEF SlaveSend
<1>4. ASSUME NEW i \in Slave, SlaveEnds(i) PROVE TypeOK'
  BY <1>4 DEF SlaveEnds
<1>5. CASE RegRecv
  <2>1. backlog # <<>> /\ backlog' = Tail(backlog)
    BY <1>5 DEF RegRecv
  <2>2. Head(backlog) \in Addr /\ backlog' \in Seq(Addr)
    BY <2>1
  <2> QED BY <1>5, <2>1, <2>2 DEF RegRecv
<1>6. CASE AddSlave
  <2>1. vd \in Addr
    BY <1>6 DEF AddSlave, SlaveInv
  <2> QED BY <1>6, <2>1 DEF AddSlave
<1>7. CASE AddAddr
  <2>1. vd \in Addr
    BY <1>7 DEF AddAddr, SlaveInv
  <2> QED BY <1>7, <2>1 DEF AddAddr
<1>8. CASE RegReply
  BY <1>8 DEF RegReply
<1>9. ASSUME NEW c \in Cmd, CmdStart(c) PROVE TypeOK'
  BY <1>9 DEF CmdStart
<1>10. ASSUME NEW c \in Cmd, NEW i \in Slave, CmdLookup(c, i) PROVE TypeOK'
  BY <1>10 DEF CmdLookup
<1>11. ASSUME NEW c \in Cmd, NEW a \in Addr, CmdDial(c, a) PROVE TypeOK'
  BY <1>11 DEF CmdDial
<1>12. ASSUME NEW c \in Cmd, GetId(c) PROVE TypeOK'
  <2>1. si[c] \in Addr
    BY <1>12 DEF GetId, DeadInv
  <2> QED BY <1>12, <2>1 DEF GetId
<1>13. ASSUME NEW c \in Cmd, GetInfo(c) PROVE TypeOK'
  <2>1. gid[c] \in Slave
    BY <1>13 DEF GetInfo, DeadInv
  <2> QED BY <1>13, <2>1 DEF GetInfo
<1>14. ASSUME NEW c \in Cmd, RemoveSlave(c) PROVE TypeOK'
  BY <1>14 DEF RemoveSlave
<1>15. ASSUME NEW c \in Cmd, RemoveAddr(c) PROVE TypeOK'
  BY <1>15 DEF RemoveAddr
<1>16. ASSUME NEW c \in Cmd, CmdDone(c) PROVE TypeOK'
  BY <1>16 DEF CmdDone
<1> QED BY <1>1, <1>2, <1>3, <1>4, <1>5, <1>6, <1>7, <1>8, <1>9, <1>10, <1>11, <1>12, <1>13, <1>14, <1>15, <1>16
     DEF Next, vars, RegStep, CmdStep, SlaveDies, SlaveLosesMaster

LEMMA SlaveStep == TypeOK /\ SlaveInv /\ [Next]_vars => SlaveInv'
<1> SUFFICES ASSUME TypeOK, SlaveInv, [Next]_vars PROVE SlaveInv'
  OBVIOUS
<1> USE NoneAssumption DEF slaveVars, mapVars, regVars, cmdVars
<1>1. ASSUME NEW i \in Slave, NEW a \in Addr, SlaveStart(i, a) PROVE SlaveInv'
  <2>1. backlog' = Append(backlog, a) /\ Len(backlog') = Len(backlog) + 1
    BY <1>1 DEF SlaveStart, TypeOK
  <2>2. \A k \in 1..Len(backlog') : owner'[backlog'[k]] \in Slave
    BY <1>1, <2>1 DEF SlaveStart, TypeOK, SlaveInv
  <2> QED BY <1>1, <2>2 DEF SlaveStart, TypeOK, SlaveInv
<1>2. ASSUME NEW i \in Slave, SlaveSend(i) PROVE SlaveInv'
  BY <1>2 DEF SlaveSend, TypeOK, SlaveInv
<1>3. ASSUME NEW i \in Slave, SlaveEnds(i) PROVE SlaveInv'
  BY <1>3 DEF SlaveEnds, TypeOK, SlaveInv
<1>4. CASE RegRecv
  <2>1. backlog # <<>> /\ backlog' = Tail(backlog)
    BY <1>4 DEF RegRecv
  <2>2. Head(backlog) \in Addr /\ owner[Head(backlog)] \in Slave
    BY <2>1 DEF TypeOK, SlaveInv
  <2>3. \A k \in 1..Len(backlog') : owner[backlog'[k]] \in Slave
    BY <2>1 DEF TypeOK, SlaveInv
  <2> QED BY <1>4, <2>2, <2>3 DEF RegRecv, TypeOK, SlaveInv
<1>5. CASE AddSlave
  BY <1>5 DEF AddSlave, TypeOK, SlaveInv
<1>6. CASE AddAddr
  BY <1>6 DEF AddAddr, TypeOK, SlaveInv
<1>7. CASE RegReply
  BY <1>7 DEF RegReply, TypeOK, SlaveInv
<1>8. CASE UNCHANGED <<slave, addr, owner, reg, vd, backlog>>
  BY <1>8 DEF SlaveInv
<1> QED BY <1>1, <1>2, <1>3, <1>4, <1>5, <1>6, <1>7, <1>8
     DEF Next, vars, RegStep, CmdStep, SlaveDies, SlaveLosesMaster, MasterDies, CmdStart, CmdLookup, CmdDial, GetId, GetInfo, RemoveSlave, RemoveAddr, CmdDone

LEMMA EntryStep == TypeOK /\ SlaveInv /\ DeadInv /\ EntryInv /\ [Next]_vars => EntryInv'
<1> SUFFICES ASSUME TypeOK, SlaveInv, DeadInv, EntryInv, [Next]_vars PROVE EntryInv'
  OBVIOUS
<1> USE NoneAssumption DEF slaveVars, mapVars, regVars, cmdVars
<1>1. ASSUME NEW i \in Slave, NEW a \in Addr, SlaveStart(i, a) PROVE EntryInv'
  BY <1>1 DEF SlaveStart, TypeOK, EntryInv
<1>2. CASE AddSlave
  BY <1>2 DEF AddSlave, TypeOK, SlaveInv, EntryInv
<1>3. CASE AddAddr
  BY <1>3 DEF AddAddr, TypeOK, SlaveInv, EntryInv
<1>4. ASSUME NEW c \in Cmd, CmdStart(c) PROVE EntryInv'
  BY <1>4 DEF CmdStart, TypeOK, EntryInv
<1>5. ASSUME NEW c \in Cmd, NEW i \in Slave, CmdLookup(c, i) PROVE EntryInv'
  BY <1>5 DEF CmdLookup, TypeOK, EntryInv
<1>6. ASSUME NEW c \in Cmd, NEW a \in Addr, CmdDial(c, a) PROVE EntryInv'
  BY <1>6 DEF CmdDial, TypeOK, EntryInv
<1>7. ASSUME NEW c \in Cmd, GetId(c) PROVE EntryInv'
  BY <1>7 DEF GetId, TypeOK, EntryInv
<1>8. ASSUME NEW c \in Cmd, GetInfo(c) PROVE EntryInv'
  <2>1. gid[c] \in Slave
    BY <1>8 DEF GetInfo, DeadInv
  <2> QED BY <1>8, <2>1 DEF GetInfo, TypeOK, EntryInv
<1>9. ASSUME NEW c \in Cmd, RemoveSlave(c) PROVE EntryInv'
  BY <1>9 DEF RemoveSlave, TypeOK, EntryInv
<1>10. ASSUME NEW c \in Cmd, RemoveAddr(c) PROVE EntryInv'
  BY <1>10 DEF RemoveAddr, TypeOK, EntryInv
<1>11. ASSUME NEW c \in Cmd, CmdDone(c) PROVE EntryInv'
  BY <1>11 DEF CmdDone, TypeOK, EntryInv
<1>12. CASE UNCHANGED <<owner, table, addr2id, nodeSet, pc, gid, si>>
  BY <1>12 DEF EntryInv
<1> QED BY <1>1, <1>2, <1>3, <1>4, <1>5, <1>6, <1>7, <1>8, <1>9, <1>10, <1>11, <1>12
     DEF Next, vars, RegStep, CmdStep, SlaveDies, SlaveLosesMaster, MasterDies, SlaveSend, SlaveEnds, RegRecv, RegReply

LEMMA DeadStays ==
  ASSUME TypeOK, SlaveInv, [Next]_vars, NEW a \in Addr, Dead(a)
  PROVE  Dead(a)' /\ owner'[a] = owner[a]
<1> USE NoneAssumption DEF slaveVars, mapVars, regVars, cmdVars
<1>1. ASSUME NEW i \in Slave, NEW b \in Addr, SlaveStart(i, b) PROVE Dead(a)' /\ owner'[a] = owner[a]
  BY <1>1 DEF SlaveStart, Dead, Listening, TypeOK
<1>2. ASSUME NEW i \in Slave, SlaveEnds(i) PROVE Dead(a)' /\ owner'[a] = owner[a]
  BY <1>2 DEF SlaveEnds, Dead, Listening, TypeOK
<1>3. CASE UNCHANGED <<owner, addr>>
  BY <1>3 DEF Dead, Listening
<1> QED BY <1>1, <1>2, <1>3
     DEF Next, vars, RegStep, CmdStep, SlaveDies, SlaveLosesMaster, MasterDies, SlaveSend,
         RegRecv, AddSlave, AddAddr, RegReply, CmdStart, CmdLookup, CmdDial, GetId, GetInfo,
         RemoveSlave, RemoveAddr, CmdDone

LEMMA DeadStep == TypeOK /\ SlaveInv /\ EntryInv /\ DeadInv /\ [Next]_vars => DeadInv'
<1> SUFFICES ASSUME TypeOK, SlaveInv, EntryInv, DeadInv, [Next]_vars PROVE DeadInv'
  OBVIOUS
<1> USE DEF slaveVars, mapVars, regVars, cmdVars
<1>0. \A b \in Addr : Dead(b) => Dead(b)' /\ owner'[b] = owner[b]
  BY DeadStays
<1>1. ASSUME NEW c \in Cmd, CmdStart(c) PROVE DeadInv'
  BY <1>1, <1>0 DEF CmdStart, TypeOK, DeadInv
<1>2. ASSUME NEW c \in Cmd, NEW a \in Addr, CmdDial(c, a) PROVE DeadInv'
  <2>1. ~ Listening(a) => Dead(a)
    BY <1>2, NoneAssumption DEF CmdDial, Dead, EntryInv
  <2> QED BY <1>2, <2>1, <1>0 DEF CmdDial, TypeOK, DeadInv
<1>3. ASSUME NEW c \in Cmd, GetId(c) PROVE DeadInv'
  <2>1. si[c] \in Addr /\ Dead(si[c])
    BY <1>3 DEF GetId, DeadInv
  <2>2. addr2id[si[c]] # None => addr2id[si[c]] = owner[si[c]] /\ addr2id[si[c]] \in Slave
    BY <2>1 DEF EntryInv, TypeOK
  <2> QED BY <1>3, <2>1, <2>2, <1>0 DEF GetId, TypeOK, DeadInv
<1>4. ASSUME NEW c \in Cmd, GetInfo(c) PROVE DeadInv'
  BY <1>4, <1>0 DEF GetInfo, TypeOK, DeadInv
<1>5. ASSUME NEW c \in Cmd, RemoveSlave(c) PROVE DeadInv'
  BY <1>5, <1>0 DEF RemoveSlave, TypeOK, DeadInv
<1>6. ASSUME NEW c \in Cmd, RemoveAddr(c) PROVE DeadInv'
  BY <1>6, <1>0 DEF RemoveAddr, TypeOK, DeadInv
<1>7. ASSUME NEW c \in Cmd, CmdDone(c) PROVE DeadInv'
  BY <1>7, <1>0 DEF CmdDone, TypeOK, DeadInv
<1>8. CASE UNCHANGED <<pc, gid, si>>
  BY <1>8, <1>0 DEF TypeOK, DeadInv
<1> QED BY <1>8, <1>1, <1>2, <1>3, <1>4, <1>5, <1>6, <1>7
     DEF Next, vars, RegStep, CmdStep, SlaveDies, SlaveLosesMaster, MasterDies, SlaveStart, SlaveSend, SlaveEnds, RegRecv, AddSlave, AddAddr, RegReply, CmdLookup

LEMMA NewStep == TypeOK /\ SlaveInv /\ EntryInv /\ DeadInv /\ NewInv /\ [Next]_vars => NewInv'
<1> SUFFICES ASSUME TypeOK, SlaveInv, EntryInv, DeadInv, NewInv, [Next]_vars PROVE NewInv'
  OBVIOUS
<1> USE NoneAssumption DEF slaveVars, mapVars, regVars, cmdVars
<1>1. ASSUME NEW i \in Slave, NEW a \in Addr, SlaveStart(i, a) PROVE NewInv'
  <2>1. /\ backlog' = Append(backlog, a) /\ Len(backlog') = Len(backlog) + 1
        /\ \A k \in 1..Len(backlog) : backlog'[k] = backlog[k] /\ backlog[k] # a
        /\ backlog'[Len(backlog) + 1] = a
    BY <1>1 DEF SlaveStart, TypeOK, SlaveInv
  <2>2. New(a) /\ a # vd
    BY <1>1 DEF SlaveStart, New, TypeOK, EntryInv, SlaveInv
  <2>3. UNCHANGED <<table, pc, si, reg, vd>>
    BY <1>1 DEF SlaveStart
  <2>4. (\A k \in 1..Len(backlog) : New(backlog[k]) /\ backlog[k] # vd)'
    BY <2>1, <2>2, <2>3 DEF New, NewInv, TypeOK
  <2>5. \A j, k \in 1..Len(backlog') : j # k => backlog'[j] # backlog'[k]
    BY <2>1 DEF NewInv, TypeOK
  <2>6. reg' = "slaves" => New(vd)'
    BY <2>3 DEF New, NewInv
  <2> QED BY <2>4, <2>5, <2>6 DEF NewInv
<1>2. CASE RegRecv
  <2>1. backlog # <<>> /\ backlog' = Tail(backlog)
    BY <1>2 DEF RegRecv
  <2>2. /\ Head(backlog) = backlog[1] /\ 1 \in 1..Len(backlog)
        /\ Len(backlog') = Len(backlog) - 1
        /\ \A k \in 1..Len(backlog') : backlog'[k] = backlog[k + 1] /\ k + 1 \in 1..Len(backlog)
    BY <2>1 DEF TypeOK
  <2>3. UNCHANGED <<table, pc, si>> /\ ((vd' = vd /\ reg' = reg) \/ vd' = backlog[1])
    BY <1>2, <2>2 DEF RegRecv
  <2>4. (\A k \in 1..Len(backlog) : New(backlog[k]) /\ backlog[k] # vd)'
    <3> SUFFICES ASSUME NEW k \in 1..Len(backlog') PROVE (New(backlog[k]) /\ backlog[k] # vd)'
      OBVIOUS
    <3>1. k + 1 # 1 /\ k + 1 \in 1..Len(backlog) /\ backlog'[k] = backlog[k + 1]
      BY <2>2 DEF TypeOK
    <3> QED BY <3>1, <2>2, <2>3 DEF New, NewInv
  <2>5. \A j, k \in 1..Len(backlog') : j # k => backlog'[j] # backlog'[k]
    <3> SUFFICES ASSUME NEW j \in 1..Len(backlog'), NEW k \in 1..Len(backlog'), j # k
                 PROVE  backlog'[j] # backlog'[k]
      OBVIOUS
    <3>1. j + 1 # k + 1
      BY <2>2 DEF TypeOK
    <3> QED BY <3>1, <2>2 DEF NewInv
  <2>6. reg' = "slaves" => New(vd)'
    BY <2>2, <2>3 DEF New, NewInv
  <2> QED BY <2>4, <2>5, <2>6 DEF NewInv
<1>3. CASE AddSlave
  <2>1. vd \in Addr /\ \A k \in 1..Len(backlog) : backlog[k] # vd
    BY <1>3 DEF AddSlave, SlaveInv, NewInv
  <2> QED BY <1>3, <2>1 DEF AddSlave, New, NewInv, TypeOK
<1>4. CASE AddAddr
  BY <1>4 DEF AddAddr, New, NewInv
<1>5. CASE RegReply
  <2>1. \A k \in 1..Len(backlog) : backlog[k] # None
    BY DEF TypeOK
  <2> QED BY <1>5, <2>1 DEF RegReply, New, NewInv
<1>6. ASSUME NEW c \in Cmd, CmdStart(c) PROVE NewInv'
  BY <1>6 DEF CmdStart, New, NewInv, TypeOK
<1>7. ASSUME NEW c \in Cmd, NEW a \in Addr, CmdDial(c, a) PROVE NewInv'
  BY <1>7 DEF CmdDial, New, NewInv, TypeOK
<1>8. ASSUME NEW c \in Cmd, GetId(c) PROVE NewInv'
  BY <1>8 DEF GetId, New, NewInv, TypeOK
<1>9. ASSUME NEW c \in Cmd, GetInfo(c) PROVE NewInv'
  <2>1. gid[c] \in Slave
    BY <1>9 DEF GetInfo, DeadInv
  <2>2. \A a : New(a) => New(a)'
    BY <1>9, <2>1 DEF GetInfo, New, TypeOK
  <2> QED BY <1>9, <2>2 DEF GetInfo, NewInv
<1>10. ASSUME NEW c \in Cmd, RemoveSlave(c) PROVE NewInv'
  <2>1. \A a \in Addr : New(a) => New(a)'
    BY <1>10 DEF RemoveSlave, New, TypeOK
  <2>2. \A k \in 1..Len(backlog) : backlog[k] \in Addr
    BY DEF TypeOK
  <2> QED BY <1>10, <2>1, <2>2 DEF RemoveSlave, NewInv, SlaveInv
<1>11. ASSUME NEW c \in Cmd, RemoveAddr(c) PROVE NewInv'
  BY <1>11 DEF RemoveAddr, New, NewInv, TypeOK
<1>12. ASSUME NEW c \in Cmd, CmdDone(c) PROVE NewInv'
  BY <1>12 DEF CmdDone, New, NewInv, TypeOK
<1>13. CASE UNCHANGED <<table, pc, si, backlog, vd, reg>>
  BY <1>13 DEF New, NewInv
<1> QED BY <1>1, <1>2, <1>3, <1>4, <1>5, <1>6, <1>7, <1>8, <1>9, <1>10, <1>11, <1>12, <1>13
     DEF Next, vars, RegStep, CmdStep, SlaveDies, SlaveLosesMaster, MasterDies, SlaveSend, SlaveEnds, CmdLookup

LEMMA ForgetStep == TypeOK /\ SlaveInv /\ EntryInv /\ NewInv /\ ForgetInv /\ [Next]_vars => ForgetInv'
<1> SUFFICES ASSUME TypeOK, SlaveInv, EntryInv, NewInv, ForgetInv, [Next]_vars PROVE ForgetInv'
  OBVIOUS
<1> USE NoneAssumption DEF slaveVars, mapVars, regVars, cmdVars
<1>1. CASE AddSlave
  <2>1. New(vd) /\ vd \in Addr
    BY <1>1 DEF AddSlave, NewInv, SlaveInv
  <2> QED BY <1>1, <2>1 DEF AddSlave, New, ForgetInv, EntryInv, TypeOK
<1>2. ASSUME NEW c \in Cmd, CmdStart(c) PROVE ForgetInv'
  BY <1>2 DEF CmdStart, ForgetInv, TypeOK
<1>3. ASSUME NEW c \in Cmd, NEW a \in Addr, CmdDial(c, a) PROVE ForgetInv'
  BY <1>3 DEF CmdDial, ForgetInv, TypeOK
<1>4. ASSUME NEW c \in Cmd, GetId(c) PROVE ForgetInv'
  BY <1>4 DEF GetId, ForgetInv, TypeOK
<1>5. ASSUME NEW c \in Cmd, GetInfo(c) PROVE ForgetInv'
  BY <1>5 DEF GetInfo, ForgetInv, TypeOK
<1>6. ASSUME NEW c \in Cmd, RemoveSlave(c) PROVE ForgetInv'
  BY <1>6 DEF RemoveSlave, ForgetInv, EntryInv, TypeOK
<1>7. ASSUME NEW c \in Cmd, RemoveAddr(c) PROVE ForgetInv'
  BY <1>7 DEF RemoveAddr, ForgetInv, TypeOK
<1>8. ASSUME NEW c \in Cmd, CmdDone(c) PROVE ForgetInv'
  BY <1>8 DEF CmdDone, ForgetInv, TypeOK
<1>9. CASE UNCHANGED <<table, pc, gid, si>>
  BY <1>9 DEF ForgetInv
<1> QED BY <1>1, <1>2, <1>3, <1>4, <1>5, <1>6, <1>7, <1>8, <1>9
     DEF Next, vars, RegStep, CmdStep, SlaveDies, SlaveLosesMaster, MasterDies, SlaveStart, SlaveSend, SlaveEnds, RegRecv, AddAddr, RegReply, CmdLookup

LEMMA ResolveStep == TypeOK /\ SlaveInv /\ EntryInv /\ NewInv /\ ForgetInv /\ ServerResolves /\ [Next]_vars => ServerResolves'
<1> SUFFICES ASSUME TypeOK, SlaveInv, EntryInv, NewInv, ForgetInv, ServerResolves, [Next]_vars PROVE ServerResolves'
  OBVIOUS
<1> USE NoneAssumption DEF slaveVars, mapVars, regVars, cmdVars
<1>1. ASSUME NEW i \in Slave, NEW a \in Addr, SlaveStart(i, a) PROVE ServerResolves'
  BY <1>1 DEF SlaveStart, ServerResolves, TypeOK, SlaveInv
<1>2. CASE RegRecv
  BY <1>2 DEF RegRecv, ServerResolves
<1>3. CASE AddSlave
  BY <1>3 DEF AddSlave, ServerResolves, SlaveInv, TypeOK
<1>4. CASE AddAddr
  BY <1>4 DEF AddAddr, ServerResolves, SlaveInv, EntryInv, TypeOK
<1>5. CASE RegReply
  BY <1>5 DEF RegReply, ServerResolves
<1>6. ASSUME NEW c \in Cmd, RemoveSlave(c) PROVE ServerResolves'
  BY <1>6 DEF RemoveSlave, ServerResolves, TypeOK
<1>7. ASSUME NEW c \in Cmd, RemoveAddr(c) PROVE ServerResolves'
  <2>1. /\ gid[c] \in Slave /\ si[c] \in Addr /\ owner[si[c]] = gid[c]
        /\ table[gid[c]] # si[c]
    BY <1>7 DEF RemoveAddr, EntryInv, ForgetInv
  <2>2. \A i \in Slave : table[i] # si[c]
    BY <2>1 DEF EntryInv, TypeOK
  <2> QED BY <1>7, <2>1, <2>2 DEF RemoveAddr, ServerResolves, TypeOK
<1>8. CASE UNCHANGED <<table, addr2id, reg, vd, owner>>
  BY <1>8 DEF ServerResolves
<1> QED BY <1>1, <1>2, <1>3, <1>4, <1>5, <1>6, <1>7, <1>8
     DEF Next, vars, RegStep, CmdStep, SlaveDies, SlaveLosesMaster, MasterDies, SlaveSend, SlaveEnds, CmdStart, CmdLookup, CmdDial, GetId, GetInfo, CmdDone

LEMMA SteadyStep == TypeOK /\ SlaveInv /\ DeadInv /\ SteadyInv /\ [Next]_vars => SteadyInv'
<1> SUFFICES ASSUME TypeOK, SlaveInv, DeadInv, SteadyInv, [Next]_vars PROVE SteadyInv'
  OBVIOUS
<1> USE NoneAssumption DEF slaveVars, mapVars, regVars, cmdVars
<1>1. ASSUME NEW i \in Slave, NEW a \in Addr, SlaveStart(i, a) PROVE SteadyInv'
  <2>1. \A j \in Slave : j # i /\ Steady(j)' => Steady(j)
    BY <1>1 DEF SlaveStart, Steady, TypeOK
  <2>2. vd # a
    BY <1>1 DEF SlaveStart, SlaveInv, TypeOK
  <2> QED BY <1>1, <2>1, <2>2 DEF SlaveStart, SteadyInv, SlaveInv, TypeOK
<1>2. ASSUME NEW i \in Slave, SlaveSend(i) PROVE SteadyInv'
  <2>1. \A j \in Slave : Steady(j)' <=> Steady(j)
    BY <1>2 DEF SlaveSend, Steady
  <2> QED BY <1>2, <2>1 DEF SlaveSend, SteadyInv, TypeOK
<1>3. ASSUME NEW i \in Slave, SlaveEnds(i) PROVE SteadyInv'
  <2>1. ~ Steady(i)'
    BY <1>3 DEF SlaveEnds, Steady, TypeOK
  <2>2. \A j \in Slave : j # i => (Steady(j)' <=> Steady(j))
    BY <1>3 DEF SlaveEnds, Steady, TypeOK
  <2> QED BY <1>3, <2>1, <2>2 DEF SlaveEnds, SteadyInv, TypeOK
<1>4. CASE RegRecv
  BY <1>4 DEF RegRecv, SteadyInv, Steady
<1>5. CASE AddSlave
  <2>1. vd \in Addr /\ owner[vd] \in Slave
    BY <1>5 DEF AddSlave, SlaveInv
  <2> QED BY <1>5, <2>1 DEF AddSlave, SteadyInv, Steady, SlaveInv, TypeOK
<1>6. CASE AddAddr
  BY <1>6 DEF AddAddr, SteadyInv, Steady
<1>7. CASE RegReply
  BY <1>7 DEF RegReply, SteadyInv, Steady, TypeOK
<1>8. ASSUME NEW c \in Cmd, RemoveSlave(c) PROVE SteadyInv'
  <2>1. PICK a \in Addr : owner[a] = gid[c] /\ Dead(a)
    BY <1>8 DEF RemoveSlave, DeadInv
  <2>2. ~ Steady(gid[c])
    BY <1>8, <2>1 DEF RemoveSlave, DeadInv, Dead, Listening, Steady
  <2>3. \A j \in Slave : Steady(j)' <=> Steady(j)
    BY <1>8 DEF RemoveSlave, Steady
  <2> QED BY <1>8, <2>2, <2>3 DEF RemoveSlave, SteadyInv, TypeOK
<1>9. CASE UNCHANGED <<slave, addr, owner, reg, vd, table>>
  BY <1>9 DEF SteadyInv, Steady
<1> QED BY <1>1, <1>2, <1>3, <1>4, <1>5, <1>6, <1>7, <1>8, <1>9
     DEF Next, vars, RegStep, CmdStep, SlaveDies, SlaveLosesMaster, MasterDies, CmdStart, CmdLookup, CmdDial, GetId, GetInfo, RemoveAddr, CmdDone

-----------------------------------------------------------------------------
(* What the registrar, the commands and the slaves know of one another.    *)
THEOREM RegistryInvariance == Spec => []IInv
<1>1. IInv /\ [Next]_vars => IInv'
  BY TypeStep, SlaveStep, EntryStep, DeadStep, NewStep, ForgetStep, ResolveStep, SteadyStep DEF IInv
<1> QED BY <1>1, InitInv, PTL DEF Spec

(* The maps, the registrar and the commands keep their types, so nothing   *)
(* is ever looked up under a missing id or removed under a missing server. *)
THEOREM RegistryTypeCorrect == Spec => []TypeOK
<1>1. IInv => TypeOK
  BY DEF IInv
<1> QED BY <1>1, RegistryInvariance, PTL

(* A server in Slaves can be found through Addr2id, for any number of      *)
(* slaves, restarts and commands.                                          *)
THEOREM MapsResolve == Spec => []ServerResolves
<1>1. IInv => ServerResolves
  BY DEF IInv
<1> QED BY <1>1, RegistryInvariance, PTL

(* Only a slave that has been restarted can be lost from the table.        *)
THEOREM SteadyStay == Spec => []SteadySlavesStay
<1>1. IInv => SteadySlavesStay
  BY NoneAssumption DEF IInv, TypeOK, SlaveInv, SteadyInv, Steady, SteadySlavesStay
<1> QED BY <1>1, RegistryInvariance, PTL
=============================================================================
