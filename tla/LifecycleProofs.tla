-------------------------- MODULE LifecycleProofs ---------------------------
(***************************************************************************)
(* Proofs about Lifecycle: for any number of daemons, any ways to start    *)
(* them and any flags, whoever dies and comes back in whatever order, no   *)
(* circle of parents arises, and a name leads to the slave that has it;    *)
(* and about the arithmetic of Forth.                                      *)
(***************************************************************************)
EXTENDS Lifecycle, SequenceTheorems, TLAPS

Entry == [who : Proc \cup {Dead}, id : Id, told : BOOLEAN]

(* Connections lead to daemons that listen, and a daemon that does not     *)
(* listen has neither connections nor slaves.                              *)
Hears == \A p \in Proc : link[p] \in Proc => phase[link[p]] = "listening"
Quiet == \A q \in Proc : phase[q] # "listening" => queue[q] = <<>> /\ table[q] = Nobody

(* What waits in the queue of q is what a slave that is still there has    *)
(* dialled and told, or what a dead one has left.                          *)
Waits(q, e) ==
  /\ e.id # ""
  /\ e.who # Dead =>
       /\ e.who \in Slave /\ link[e.who] = q /\ FlagsOf(e.who).id = e.id
       /\ phase[e.who] = IF e.told THEN "sent" ELSE "dialled"
Queued == \A q \in Proc : \A k \in 1..Len(queue[q]) : Waits(q, queue[q][k])

(* A slave that is there waits only once.                                  *)
Once ==
  \A q \in Proc : \A j, k \in 1..Len(queue[q]) :
    j < k /\ queue[q][j].who = queue[q][k].who => queue[q][j].who = Dead

(* A table names slaves that are registered here, by their ids.            *)
Tabled ==
  \A q \in Proc, i \in Id :
    LET p == table[q][i]
    IN  /\ p \in Proc => p \in Slave /\ Registered(p, q) /\ FlagsOf(p).id = i
        /\ i = "" => p = None

(* If ids differ: of one id's connections only the last can be alive, and  *)
(* none waits behind a slave that is registered.                           *)
LastAlive ==
  \A q \in Proc : \A j, k \in 1..Len(queue[q]) :
    j < k /\ queue[q][j].id = queue[q][k].id => queue[q][j].who = Dead
Found ==
  \A q \in Proc, p \in Slave : Registered(p, q) =>
    /\ table[q][FlagsOf(p).id] = p
    /\ \A k \in 1..Len(queue[q]) : queue[q][k].id # FlagsOf(p).id

IInv ==
  /\ TypeOK /\ Hears /\ Quiet /\ Queued /\ Once /\ Tabled /\ NoCircle
  /\ DistinctIds => LastAlive /\ Found
-----------------------------------------------------------------------------
(* How the daemons are started does not change, and so neither do the      *)
(* values of their flags.                                                  *)
LEMMA FlagsStay ==
  ASSUME conf' = conf
  PROVE  /\ \A p : FlagsOf(p)' = FlagsOf(p)
         /\ Id' = Id /\ Entry' = Entry /\ Nobody' = Nobody
         /\ DistinctIds' <=> DistinctIds
<1>1. \A p : FlagsOf(p)' = FlagsOf(p)
  BY DEF FlagsOf
<1>2. Id' = Id
  BY <1>1 DEF Id
<1>3. Entry' = Entry /\ Nobody' = Nobody
  BY <1>2 DEF Entry, Nobody
<1>4. DistinctIds' <=> DistinctIds
  BY <1>1 DEF DistinctIds
<1> QED BY <1>1, <1>2, <1>3, <1>4

(* A set of slaves each linked into the set needs a first link to somebody *)
(* who is in it already: breaking links makes no circle, and neither does  *)
(* a link from somebody whom no link leads to.                             *)
LEMMA BrokenLinks ==
  ASSUME NoCircle, \A p \in Slave : link'[p] = link[p] \/ link'[p] \notin Slave
  PROVE  NoCircle'
<1> SUFFICES ASSUME NEW S \in (SUBSET Slave) \ {{}}
             PROVE  \E p \in S : link'[p] \notin S
  BY DEF NoCircle
<1>1. PICK p \in S : link[p] \notin S
  BY DEF NoCircle
<1> QED BY <1>1

LEMMA NewLink ==
  ASSUME NoCircle, NEW p \in Slave, link'[p] # p,
         \A c \in Slave : link[c] # p,
         \A c \in Slave \ {p} : link'[c] = link[c]
  PROVE  NoCircle'
<1> SUFFICES ASSUME NEW S \in (SUBSET Slave) \ {{}},
                    \A c \in S : link'[c] \in S
             PROVE  FALSE
  BY DEF NoCircle
<1>1. CASE p \notin S
  BY <1>1 DEF NoCircle
<1>2. CASE p \in S
  <2> DEFINE T == S \ {p}
  <2>1. T \in (SUBSET Slave) \ {{}}
    BY <1>2
  <2>2. PICK c \in T : link[c] \notin T
    BY <2>1 DEF NoCircle
  <2> QED BY <2>2
<1> QED BY <1>1, <1>2

-----------------------------------------------------------------------------
LEMMA AtStart == Init => IInv
<1> SUFFICES ASSUME Init PROVE IInv
  OBVIOUS
<1> USE DEF Init
<1>1. \A p \in Proc : phase[p] = "down" /\ link[p] = None /\ queue[p] = <<>>
                      /\ table[p] = Nobody
  OBVIOUS
<1>2. TypeOK
  <2>1. me = [p \in Proc |-> IF phase[p] = "down" THEN NoFlags ELSE FlagsOf(p)]
    BY <1>1
  <2>2. queue \in [Proc -> Seq(Entry)]
    BY <1>1
  <2>3. table \in [Proc -> [Id -> Proc \cup {None, Dead}]]
    BY DEF Nobody
  <2> QED BY <1>1, <2>1, <2>2, <2>3 DEF TypeOK, Entry
<1>3. Hears /\ Quiet
  BY <1>1, NoDaemons DEF Hears, Quiet
<1>4. Queued /\ Once /\ LastAlive
  <2>1. \A p \in Proc : 1..Len(queue[p]) = {}
    BY <1>1
  <2> QED BY <2>1 DEF Queued, Once, LastAlive
<1>5. Tabled
  <2>1. \A p \in Proc, i \in Id : table[p][i] = None
    BY <1>1 DEF Nobody
  <2> QED BY <2>1, NoDaemons DEF Tabled
<1>6. NoCircle
  <2> SUFFICES ASSUME NEW S \in (SUBSET Slave) \ {{}} PROVE \E p \in S : link[p] \notin S
    BY DEF NoCircle
  <2>0. S # {} /\ S \subseteq Slave
    OBVIOUS
  <2>1. PICK p \in S : p \in Slave
    BY <2>0
  <2>2. link[p] = None /\ None \notin Slave
    BY <1>1, <2>1, NoDaemons DEF Slave
  <2> QED BY <2>2
<1>7. Found
  <2>1. \A q \in Proc, p \in Slave : ~ Registered(p, q)
    BY <1>1 DEF Slave, Registered
  <2> QED BY <2>1 DEF Found
<1> QED BY <1>2, <1>3, <1>4, <1>5, <1>6, <1>7 DEF IInv

LEMMA Appended ==
  ASSUME NEW S, NEW s \in Seq(S), NEW e \in S
  PROVE  /\ Append(s, e) \in Seq(S) /\ Len(s) \in Nat
         /\ Len(Append(s, e)) = Len(s) + 1
         /\ Append(s, e)[Len(s) + 1] = e
         /\ \A k \in 1..Len(s) : Append(s, e)[k] = s[k]
         /\ \A k \in 1..Len(Append(s, e)) :
              \/ k \in 1..Len(s) /\ Append(s, e)[k] = s[k]
              \/ k = Len(s) + 1 /\ Append(s, e)[k] = e
<1>1. Append(s, e) \in Seq(S) /\ Len(s) \in Nat /\ Len(Append(s, e)) = Len(s) + 1
  BY AppendProperties
<1>2. Append(s, e)[Len(s) + 1] = e /\ \A k \in 1..Len(s) : Append(s, e)[k] = s[k]
  BY <1>1
<1> DEFINE n == Len(s)
           m == Len(Append(s, e))
<1>3. n \in Nat /\ m = n + 1
  BY <1>1
<1> HIDE DEF n, m
<1>4. \A k \in 1..m : k \in 1..n \/ k = n + 1
  BY <1>3
<1> QED BY <1>1, <1>2, <1>4 DEF n, m

LEMMA Earlier ==
  ASSUME NEW n \in Nat, NEW m \in Nat, NEW j \in 1..m, NEW k \in 1..m,
         j < k, k \in 1..n \/ k = n + 1
  PROVE  j \in 1..n /\ j # n + 1
OBVIOUS

(* Facts about the queues and tables that every step below needs.          *)
LEMMA Typed ==
  ASSUME TypeOK
  PROVE  /\ phase \in [Proc -> {"down", "dialled", "sent", "up", "listening"}]
         /\ link \in [Proc -> Proc \cup {None, Cut}]
         /\ queue \in [Proc -> Seq(Entry)]
         /\ table \in [Proc -> [Id -> Proc \cup {None, Dead}]]
         /\ \A q \in Proc : Len(queue[q]) \in Nat
         /\ \A q \in Proc : \A k \in 1..Len(queue[q]) : queue[q][k] \in Entry
<1>1. queue \in [Proc -> Seq(Entry)]
  BY DEF TypeOK, Entry
<1>2. \A q \in Proc : Len(queue[q]) \in Nat
  BY <1>1
<1>3. \A q \in Proc : \A k \in 1..Len(queue[q]) : queue[q][k] \in Entry
  BY <1>1, ElementOfSeq
<1> QED BY <1>1, <1>2, <1>3 DEF TypeOK

-----------------------------------------------------------------------------
(* A daemon ends.                                                          *)
LEMMA EndKeeps ==
  ASSUME IInv, NEW p \in Proc, End(p)
  PROVE  IInv'
<1> DEFINE Gone(x) == IF x = p THEN Dead ELSE x
           children == {c \in Proc : link[c] = p}
<1>1. conf' = conf
  BY DEF End, EndCutting
<1>f. /\ \A r : FlagsOf(r)' = FlagsOf(r)
      /\ Id' = Id /\ Entry' = Entry /\ Nobody' = Nobody /\ (DistinctIds' <=> DistinctIds)
  BY <1>1, FlagsStay
<1>t. TypeOK
  BY DEF IInv
<1>t1. /\ phase \in [Proc -> {"down", "dialled", "sent", "up", "listening"}]
       /\ link \in [Proc -> Proc \cup {None, Cut}]
       /\ queue \in [Proc -> Seq(Entry)]
       /\ table \in [Proc -> [Id -> Proc \cup {None, Dead}]]
       /\ \A q \in Proc : Len(queue[q]) \in Nat
       /\ \A q \in Proc : \A k \in 1..Len(queue[q]) : queue[q][k] \in Entry
  BY <1>t, Typed
<1>2. /\ phase' = [phase EXCEPT ![p] = "down"]
      /\ me' = [me EXCEPT ![p] = NoFlags]
      /\ job' = [job EXCEPT ![p] = "none"]
      /\ link' = [c \in Proc |-> IF c = p THEN None ELSE IF c \in children THEN Cut ELSE link[c]]
  BY DEF End, EndCutting
<1>3. queue' = [q \in Proc |-> IF q = p THEN <<>>
                  ELSE [k \in DOMAIN queue[q] |-> [queue[q][k] EXCEPT !.who = Gone(@)]]]
  BY DEF End, EndCutting
<1>4. table' = [q \in Proc |-> IF q = p THEN Nobody ELSE [i \in Id |-> Gone(table[q][i])]]
  BY DEF End, EndCutting
<1>5. \A q \in Proc \ {p} : /\ Len(queue'[q]) = Len(queue[q])
                            /\ queue'[q] \in Seq(Entry)
                            /\ \A k \in 1..Len(queue[q]) :
                                 queue'[q][k] = [queue[q][k] EXCEPT !.who = Gone(@)]
  <2> TAKE q \in Proc \ {p}
  <2>1. DOMAIN queue[q] = 1..Len(queue[q])
    BY <1>t1
  <2>2. queue'[q] = [k \in 1..Len(queue[q]) |-> [queue[q][k] EXCEPT !.who = Gone(@)]]
    BY <1>3, <2>1
  <2>3. \A k \in 1..Len(queue[q]) : [queue[q][k] EXCEPT !.who = Gone(@)] \in Entry
    BY <1>t1 DEF Entry
  <2>4. queue'[q] \in Seq(Entry) /\ Len(queue'[q]) = Len(queue[q])
    BY <2>2, <2>3, <1>t1
  <2> QED BY <2>2, <2>4
<1>6. queue'[p] = <<>> /\ table'[p] = Nobody /\ phase'[p] = "down" /\ link'[p] = None
  BY <1>2, <1>3, <1>4, <1>t1
<1>7. \A q \in Proc \ {p} : \A k \in 1..Len(queue'[q]) :
        /\ k \in 1..Len(queue[q])
        /\ queue'[q][k].id = queue[q][k].id /\ queue'[q][k].told = queue[q][k].told
        /\ queue'[q][k].who = Gone(queue[q][k].who)
  <2> TAKE q \in Proc \ {p}
  <2> TAKE k \in 1..Len(queue'[q])
  <2>1. k \in 1..Len(queue[q]) /\ queue[q][k] \in Entry
    BY <1>5, <1>t1
  <2>2. queue'[q][k] = [queue[q][k] EXCEPT !.who = Gone(@)]
    BY <1>5, <2>1
  <2> QED BY <2>1, <2>2 DEF Entry
<1>8. \A q \in Proc \ {p}, i \in Id : table'[q][i] = Gone(table[q][i])
  BY <1>4
<1>9. \A c \in Proc \ {p} : /\ phase'[c] = phase[c]
                            /\ IF link[c] = p THEN link'[c] = Cut ELSE link'[c] = link[c]
  BY <1>2, <1>t1
<1>10. \A q \in Proc \ {p}, c \in Proc \ {p} : link[c] = q => link'[c] = q
  BY <1>2, <1>t1
<1>11. 1..Len(queue'[p]) = {}
  BY <1>6
<1> HIDE DEF Gone, children
<1>a. TypeOK'
  <2>1. phase' \in [Proc -> {"down", "dialled", "sent", "up", "listening"}]
    BY <1>2, <1>t1
  <2>2. me' = [c \in Proc |-> IF phase'[c] = "down" THEN NoFlags ELSE FlagsOf(c)]
    BY <1>2, <1>t1, <1>t DEF TypeOK
  <2>3. link' \in [Proc -> Proc \cup {None, Cut}]
    BY <1>2, <1>t1
  <2>4. \A c \in Proc : link'[c] = None <=> c = Master \/ phase'[c] = "down"
    BY <1>6, <1>9, <1>t, NoDaemons DEF TypeOK, children
  <2>5. queue' \in [Proc -> Seq(Entry)]
    <3>1. queue'[p] \in Seq(Entry)
      BY <1>6
    <3> QED BY <1>3, <1>5, <3>1
  <2>6. table' \in [Proc -> [Id -> Proc \cup {None, Dead}]]
    BY <1>4, <1>t1 DEF Nobody, Gone
  <2>7. job' \in [Proc -> {"none", "started", "serving", "exited"}]
    BY <1>2, <1>t DEF TypeOK
  <2>8. \A c \in Proc : phase'[c] # "down" => FlagsOf(c).ok
    BY <1>6, <1>9, <1>t DEF TypeOK
  <2> QED BY <1>1, <1>f, <1>t, <2>1, <2>2, <2>3, <2>4, <2>5, <2>6, <2>7, <2>8 DEF TypeOK, Entry
<1>b. Hears'
  BY <1>6, <1>9, <1>t1, NoDaemons DEF IInv, Hears
<1>c. Quiet'
  <2> SUFFICES ASSUME NEW q \in Proc, phase'[q] # "listening"
               PROVE  queue'[q] = <<>> /\ table'[q] = Nobody
    BY <1>f DEF Quiet
  <2>1. CASE q = p
    BY <2>1, <1>6
  <2>2. CASE q # p
    <3>1. queue[q] = <<>> /\ table[q] = Nobody
      BY <2>2, <1>9 DEF IInv, Quiet
    <3>2. queue'[q] = <<>>
      BY <3>1, <2>2, <1>5
    <3>3. table'[q] = [i \in Id |-> Gone(table[q][i])]
      BY <2>2, <1>4 DEF Gone
    <3>4. \A i \in Id : Gone(table[q][i]) = None
      BY <3>1, NoDaemons DEF Nobody, Gone
    <3> QED BY <3>2, <3>3, <3>4 DEF Nobody
  <2> QED BY <2>1, <2>2
<1>d. Queued'
  <2> SUFFICES ASSUME NEW q \in Proc, NEW k \in 1..Len(queue'[q])
               PROVE  Waits(q, queue[q][k])'
    BY DEF Queued
  <2>1. q # p
    BY <1>11
  <2>2. Waits(q, queue[q][k]) /\ queue[q][k] \in Entry
    BY <2>1, <1>7, <1>t1 DEF IInv, Queued
  <2> DEFINE w == queue[q][k].who
  <2>3. /\ queue'[q][k].id = queue[q][k].id /\ queue'[q][k].told = queue[q][k].told
        /\ queue'[q][k].who = Gone(w)
    BY <2>1, <1>7
  <2>4. CASE w = Dead \/ w = p
    BY <2>4, <2>2, <2>3 DEF Waits, Gone
  <2>5. CASE w # Dead /\ w # p
    <3>1. /\ w \in Slave /\ w \in Proc \ {p} /\ link[w] = q /\ Gone(w) = w
          /\ phase[w] = IF queue[q][k].told THEN "sent" ELSE "dialled"
      BY <2>2, <2>5 DEF Waits, Slave, Gone
    <3>2. link'[w] = q /\ phase'[w] = phase[w]
      BY <3>1, <2>1, <1>9
    <3> QED BY <3>1, <3>2, <2>2, <2>3, <2>5, <1>f DEF Waits
  <2> QED BY <2>4, <2>5
<1>e. Once'
  <2> SUFFICES ASSUME NEW q \in Proc, NEW j \in 1..Len(queue'[q]), NEW k \in 1..Len(queue'[q]),
                      j < k, queue'[q][j].who = queue'[q][k].who
               PROVE  queue'[q][j].who = Dead
    BY DEF Once
  <2>1. q # p
    BY <1>11
  <2> QED BY <2>1, <1>7 DEF IInv, Once, Gone
<1>g. Tabled'
  <2> SUFFICES ASSUME NEW q \in Proc, NEW i \in Id
               PROVE  /\ table'[q][i] \in Proc =>
                           /\ table'[q][i] \in Slave /\ Registered(table[q][i], q)'
                           /\ FlagsOf(table'[q][i]).id = i
                      /\ i = "" => table'[q][i] = None
    BY <1>f DEF Tabled
  <2>1. CASE q = p
    BY <2>1, <1>6, NoDaemons DEF Nobody
  <2>2. CASE q # p
    <3> DEFINE w == table[q][i]
    <3>1. /\ w \in Proc => w \in Slave /\ Registered(w, q) /\ FlagsOf(w).id = i
          /\ i = "" => w = None
      BY DEF IInv, Tabled
    <3>2. table'[q][i] = Gone(w)
      BY <2>2, <1>8
    <3>3. CASE w \in Proc \ {p}
      <4>1. link'[w] = link[w] /\ phase'[w] = phase[w] /\ Gone(w) = w
        BY <2>2, <3>1, <3>3, <1>9 DEF Registered, Gone
      <4> QED BY <4>1, <3>1, <3>2, <3>3 DEF Registered
    <3>4. CASE w = p
      BY <3>1, <3>2, <3>4, NoDaemons DEF Gone
    <3>5. CASE w \notin Proc
      BY <3>1, <3>2, <3>5 DEF Gone
    <3> QED BY <3>3, <3>4, <3>5
  <2> QED BY <2>1, <2>2
<1>h. NoCircle'
  <2>1. \A c \in Slave : link'[c] = link[c] \/ link'[c] \notin Slave
    BY <1>6, <1>9, NoDaemons DEF Slave
  <2> QED BY <2>1, BrokenLinks DEF IInv
<1>i. ASSUME DistinctIds PROVE LastAlive' /\ Found'
  <2>1. LastAlive'
    <3> SUFFICES ASSUME NEW q \in Proc, NEW j \in 1..Len(queue'[q]), NEW k \in 1..Len(queue'[q]),
                        j < k, queue'[q][j].id = queue'[q][k].id
                 PROVE  queue'[q][j].who = Dead
      BY DEF LastAlive
    <3>1. q # p
      BY <1>11
    <3> QED BY <3>1, <1>7, <1>i DEF IInv, LastAlive, Gone
  <2>2. Found'
    <3> SUFFICES ASSUME NEW q \in Proc, NEW c \in Slave, Registered(c, q)'
                 PROVE  /\ table'[q][FlagsOf(c).id] = c
                        /\ \A k \in 1..Len(queue'[q]) : queue'[q][k].id # FlagsOf(c).id
      BY <1>f DEF Found
    <3>1. c \in Proc \ {p} /\ q # p /\ Registered(c, q)
      BY <1>6, <1>9, NoDaemons DEF Registered, Slave
    <3>2. table[q][FlagsOf(c).id] = c /\ FlagsOf(c).id \in Id
      BY <3>1, <1>i DEF IInv, Found, Id
    <3>3. table'[q][FlagsOf(c).id] = c
      BY <3>1, <3>2, <1>8 DEF Gone
    <3>4. \A k \in 1..Len(queue'[q]) : queue'[q][k].id # FlagsOf(c).id
      BY <3>1, <1>7, <1>i DEF IInv, Found
    <3> QED BY <3>3, <3>4
  <2> QED BY <2>1, <2>2
<1> QED BY <1>a, <1>b, <1>c, <1>d, <1>e, <1>f, <1>g, <1>h, <1>i DEF IInv
-----------------------------------------------------------------------------
(* A daemon that takes up listening, or whose R process gets on.           *)
LEMMA PhaseKeeps ==
  ASSUME IInv, NEW p \in Proc, FlagsOf(p).ok,
         \/ phase[p] = "up" /\ p \in Slave
         \/ phase[p] = "down" /\ p = Master,
         phase' = [phase EXCEPT ![p] = "listening"],
         me' = [me EXCEPT ![p] = FlagsOf(p)],
         UNCHANGED <<conf, link, queue, table, job>>
  PROVE  IInv'
<1>1. conf' = conf
  OBVIOUS
<1>f. /\ \A r : FlagsOf(r)' = FlagsOf(r)
      /\ Id' = Id /\ Entry' = Entry /\ Nobody' = Nobody /\ (DistinctIds' <=> DistinctIds)
  BY <1>1, FlagsStay
<1>t. TypeOK
  BY DEF IInv
<1>t1. /\ phase \in [Proc -> {"down", "dialled", "sent", "up", "listening"}]
       /\ link \in [Proc -> Proc \cup {None, Cut}]
       /\ queue \in [Proc -> Seq(Entry)]
       /\ table \in [Proc -> [Id -> Proc \cup {None, Dead}]]
       /\ \A q \in Proc : Len(queue[q]) \in Nat
       /\ \A q \in Proc : \A k \in 1..Len(queue[q]) : queue[q][k] \in Entry
  BY <1>t, Typed
<1>2. \A c \in Proc \ {p} : phase'[c] = phase[c]
  BY <1>t1
<1>3. phase'[p] = "listening" /\ phase[p] # "listening"
  BY <1>t1
<1>a. TypeOK'
  <2>1. phase' \in [Proc -> {"down", "dialled", "sent", "up", "listening"}]
    BY <1>t1
  <2>2. me' = [c \in Proc |-> IF phase'[c] = "down" THEN NoFlags ELSE FlagsOf(c)]
    BY <1>t1, <1>t DEF TypeOK
  <2>3. \A c \in Proc : link'[c] = None <=> c = Master \/ phase'[c] = "down"
    BY <1>2, <1>3, <1>t DEF TypeOK, Slave
  <2>4. \A c \in Proc : phase'[c] # "down" => FlagsOf(c).ok
    BY <1>2, <1>3, <1>t DEF TypeOK
  <2> QED BY <1>1, <1>f, <1>t, <2>1, <2>2, <2>3, <2>4 DEF TypeOK, Entry
<1>b. Hears'
  BY <1>2, <1>3, <1>t1 DEF IInv, Hears
<1>c. Quiet'
  BY <1>2, <1>3, <1>f, <1>t1 DEF IInv, Quiet
<1>d. Queued'
  <2> SUFFICES ASSUME NEW q \in Proc, NEW k \in 1..Len(queue[q])
               PROVE  Waits(q, queue[q][k])'
    BY DEF Queued
  <2>1. Waits(q, queue[q][k])
    BY DEF IInv, Queued
  <2>2. queue[q][k].who # Dead => queue[q][k].who \in Proc \ {p}
    BY <2>1, <1>3 DEF Waits, Slave
  <2> QED BY <2>1, <2>2, <1>2, <1>f DEF Waits
<1>e. Once' /\ (LastAlive => LastAlive')
  BY DEF IInv, Once, LastAlive
<1>r. \A q \in Proc, c \in Slave : Registered(c, q)' <=> Registered(c, q)
  BY <1>2, <1>3, <1>t1 DEF Registered, Slave
<1>g. Tabled'
  <2> SUFFICES ASSUME NEW q \in Proc, NEW i \in Id
               PROVE  /\ table[q][i] \in Proc =>
                           /\ table[q][i] \in Slave /\ Registered(table[q][i], q)'
                           /\ FlagsOf(table[q][i]).id = i
                      /\ i = "" => table[q][i] = None
    BY <1>f DEF Tabled
  <2> DEFINE w == table[q][i]
  <2>1. /\ w \in Proc => w \in Slave /\ Registered(w, q) /\ FlagsOf(w).id = i
        /\ i = "" => w = None
    BY DEF IInv, Tabled
  <2>2. w \in Slave => phase'[w] = phase[w] \/ (phase'[w] = "listening" /\ phase[w] \in {"up", "down"})
    BY <1>2, <1>3 DEF Slave
  <2>3. w \in Slave /\ Registered(w, q) => link[w] = q /\ phase'[w] \in {"up", "listening"}
    BY <2>2 DEF Registered
  <2> QED BY <2>1, <2>3 DEF Registered
<1>h. NoCircle'
  BY BrokenLinks DEF IInv
<1>i. Found => Found'
  BY <1>r, <1>f DEF Found
<1> QED BY <1>a, <1>b, <1>c, <1>d, <1>e, <1>f, <1>g, <1>h, <1>i DEF IInv

LEMMA JobKeeps ==
  ASSUME IInv, UNCHANGED <<conf, phase, me, link, queue, table>>,
         job' \in [Proc -> {"none", "started", "serving", "exited"}]
  PROVE  IInv'
<1>f. /\ \A r : FlagsOf(r)' = FlagsOf(r)
      /\ Id' = Id /\ Nobody' = Nobody /\ (DistinctIds' <=> DistinctIds)
  BY FlagsStay
<1>a. TypeOK'
  BY <1>f DEF IInv, TypeOK
<1>b. Hears' /\ Quiet'
  BY <1>f DEF IInv, Hears, Quiet
<1>c. Queued' /\ Once' /\ Tabled'
  <2>1. \A q, e : Waits(q, e)' <=> Waits(q, e)
    BY <1>f DEF Waits
  <2>2. \A p, q : Registered(p, q)' <=> Registered(p, q)
    BY DEF Registered
  <2> QED BY <1>f, <2>1, <2>2 DEF IInv, Queued, Once, Tabled
<1>d. NoCircle'
  BY DEF IInv, NoCircle
<1>e. (LastAlive => LastAlive') /\ (Found => Found')
  BY <1>f DEF LastAlive, Found, Registered
<1> QED BY <1>a, <1>b, <1>c, <1>d, <1>e, <1>f DEF IInv

-----------------------------------------------------------------------------
(* A slave dials a daemon that listens: nobody is linked to the slave,     *)
(* which was down, and nothing of it waits anywhere.                       *)
LEMMA DialKeeps ==
  ASSUME IInv, NEW p \in Slave, FlagsOf(p).ok, FlagsOf(p).id # "", DialWith(p, FlagsOf(p))
  PROVE  IInv'
<1> DEFINE new == [who |-> p, id |-> FlagsOf(p).id, told |-> FALSE]
<1>0. PICK q \in Proc :
        /\ phase[q] = "listening"
        /\ link' = [link EXCEPT ![p] = q]
        /\ queue' = [queue EXCEPT ![q] = Append(@, new)]
        /\ Dialled(p, FlagsOf(p))
  BY DEF DialWith, Answers, Listens
<1>1. conf' = conf
  BY <1>0 DEF Dialled
<1>f. /\ \A r : FlagsOf(r)' = FlagsOf(r)
      /\ Id' = Id /\ Entry' = Entry /\ Nobody' = Nobody /\ (DistinctIds' <=> DistinctIds)
  BY <1>1, FlagsStay
<1>t. TypeOK
  BY DEF IInv
<1>t1. /\ phase \in [Proc -> {"down", "dialled", "sent", "up", "listening"}]
       /\ link \in [Proc -> Proc \cup {None, Cut}]
       /\ queue \in [Proc -> Seq(Entry)]
       /\ table \in [Proc -> [Id -> Proc \cup {None, Dead}]]
       /\ \A o \in Proc : Len(queue[o]) \in Nat
       /\ \A o \in Proc : \A k \in 1..Len(queue[o]) : queue[o][k] \in Entry
  BY <1>t, Typed
<1>2. /\ phase[p] = "down" /\ phase' = [phase EXCEPT ![p] = "dialled"]
      /\ me' = [me EXCEPT ![p] = FlagsOf(p)] /\ table' = table /\ job' = job
  BY <1>0 DEF Dialled
<1>3. p \in Proc /\ p # Master /\ q # p
  BY <1>0, <1>2 DEF Slave
<1>4. /\ phase'[p] = "dialled" /\ link'[p] = q
      /\ \A c \in Proc \ {p} : phase'[c] = phase[c] /\ link'[c] = link[c]
  BY <1>0, <1>2, <1>3, <1>t1
<1>5. new \in Entry
  BY <1>3 DEF Entry, Id
<1>6. /\ queue' \in [Proc -> Seq(Entry)]
      /\ queue'[q] = Append(queue[q], new)
      /\ \A r \in Proc \ {q} : queue'[r] = queue[r]
  <2>1. Append(queue[q], new) \in Seq(Entry)
    BY <1>t1, <1>5, Appended
  <2> QED BY <1>0, <1>t1, <2>1
<1> HIDE DEF new
<1>7. \A r \in Proc : \A k \in 1..Len(queue'[r]) :
        \/ k \in 1..Len(queue[r]) /\ queue'[r][k] = queue[r][k]
        \/ r = q /\ k = Len(queue[q]) + 1 /\ queue'[r][k] = new
  <2> SUFFICES ASSUME NEW r \in Proc, NEW k \in 1..Len(queue'[r])
               PROVE  \/ k \in 1..Len(queue[r]) /\ queue'[r][k] = queue[r][k]
                      \/ r = q /\ k = Len(queue[q]) + 1 /\ queue'[r][k] = new
    OBVIOUS
  <2>1. CASE r = q
    <3>1. queue[q] \in Seq(Entry) /\ k \in 1..Len(Append(queue[q], new))
      BY <2>1, <1>6, <1>t1
    <3>2. \/ k \in 1..Len(queue[q]) /\ Append(queue[q], new)[k] = queue[q][k]
          \/ k = Len(queue[q]) + 1 /\ Append(queue[q], new)[k] = new
      BY <3>1, <1>5, Appended, Zenon
    <3> QED BY <2>1, <3>2, <1>6
  <2>2. CASE r # q
    BY <2>2, <1>6
  <2> QED BY <2>1, <2>2
<1>j. \A r \in Proc : \A j, k \in 1..Len(queue'[r]) : j < k =>
        j \in 1..Len(queue[r]) /\ queue'[r][j] = queue[r][j]
  <2> SUFFICES ASSUME NEW r \in Proc, NEW j \in 1..Len(queue'[r]), NEW k \in 1..Len(queue'[r]),
                      j < k
               PROVE  j \in 1..Len(queue[r]) /\ queue'[r][j] = queue[r][j]
    OBVIOUS
  <2> DEFINE n == Len(queue[r])
             m == Len(queue'[r])
  <2>1. n \in Nat /\ m \in Nat /\ j \in 1..m /\ k \in 1..m /\ (k \in 1..n \/ k = n + 1)
    <3>1. queue'[r] \in Seq(Entry) /\ queue[r] \in Seq(Entry)
      BY <1>6, <1>t1
    <3>2. k \in 1..n \/ k = n + 1
      BY <1>7
    <3>3. n \in Nat /\ m \in Nat
      BY <3>1, LenProperties, Zenon
    <3> QED BY <3>2, <3>3
  <2>2. j # n + 1
    BY <2>1, Earlier
  <2> QED BY <2>2, <1>7
<1>8. new.who = p /\ new.id = FlagsOf(p).id /\ new.told = FALSE
  BY DEF new
<1>9. \A c \in Proc : link[c] # p
  BY <1>2, <1>3 DEF IInv, Hears
<1>10. \A r \in Proc : \A k \in 1..Len(queue[r]) : queue[r][k].who # p
  <2> SUFFICES ASSUME NEW r \in Proc, NEW k \in 1..Len(queue[r]), queue[r][k].who = p
               PROVE  FALSE
    OBVIOUS
  <2>1. Waits(r, queue[r][k])
    BY DEF IInv, Queued
  <2>2. p # Dead
    BY <1>3, NoDaemons
  <2> QED BY <2>1, <2>2, <1>2 DEF Waits
<1>a. TypeOK'
  <2>1. phase' \in [Proc -> {"down", "dialled", "sent", "up", "listening"}]
    BY <1>2, <1>t1
  <2>2. me' = [c \in Proc |-> IF phase'[c] = "down" THEN NoFlags ELSE FlagsOf(c)]
    BY <1>2, <1>t1, <1>t DEF TypeOK
  <2>3. link' \in [Proc -> Proc \cup {None, Cut}]
    BY <1>0, <1>t1
  <2>4. \A c \in Proc : link'[c] = None <=> c = Master \/ phase'[c] = "down"
    BY <1>3, <1>4, <1>t, NoDaemons DEF TypeOK
  <2>5. \A c \in Proc : phase'[c] # "down" => FlagsOf(c).ok
    BY <1>4, <1>t DEF TypeOK
  <2> QED BY <1>1, <1>2, <1>6, <1>f, <1>t, <2>1, <2>2, <2>3, <2>4, <2>5 DEF TypeOK, Entry
<1>b. Hears'
  <2> SUFFICES ASSUME NEW c \in Proc, link'[c] \in Proc PROVE phase'[link'[c]] = "listening"
    BY DEF Hears
  <2>1. CASE c = p
    BY <2>1, <1>0, <1>3, <1>4
  <2>2. CASE c # p
    <3>1. link'[c] = link[c] /\ link[c] # p
      BY <2>2, <1>4, <1>9
    <3>2. phase[link[c]] = "listening"
      BY <3>1 DEF IInv, Hears
    <3> QED BY <3>1, <3>2, <1>4
  <2> QED BY <2>1, <2>2
<1>c. Quiet'
  BY <1>0, <1>2, <1>3, <1>4, <1>6, <1>f, <1>t1 DEF IInv, Quiet
<1>d. Queued'
  <2> SUFFICES ASSUME NEW r \in Proc, NEW k \in 1..Len(queue'[r])
               PROVE  Waits(r, queue[r][k])'
    BY DEF Queued
  <2>1. CASE k \in 1..Len(queue[r]) /\ queue'[r][k] = queue[r][k]
    <3>1. Waits(r, queue[r][k]) /\ queue[r][k].who # p
      BY <2>1, <1>10 DEF IInv, Queued
    <3>2. queue[r][k].who # Dead => queue[r][k].who \in Proc \ {p}
      BY <3>1 DEF Waits, Slave
    <3> QED BY <2>1, <3>1, <3>2, <1>4, <1>f DEF Waits
  <2>2. CASE r = q /\ queue'[r][k] = new
    BY <2>2, <1>4, <1>8, <1>f DEF Waits
  <2> QED BY <2>1, <2>2, <1>7
<1>e. Once'
  <2> SUFFICES ASSUME NEW r \in Proc, NEW j \in 1..Len(queue'[r]), NEW k \in 1..Len(queue'[r]),
                      j < k, queue'[r][j].who = queue'[r][k].who
               PROVE  queue'[r][j].who = Dead
    BY DEF Once
  <2>1. j \in 1..Len(queue[r]) /\ queue'[r][j] = queue[r][j]
    BY <1>j
  <2>2. CASE k \in 1..Len(queue[r]) /\ queue'[r][k] = queue[r][k]
    BY <2>1, <2>2 DEF IInv, Once
  <2>3. CASE queue'[r][k] = new
    BY <2>1, <2>3, <1>8, <1>10
  <2> QED BY <2>2, <2>3, <1>7
<1>r. \A r \in Proc, c \in Slave : Registered(c, r)' <=> c # p /\ Registered(c, r)
  BY <1>2, <1>4 DEF Registered, Slave
<1>g. Tabled'
  <2> SUFFICES ASSUME NEW r \in Proc, NEW i \in Id
               PROVE  /\ table[r][i] \in Proc =>
                           /\ table[r][i] \in Slave /\ Registered(table[r][i], r)'
                           /\ FlagsOf(table[r][i]).id = i
                      /\ i = "" => table[r][i] = None
    BY <1>2, <1>f DEF Tabled
  <2> DEFINE w == table[r][i]
  <2>1. /\ w \in Proc => w \in Slave /\ Registered(w, r) /\ FlagsOf(w).id = i
        /\ i = "" => w = None
    BY DEF IInv, Tabled
  <2>2. w \in Proc => w # p /\ phase'[w] = phase[w] /\ link'[w] = link[w]
    BY <2>1, <1>2, <1>4 DEF Registered
  <2> QED BY <1>2, <2>1, <2>2 DEF Registered
<1>h. NoCircle'
  <2>1. link'[p] # p /\ \A c \in Slave \ {p} : link'[c] = link[c]
    BY <1>3, <1>4 DEF Slave
  <2> QED BY <2>1, <1>9, NewLink DEF IInv, Slave
<1>i. ASSUME DistinctIds PROVE LastAlive' /\ Found'
  <2>1. LastAlive'
    <3> SUFFICES ASSUME NEW r \in Proc, NEW j \in 1..Len(queue'[r]), NEW k \in 1..Len(queue'[r]),
                        j < k, queue'[r][j].id = queue'[r][k].id
                 PROVE  queue'[r][j].who = Dead
      BY DEF LastAlive
    <3>1. j \in 1..Len(queue[r]) /\ queue'[r][j] = queue[r][j]
      BY <1>j
    <3>2. CASE k \in 1..Len(queue[r]) /\ queue'[r][k] = queue[r][k]
      BY <3>1, <3>2, <1>i DEF IInv, LastAlive
    <3>3. CASE queue'[r][k] = new
      <4> SUFFICES ASSUME queue[r][j].who # Dead PROVE FALSE
        BY <3>1
      <4>1. queue[r][j].who \in Slave /\ FlagsOf(queue[r][j].who).id = queue[r][j].id
        <5>1. Waits(r, queue[r][j])
          BY <3>1 DEF IInv, Queued
        <5> QED BY <5>1 DEF Waits
      <4> QED BY <4>1, <3>1, <3>3, <1>8, <1>10, <1>i DEF DistinctIds
    <3> QED BY <3>2, <3>3, <1>7
  <2>2. Found'
    <3> SUFFICES ASSUME NEW r \in Proc, NEW c \in Slave, Registered(c, r)'
                 PROVE  /\ table'[r][FlagsOf(c).id] = c
                        /\ \A k \in 1..Len(queue'[r]) : queue'[r][k].id # FlagsOf(c).id
      BY <1>f DEF Found
    <3>1. c # p /\ Registered(c, r)
      BY <1>r
    <3>2. FlagsOf(c).id # FlagsOf(p).id
      BY <3>1, <1>i DEF DistinctIds
    <3>3. table'[r][FlagsOf(c).id] = c
      BY <3>1, <1>2, <1>i DEF IInv, Found
    <3>4. \A k \in 1..Len(queue[r]) : queue[r][k].id # FlagsOf(c).id
      BY <3>1, <1>i DEF IInv, Found
    <3> QED BY <3>2, <3>3, <3>4, <1>7, <1>8
  <2> QED BY <2>1, <2>2
<1> QED BY <1>a, <1>b, <1>c, <1>d, <1>e, <1>f, <1>g, <1>h, <1>i DEF IInv
-----------------------------------------------------------------------------
(* A slave tells its vital data to the daemon it has dialled.              *)
LEMMA SendKeeps ==
  ASSUME IInv, NEW p \in Slave, SendVital(p)
  PROVE  IInv'
<1> DEFINE q == link[p]
           Told(e) == IF e.who = p THEN [e EXCEPT !.told = TRUE] ELSE e
<1>1. conf' = conf
  BY DEF SendVital
<1>f. /\ \A r : FlagsOf(r)' = FlagsOf(r)
      /\ Id' = Id /\ Entry' = Entry /\ Nobody' = Nobody /\ (DistinctIds' <=> DistinctIds)
  BY <1>1, FlagsStay
<1>t. TypeOK
  BY DEF IInv
<1>t1. /\ phase \in [Proc -> {"down", "dialled", "sent", "up", "listening"}]
       /\ link \in [Proc -> Proc \cup {None, Cut}]
       /\ queue \in [Proc -> Seq(Entry)]
       /\ table \in [Proc -> [Id -> Proc \cup {None, Dead}]]
       /\ \A o \in Proc : Len(queue[o]) \in Nat
       /\ \A o \in Proc : \A k \in 1..Len(queue[o]) : queue[o][k] \in Entry
  BY <1>t, Typed
<1>2. /\ phase[p] = "dialled" /\ phase' = [phase EXCEPT ![p] = "sent"]
      /\ link' = link /\ table' = table /\ me' = me /\ job' = job
  BY DEF SendVital
<1>3. p \in Proc /\ p # Master /\ q \in Proc
  BY <1>2, <1>t DEF SendVital, Slave, TypeOK
<1>4. /\ phase'[p] = "sent"
      /\ \A c \in Proc \ {p} : phase'[c] = phase[c]
  BY <1>2, <1>3, <1>t1
<1>5. queue' = [queue EXCEPT ![q] = [k \in 1..Len(queue[q]) |-> Told(queue[q][k])]]
  <2>1. DOMAIN queue[q] = 1..Len(queue[q])
    BY <1>3, <1>t1
  <2> QED BY <2>1, <1>3, <1>t1 DEF SendVital
<1>6. \A e \in Entry : /\ Told(e) \in Entry /\ Told(e).id = e.id /\ Told(e).who = e.who
                       /\ Told(e).told = IF e.who = p THEN TRUE ELSE e.told
  BY DEF Entry
<1> HIDE DEF Told
<1>7. /\ queue' \in [Proc -> Seq(Entry)] /\ Len(queue'[q]) = Len(queue[q])
      /\ \A k \in 1..Len(queue[q]) : queue'[q][k] = Told(queue[q][k])
      /\ \A r \in Proc \ {q} : queue'[r] = queue[r]
  <2>1. queue'[q] = [k \in 1..Len(queue[q]) |-> Told(queue[q][k])]
    BY <1>3, <1>5, <1>t1
  <2>2. \A k \in 1..Len(queue[q]) : Told(queue[q][k]) \in Entry
    BY <1>3, <1>6, <1>t1
  <2>3. queue'[q] \in Seq(Entry) /\ Len(queue'[q]) = Len(queue[q])
    BY <2>1, <2>2, <1>3, <1>t1
  <2>4. \A r \in Proc \ {q} : queue'[r] = queue[r]
    BY <1>3, <1>5, <1>t1
  <2>5. queue' \in [Proc -> Seq(Entry)]
    <3>1. [k \in 1..Len(queue[q]) |-> Told(queue[q][k])] \in Seq(Entry)
      BY <2>1, <2>3
    <3> QED BY <1>3, <1>5, <1>t1, <3>1
  <2> QED BY <2>1, <2>3, <2>4, <2>5
<1>8. \A r \in Proc : \A k \in 1..Len(queue'[r]) :
        /\ k \in 1..Len(queue[r]) /\ queue[r][k] \in Entry
        /\ queue'[r][k].id = queue[r][k].id /\ queue'[r][k].who = queue[r][k].who
        /\ queue'[r][k].told = IF r = q /\ queue[r][k].who = p THEN TRUE ELSE queue[r][k].told
  <2> SUFFICES ASSUME NEW r \in Proc, NEW k \in 1..Len(queue'[r])
               PROVE  /\ k \in 1..Len(queue[r]) /\ queue[r][k] \in Entry
                      /\ queue'[r][k].id = queue[r][k].id /\ queue'[r][k].who = queue[r][k].who
                      /\ queue'[r][k].told = IF r = q /\ queue[r][k].who = p THEN TRUE
                                             ELSE queue[r][k].told
    OBVIOUS
  <2>1. k \in 1..Len(queue[r]) /\ queue[r][k] \in Entry
    BY <1>7, <1>t1
  <2>2. CASE r = q
    <3>1. queue'[r][k] = Told(queue[r][k])
      BY <2>1, <2>2, <1>7
    <3>2. /\ Told(queue[r][k]).id = queue[r][k].id /\ Told(queue[r][k]).who = queue[r][k].who
          /\ Told(queue[r][k]).told = IF queue[r][k].who = p THEN TRUE ELSE queue[r][k].told
      BY <2>1, <1>6
    <3> QED BY <2>1, <2>2, <3>1, <3>2
  <2>3. CASE r # q
    BY <2>1, <2>3, <1>7
  <2> QED BY <2>2, <2>3
<1> HIDE DEF q
<1>a. TypeOK'
  <2>1. phase' \in [Proc -> {"down", "dialled", "sent", "up", "listening"}]
    BY <1>2, <1>t1
  <2>2. me' = [c \in Proc |-> IF phase'[c] = "down" THEN NoFlags ELSE FlagsOf(c)]
    BY <1>2, <1>t1, <1>t DEF TypeOK
  <2>3. \A c \in Proc : link'[c] = None <=> c = Master \/ phase'[c] = "down"
    BY <1>2, <1>4, <1>t DEF TypeOK
  <2>4. \A c \in Proc : phase'[c] # "down" => FlagsOf(c).ok
    BY <1>2, <1>4, <1>t DEF TypeOK
  <2> QED BY <1>1, <1>2, <1>7, <1>f, <1>t, <2>1, <2>2, <2>3, <2>4 DEF TypeOK, Entry
<1>b. Hears'
  BY <1>2, <1>4, <1>t1 DEF IInv, Hears
<1>c. Quiet'
  <2> SUFFICES ASSUME NEW r \in Proc, phase'[r] # "listening"
               PROVE  queue'[r] = <<>> /\ table'[r] = Nobody
    BY <1>f DEF Quiet
  <2>1. r # q
    BY <1>2, <1>3, <1>4 DEF IInv, Hears, q
  <2> QED BY <2>1, <1>2, <1>4, <1>7 DEF IInv, Quiet
<1>d. Queued'
  <2> SUFFICES ASSUME NEW r \in Proc, NEW k \in 1..Len(queue'[r])
               PROVE  Waits(r, queue[r][k])'
    BY DEF Queued
  <2> DEFINE w == queue[r][k].who
  <2>1. Waits(r, queue[r][k])
    BY <1>8 DEF IInv, Queued
  <2>2. /\ queue'[r][k].id = queue[r][k].id /\ queue'[r][k].who = w
        /\ queue'[r][k].told = IF r = q /\ w = p THEN TRUE ELSE queue[r][k].told
    BY <1>8
  <2>3. CASE w = p
    BY <2>1, <2>2, <2>3, <1>2, <1>4, <1>f DEF Waits, q
  <2>4. CASE w # p
    <3>1. w # Dead => w \in Proc \ {p}
      BY <2>1, <2>4 DEF Waits, Slave
    <3> QED BY <3>1, <2>1, <2>2, <2>4, <1>2, <1>4, <1>f DEF Waits
  <2> QED BY <2>3, <2>4
<1>e. Once' /\ (LastAlive => LastAlive')
  <2>1. Once'
    <3> SUFFICES ASSUME NEW r \in Proc, NEW j \in 1..Len(queue'[r]), NEW k \in 1..Len(queue'[r]),
                        j < k, queue'[r][j].who = queue'[r][k].who
                 PROVE  queue'[r][j].who = Dead
      BY DEF Once
    <3>1. /\ j \in 1..Len(queue[r]) /\ k \in 1..Len(queue[r])
          /\ queue'[r][j].who = queue[r][j].who /\ queue'[r][k].who = queue[r][k].who
      BY <1>8
    <3> QED BY <3>1 DEF IInv, Once
  <2>2. ASSUME LastAlive PROVE LastAlive'
    <3> SUFFICES ASSUME NEW r \in Proc, NEW j \in 1..Len(queue'[r]), NEW k \in 1..Len(queue'[r]),
                        j < k, queue'[r][j].id = queue'[r][k].id
                 PROVE  queue'[r][j].who = Dead
      BY DEF LastAlive
    <3>1. /\ j \in 1..Len(queue[r]) /\ k \in 1..Len(queue[r])
          /\ queue'[r][j].who = queue[r][j].who
          /\ queue'[r][j].id = queue[r][j].id /\ queue'[r][k].id = queue[r][k].id
      BY <1>8
    <3> QED BY <3>1, <2>2 DEF LastAlive
  <2> QED BY <2>1, <2>2
<1>g. Tabled'
  <2> SUFFICES ASSUME NEW r \in Proc, NEW i \in Id
               PROVE  /\ table[r][i] \in Proc =>
                           /\ table[r][i] \in Slave /\ Registered(table[r][i], r)'
                           /\ FlagsOf(table[r][i]).id = i
                      /\ i = "" => table[r][i] = None
    BY <1>2, <1>f DEF Tabled
  <2> DEFINE w == table[r][i]
  <2>1. /\ w \in Proc => w \in Slave /\ Registered(w, r) /\ FlagsOf(w).id = i
        /\ i = "" => w = None
    BY DEF IInv, Tabled
  <2>2. w \in Proc => w # p /\ phase'[w] = phase[w] /\ link'[w] = link[w]
    BY <2>1, <1>2, <1>4 DEF Registered
  <2> QED BY <1>2, <2>1, <2>2 DEF Registered
<1>h. NoCircle'
  BY <1>2, BrokenLinks DEF IInv
<1>i. Found => Found'
  <2> SUFFICES ASSUME Found, NEW r \in Proc, NEW c \in Slave, Registered(c, r)'
               PROVE  /\ table[r][FlagsOf(c).id] = c
                      /\ \A k \in 1..Len(queue'[r]) : queue'[r][k].id # FlagsOf(c).id
    BY <1>2, <1>f DEF Found
  <2>1. Registered(c, r)
    BY <1>2, <1>4 DEF Registered, Slave
  <2>2. /\ table[r][FlagsOf(c).id] = c
        /\ \A k \in 1..Len(queue[r]) : queue[r][k].id # FlagsOf(c).id
    BY <2>1 DEF Found
  <2> QED BY <2>2, <1>8
<1> QED BY <1>a, <1>b, <1>c, <1>d, <1>e, <1>f, <1>g, <1>h, <1>i DEF IInv
-----------------------------------------------------------------------------
LEMMA TailAt ==
  ASSUME NEW S, NEW s \in Seq(S), s # <<>>
  PROVE  /\ Tail(s) \in Seq(S) /\ Head(s) = s[1] /\ 1 \in 1..Len(s)
         /\ \A k \in 1..Len(Tail(s)) : k + 1 \in 1..Len(s) /\ 1 < k + 1 /\ Tail(s)[k] = s[k + 1]
<1>1. Tail(s) \in Seq(S) /\ Len(Tail(s)) = Len(s) - 1 /\ Len(s) \in Nat \ {0} /\ Head(s) = s[1]
  OBVIOUS
<1>2. \A k \in 1..Len(Tail(s)) : Tail(s)[k] = s[k + 1]
  BY <1>1
<1> DEFINE n == Len(s)
           m == Len(Tail(s))
<1>3. m = n - 1 /\ n \in Nat \ {0}
  BY <1>1
<1> HIDE DEF n, m
<1>4. 1 \in 1..n /\ \A k \in 1..m : k + 1 \in 1..n /\ 1 < k + 1
  BY <1>3
<1> QED BY <1>1, <1>2, <1>4 DEF n, m

(* A listener takes the first connection that waits: a slave that is there *)
(* is entered under its id; otherwise a dead one's entry replaces what the *)
(* table had there, which is nothing that is alive if ids differ.          *)
LEMMA AcceptKeeps ==
  ASSUME IInv, NEW q \in Proc, Accept(q)
  PROVE  IInv'
<1> DEFINE e == Head(queue[q])
<1>1. conf' = conf
  BY DEF Accept
<1>f. /\ \A r : FlagsOf(r)' = FlagsOf(r)
      /\ Id' = Id /\ Entry' = Entry /\ Nobody' = Nobody /\ (DistinctIds' <=> DistinctIds)
  BY <1>1, FlagsStay
<1>t. TypeOK
  BY DEF IInv
<1>t1. /\ phase \in [Proc -> {"down", "dialled", "sent", "up", "listening"}]
       /\ link \in [Proc -> Proc \cup {None, Cut}]
       /\ queue \in [Proc -> Seq(Entry)]
       /\ table \in [Proc -> [Id -> Proc \cup {None, Dead}]]
       /\ \A o \in Proc : Len(queue[o]) \in Nat
       /\ \A o \in Proc : \A k \in 1..Len(queue[o]) : queue[o][k] \in Entry
  BY <1>t, Typed
<1>2. /\ phase[q] = "listening" /\ queue[q] # <<>> /\ queue' = [queue EXCEPT ![q] = Tail(@)]
      /\ me' = me /\ link' = link /\ job' = job
  BY DEF Accept
<1>3. /\ e = queue[q][1] /\ 1 \in 1..Len(queue[q]) /\ e \in Entry /\ Waits(q, e)
  <2>1. queue[q] \in Seq(Entry)
    BY <1>t1
  <2>2. e = queue[q][1] /\ 1 \in 1..Len(queue[q])
    BY <2>1, <1>2, TailAt, Zenon
  <2> QED BY <2>2, <1>t1 DEF IInv, Queued
<1>4. queue' \in [Proc -> Seq(Entry)] /\ queue'[q] = Tail(queue[q])
      /\ \A r \in Proc \ {q} : queue'[r] = queue[r]
  <2>1. Tail(queue[q]) \in Seq(Entry)
    BY <1>2, <1>t1, TailAt
  <2> QED BY <2>1, <1>2, <1>t1
<1>5. \A k \in 1..Len(queue'[q]) :
        k + 1 \in 1..Len(queue[q]) /\ 1 < k + 1 /\ queue'[q][k] = queue[q][k + 1]
  <2>1. queue[q] \in Seq(Entry) /\ queue[q] # <<>>
    BY <1>2, <1>t1
  <2>2. \A k \in 1..Len(Tail(queue[q])) :
          k + 1 \in 1..Len(queue[q]) /\ 1 < k + 1 /\ Tail(queue[q])[k] = queue[q][k + 1]
    BY <2>1, TailAt, ZenonT(60)
  <2> QED BY <2>2, <1>4
(* Nothing that is still in a queue is of the slave that is entered.       *)
<1>6. ASSUME e.who # Dead, NEW r \in Proc, NEW k \in 1..Len(queue'[r])
      PROVE  queue'[r][k].who # e.who
  <2>1. CASE r = q
    BY <2>1, <1>3, <1>5, <1>6 DEF IInv, Once
  <2>2. CASE r # q
    <3>1. queue'[r][k] = queue[r][k] /\ k \in 1..Len(queue[r])
      BY <2>2, <1>4
    <3>2. queue[r][k].who # Dead => link[queue[r][k].who] = r
      BY <3>1 DEF IInv, Queued, Waits
    <3>3. link[e.who] = q
      BY <1>3, <1>6 DEF Waits
    <3> QED BY <2>2, <3>1, <3>2, <3>3, <1>6
  <2> QED BY <2>1, <2>2
<1>7. \A r \in Proc : \A k \in 1..Len(queue'[r]) : Waits(r, queue'[r][k])
  <2> SUFFICES ASSUME NEW r \in Proc, NEW k \in 1..Len(queue'[r])
               PROVE  Waits(r, queue'[r][k])
    OBVIOUS
  <2>1. CASE r = q
    BY <2>1, <1>5 DEF IInv, Queued
  <2>2. CASE r # q
    BY <2>2, <1>4 DEF IInv, Queued
  <2> QED BY <2>1, <2>2
<1>8. /\ phase' \in [Proc -> {"down", "dialled", "sent", "up", "listening"}]
      /\ \A c \in Proc :
           \/ phase'[c] = phase[c]
           \/ c = e.who /\ e.told /\ c \in Slave /\ phase[c] = "sent" /\ phase'[c] = "up"
  <2>1. CASE phase' = phase
    BY <2>1, <1>t1
  <2>2. CASE e.told /\ phase' = [p \in Proc |-> IF p = e.who THEN "up" ELSE phase[p]]
    <3>1. e.who \in Proc => e.who \in Slave /\ phase[e.who] = "sent"
      BY <2>2, <1>3, NoDaemons DEF Waits
    <3> QED BY <2>2, <3>1, <1>t1
  <2> QED BY <2>1, <2>2 DEF Accept
<1>9. /\ table' \in [Proc -> [Id -> Proc \cup {None, Dead}]]
      /\ \/ table' = table /\ phase' = phase /\ e.who = Dead
         \/ table'[q][e.id] = e.who /\ (e.who # Dead => phase'[e.who] = "up")
      /\ \A r \in Proc, i \in Id : table'[r][i] = table[r][i] \/ (r = q /\ i = e.id)
  <2>1. CASE table' = table /\ phase' = phase /\ e.who = Dead
    BY <2>1, <1>t1
  <2>2. CASE /\ table' = [table EXCEPT ![q][e.id] = e.who]
             /\ phase' = [p \in Proc |-> IF p = e.who THEN "up" ELSE phase[p]]
    <3>1. e.id \in Id /\ e.who \in Proc \cup {Dead}
      BY <1>3 DEF Entry
    <3> QED BY <2>2, <3>1, <1>t1
  <2> QED BY <2>1, <2>2 DEF Accept
<1> HIDE DEF e
<1>a. TypeOK'
  <2>2. me' = [c \in Proc |-> IF phase'[c] = "down" THEN NoFlags ELSE FlagsOf(c)]
    BY <1>2, <1>8, <1>t DEF TypeOK
  <2>3. \A c \in Proc : link'[c] = None <=> c = Master \/ phase'[c] = "down"
    BY <1>2, <1>8, <1>t DEF TypeOK
  <2>4. \A c \in Proc : phase'[c] # "down" => FlagsOf(c).ok
    BY <1>8, <1>t DEF TypeOK
  <2>5. /\ phase' \in [Proc -> {"down", "dialled", "sent", "up", "listening"}]
        /\ table' \in [Proc -> [Id -> Proc \cup {None, Dead}]]
    BY <1>8, <1>9
  <2>6. queue' \in [Proc -> Seq(Entry)]
    BY <1>4
  <2> QED BY <1>1, <1>2, <1>f, <1>t, <2>2, <2>3, <2>4, <2>5, <2>6 DEF TypeOK, Entry
<1>b. Hears'
  BY <1>2, <1>8 DEF IInv, Hears
<1>c. Quiet'
  <2> SUFFICES ASSUME NEW r \in Proc, phase'[r] # "listening"
               PROVE  queue'[r] = <<>> /\ table'[r] = Nobody
    BY <1>f DEF Quiet
  <2>1. r # q /\ phase[r] # "listening"
    BY <1>2, <1>8
  <2>2. table'[r] = table[r]
    BY <2>1, <1>9, <1>t1
  <2> QED BY <2>1, <2>2, <1>4 DEF IInv, Quiet
<1>d. Queued'
  <2> SUFFICES ASSUME NEW r \in Proc, NEW k \in 1..Len(queue'[r])
               PROVE  Waits(r, queue[r][k])'
    BY DEF Queued
  <2> DEFINE w == queue'[r][k].who
  <2>1. Waits(r, queue'[r][k])
    BY <1>7
  <2>2. w # Dead => w \in Proc /\ w # e.who
    BY <2>1, <1>6 DEF Waits, Slave
  <2>3. w # Dead => phase'[w] = phase[w]
    BY <2>2, <1>8
  <2> QED BY <2>1, <2>3, <1>2, <1>f DEF Waits
<1>e. Once'
  <2> SUFFICES ASSUME NEW r \in Proc, NEW j \in 1..Len(queue'[r]), NEW k \in 1..Len(queue'[r]),
                      j < k, queue'[r][j].who = queue'[r][k].who
               PROVE  queue'[r][j].who = Dead
    BY DEF Once
  <2>1. CASE r = q
    <3>1. /\ j + 1 \in 1..Len(queue[q]) /\ k + 1 \in 1..Len(queue[q]) /\ j + 1 < k + 1
          /\ queue'[q][j] = queue[q][j + 1] /\ queue'[q][k] = queue[q][k + 1]
      BY <2>1, <1>5
    <3> QED BY <2>1, <3>1 DEF IInv, Once
  <2>2. CASE r # q
    BY <2>2, <1>4 DEF IInv, Once
  <2> QED BY <2>1, <2>2
<1>g. Tabled'
  <2> SUFFICES ASSUME NEW r \in Proc, NEW i \in Id
               PROVE  /\ table'[r][i] \in Proc =>
                           /\ table'[r][i] \in Slave /\ Registered(table[r][i], r)'
                           /\ FlagsOf(table'[r][i]).id = i
                      /\ i = "" => table'[r][i] = None
    BY <1>f DEF Tabled
  <2> DEFINE w == table'[r][i]
  <2>1. CASE w = table[r][i]
    <3>1. /\ w \in Proc => w \in Slave /\ Registered(w, r) /\ FlagsOf(w).id = i
          /\ i = "" => w = None
      BY <2>1 DEF IInv, Tabled
    <3>2. w \in Proc => phase'[w] = phase[w]
      BY <3>1, <1>8 DEF Registered
    <3> QED BY <3>1, <3>2, <1>2 DEF Registered
  <2>2. CASE w = e.who /\ r = q /\ i = e.id /\ (e.who # Dead => phase'[e.who] = "up")
    <3>1. i # "" /\ (w # Dead => w \in Slave /\ link[w] = q /\ FlagsOf(w).id = i)
      BY <2>2, <1>3 DEF Waits
    <3> QED BY <2>2, <3>1, <1>2, NoDaemons DEF Registered
  <2> QED BY <2>1, <2>2, <1>9
<1>h. NoCircle'
  BY <1>2, BrokenLinks DEF IInv
<1>i. ASSUME DistinctIds PROVE LastAlive' /\ Found'
  <2>1. LastAlive'
    <3> SUFFICES ASSUME NEW r \in Proc, NEW j \in 1..Len(queue'[r]), NEW k \in 1..Len(queue'[r]),
                        j < k, queue'[r][j].id = queue'[r][k].id
                 PROVE  queue'[r][j].who = Dead
      BY DEF LastAlive
    <3>1. CASE r = q
      <4>1. /\ j + 1 \in 1..Len(queue[q]) /\ k + 1 \in 1..Len(queue[q]) /\ j + 1 < k + 1
            /\ queue'[q][j] = queue[q][j + 1] /\ queue'[q][k] = queue[q][k + 1]
        BY <3>1, <1>5
      <4> QED BY <3>1, <4>1, <1>i DEF IInv, LastAlive
    <3>2. CASE r # q
      BY <3>2, <1>4, <1>i DEF IInv, LastAlive
    <3> QED BY <3>1, <3>2
  <2>2. Found'
    <3> SUFFICES ASSUME NEW r \in Proc, NEW c \in Slave, Registered(c, r)'
                 PROVE  /\ table'[r][FlagsOf(c).id] = c
                        /\ \A k \in 1..Len(queue'[r]) : queue'[r][k].id # FlagsOf(c).id
      BY <1>f DEF Found
    <3>1. FlagsOf(c).id \in Id /\ c \in Proc
      BY DEF Id, Slave
    <3>2. CASE Registered(c, r)
      <4>1. /\ table[r][FlagsOf(c).id] = c
            /\ \A k \in 1..Len(queue[r]) : queue[r][k].id # FlagsOf(c).id
        BY <3>2, <1>i DEF IInv, Found
      <4>2. ~ (r = q /\ FlagsOf(c).id = e.id)
        BY <4>1, <1>3
      <4>3. \A k \in 1..Len(queue'[r]) : queue'[r][k].id # FlagsOf(c).id
        <5>1. CASE r = q
          BY <5>1, <4>1, <1>5
        <5>2. CASE r # q
          BY <5>2, <4>1, <1>4
        <5> QED BY <5>1, <5>2
      <4> QED BY <3>1, <4>1, <4>2, <4>3, <1>9
    <3>3. CASE ~ Registered(c, r)
      <4>1. c = e.who /\ phase'[c] = "up" /\ phase[c] # "up" /\ link[c] = r
        BY <3>1, <3>3, <1>2, <1>8 DEF Registered
      <4>2. r = q /\ FlagsOf(c).id = e.id /\ c # Dead
        BY <3>1, <4>1, <1>3, NoDaemons DEF Waits
      <4>3. table'[q][e.id] = c
        BY <4>1, <4>2, <1>9
      <4>4. \A k \in 1..Len(queue'[q]) : queue'[q][k].id # e.id
        BY <4>1, <4>2, <1>3, <1>5, <1>i DEF IInv, LastAlive
      <4> QED BY <4>2, <4>3, <4>4
    <3> QED BY <3>2, <3>3
  <2> QED BY <2>1, <2>2
<1> QED BY <1>a, <1>b, <1>c, <1>d, <1>e, <1>f, <1>g, <1>h, <1>i DEF IInv

-----------------------------------------------------------------------------
LEMMA StepKeeps == IInv /\ [Next]_vars => IInv'
<1> SUFFICES ASSUME IInv, [Next]_vars PROVE IInv'
  OBVIOUS
<1>1. CASE UNCHANGED vars
  <2>1. job \in [Proc -> {"none", "started", "serving", "exited"}]
    BY DEF IInv, TypeOK
  <2> QED BY <1>1, <2>1, JobKeeps DEF vars
<1>2. CASE StartMaster
  BY <1>2, MasterAssumption, PhaseKeeps DEF StartMaster
<1>3. ASSUME NEW p \in Slave, StartSlave(p) PROVE IInv'
  BY <1>3, DialKeeps DEF StartSlave
<1>4. ASSUME NEW p \in Slave, SendVital(p) PROVE IInv'
  BY <1>4, SendKeeps
<1>5. ASSUME NEW p \in Slave, ListenForSlaves(p) PROVE IInv'
  <2>1. p \in Proc /\ FlagsOf(p).ok /\ me[p] = FlagsOf(p)
    BY <1>5 DEF Slave, IInv, TypeOK, ListenForSlaves
  <2>2. me = [me EXCEPT ![p] = FlagsOf(p)]
    BY <2>1 DEF IInv, TypeOK
  <2> QED BY <1>5, <2>1, <2>2, PhaseKeeps DEF ListenForSlaves
<1>6. ASSUME NEW p \in Slave, ListenFails(p) PROVE IInv'
  BY <1>6, EndKeeps DEF ListenFails, Slave
<1>7. ASSUME NEW p \in Slave, LosesParent(p) PROVE IInv'
  BY <1>7, EndKeeps DEF LosesParent, Slave
<1>8. ASSUME NEW p \in Proc, Dies(p) PROVE IInv'
  BY <1>8, EndKeeps DEF Dies
<1>9. ASSUME NEW p \in Slave, StartR(p) \/ ParseR(p) PROVE IInv'
  <2>1. job' \in [Proc -> {"none", "started", "serving", "exited"}]
    BY <1>9 DEF IInv, TypeOK, StartR, ParseR
  <2> QED BY <1>9, <2>1, JobKeeps DEF StartR, ParseR
<1>10. ASSUME NEW q \in Proc, Accept(q) PROVE IInv'
  BY <1>10, AcceptKeeps
<1> QED BY <1>1, <1>2, <1>3, <1>4, <1>5, <1>6, <1>7, <1>8, <1>9, <1>10 DEF Next, SlaveStep

(* The invariant: what waits in queues and what stands in tables agrees    *)
(* with who is connected to whom, in every state that can be reached.      *)
THEOREM Invariance == Spec => []IInv
<1> QED BY AtStart, StepKeeps, PTL DEF Spec

(* The variables keep their types, a slave has a connection as long as it  *)
(* runs, and a daemon's flags are those it was started with.               *)
THEOREM TypeCorrect == Spec => []TypeOK
<1>1. IInv => TypeOK
  BY DEF IInv
<1> QED BY <1>1, Invariance, PTL

(* Nobody is its own parent's parent, however daemons die, come back and   *)
(* take each other's addresses (startSlave, registerSlaves).               *)
THEOREM NeverInCircles == Spec => []NoCircle
<1>1. IInv => NoCircle
  BY DEF IInv
<1> QED BY <1>1, Invariance, PTL

LEMMA TablesFind == IInv => GetFinds
<1> SUFFICES ASSUME IInv, NEW q \in Proc, NEW n \in Id \cup {"unknown"}
             PROVE  /\ Get(q, n) \ {Dead} \subseteq Owner(q, n)
                    /\ DistinctIds => Owner(q, n) \subseteq Get(q, n)
                    /\ n \notin Id => Get(q, n) = {}
  BY DEF GetFinds
<1>1. ASSUME NEW i \in Id
      PROVE  /\ table[q][i] \in Proc => /\ table[q][i] \in Slave
                                        /\ Registered(table[q][i], q)
                                        /\ FlagsOf(table[q][i]).id = i
             /\ i = "" => table[q][i] = None
             /\ table[q][i] \in Proc \cup {None, Dead}
  <2>1. table[q][i] \in Proc \cup {None, Dead}
    BY DEF IInv, TypeOK
  <2> QED BY <2>1 DEF IInv, Tabled
<1>2. \A p \in Slave : Registered(p, q) => me[p] = FlagsOf(p)
  BY DEF IInv, TypeOK, Registered, Slave
<1>3. Get(q, n) = IF n \in Id /\ table[q][n] # None THEN {table[q][n]} ELSE {}
  BY <1>1 DEF Get, Id
<1>4. ASSUME NEW p \in Get(q, n) \ {Dead}
      PROVE  p \in Slave /\ Registered(p, q) /\ me[p].id = n
  <2>1. n \in Id /\ p = table[q][n] /\ p # None /\ p # Dead
    BY <1>3
  <2>2. p \in Proc
    BY <2>1, <1>1
  <2>3. p \in Slave /\ Registered(p, q) /\ FlagsOf(p).id = n
    BY <2>1, <2>2, <1>1
  <2> QED BY <2>3, <1>2
<1>5. ASSUME DistinctIds, NEW p \in Slave, Registered(p, q), me[p].id = n
      PROVE  p \in Get(q, n)
  <2>1. p \in Proc /\ FlagsOf(p).id = n
    BY <1>2, <1>5 DEF Slave
  <2>2. Found
    BY <1>5 DEF IInv
  <2>3. table[q][FlagsOf(p).id] = p
    BY <2>2, <1>5 DEF Found
  <2>4. n \in Id
    BY <2>1 DEF Id
  <2> QED BY <2>1, <2>3, <2>4, <1>3, NoDaemons
<1> QED BY <1>3, <1>4, <1>5 DEF Owner

(* A name leads to the slave that has it and is registered now, or to      *)
(* nobody, and to that slave for certain if ids differ (Slaves.Get).       *)
THEOREM NamesLead == Spec => []GetFinds
<1> QED BY Invariance, TablesFind, PTL
-----------------------------------------------------------------------------
(* Go's division and remainder, of numbers that are not negative.          *)
LEMMA Product ==
  ASSUME NEW b \in Nat, NEW k \in Nat
  PROVE  b * k \in Nat /\ b * (k + 1) = b * k + b /\ k * b = b * k
OBVIOUS

LEMMA ProductGrows ==
  ASSUME NEW b \in Nat, NEW k \in Nat, NEW l \in Nat, k <= l
  PROVE  b * k <= b * l
<1>1. l - k \in Nat /\ l = k + (l - k)
  OBVIOUS
<1> DEFINE d == l - k
<1>2. d \in Nat /\ b * l = b * k + b * d /\ b * d \in Nat
  <2> HIDE DEF d
  <2>1. d \in Nat /\ l = k + d
    BY <1>1 DEF d
  <2> QED BY <2>1
<1> QED BY <1>2

LEMMA Division ==
  ASSUME NEW n \in Nat, NEW b \in Nat \ {0}
  PROVE  \E r \in 0..(b - 1) : Quot(n, b) \in Nat /\ n = b * Quot(n, b) + r
<1>1. Quot(n, b) = n \div b
  <2>1. ~ (n < 0) /\ ~ (b < 0)
    OBVIOUS
  <2> QED BY <2>1 DEF Quot
<1>2. n \div b \in Nat /\ (n % b) \in 0..(b - 1) /\ n = b * (n \div b) + (n % b)
  OBVIOUS
<1> QED BY <1>1, <1>2

LEMMA OneQuotient ==
  ASSUME NEW b \in Nat \ {0}, NEW k \in Nat, NEW l \in Nat,
         NEW r \in 0..(b - 1), NEW s \in 0..(b - 1), b * k + r = b * l + s
  PROVE  k = l
<1>1. ASSUME NEW i \in Nat, NEW j \in Nat, NEW t \in 0..(b - 1), NEW u \in 0..(b - 1),
             b * i + t = b * j + u, i < j
      PROVE  FALSE
  <2>1. b * (i + 1) <= b * j /\ b * (i + 1) = b * i + b /\ b * i \in Nat /\ b * j \in Nat
    BY <1>1, ProductGrows, Product
  <2> QED BY <1>1, <2>1
<1>2. ~ (k < l) /\ ~ (l < k)
  BY <1>1
<1> QED BY <1>2

LEMMA QuotIs ==
  ASSUME NEW b \in Nat \ {0}, NEW k \in Nat, NEW r \in 0..(b - 1)
  PROVE  Quot(b * k + r, b) = k
<1>1. b * k + r \in Nat
  BY Product
<1>2. PICK s \in 0..(b - 1) :
        Quot(b * k + r, b) \in Nat /\ b * k + r = b * Quot(b * k + r, b) + s
  BY <1>1, Division
<1> QED BY <1>2, OneQuotient

(* Hosts in blocks of b: the number a host's parent is computed from is    *)
(* that of the top of its block, one and the same for all hosts of the     *)
(* block; the remainder tells the top, which is its own, from the others   *)
(* (roundup and mod in forth.go, as startkane.go uses them).               *)
THEOREM BlocksHaveTops ==
  ASSUME NEW b \in Nat \ {0}, NEW k \in Nat, NEW n \in Nat, b * k < n, n <= b * (k + 1)
  PROVE  /\ Compute("roundup", n, b) = b * (k + 1)
         /\ Compute("%", n, b) = 0 <=> n = b * (k + 1)
<1>1. Compute("roundup", n, b) = Quot(n + b - 1, b) * b
  BY DEF Compute
<1>2. Compute("%", n, b) = n - b * Quot(n, b)
  BY DEF Compute
<1>3. b * k \in Nat /\ b * (k + 1) = b * k + b /\ b * (k + 1) \in Nat
  BY Product
<1> DEFINE r == n - b * k - 1
<1>4. r \in 0..(b - 1) /\ n + b - 1 = b * (k + 1) + r /\ k + 1 \in Nat /\ 0 \in 0..(b - 1)
  BY <1>3
<1>5. Quot(n + b - 1, b) = k + 1
  <2> HIDE DEF r
  <2>1. Quot(b * (k + 1) + r, b) = k + 1
    BY <1>4, QuotIs
  <2> QED BY <1>4, <2>1
<1>6. Compute("roundup", n, b) = b * (k + 1)
  BY <1>1, <1>5, Product
<1>7. CASE n = b * (k + 1)
  <2>1. Quot(b * (k + 1) + 0, b) = k + 1
    BY <1>4, QuotIs
  <2>2. b * (k + 1) + 0 = n
    BY <1>3, <1>7
  <2>3. Quot(n, b) = k + 1
    BY <2>1, <2>2
  <2> QED BY <1>2, <1>3, <1>6, <1>7, <2>3
<1>8. CASE n # b * (k + 1)
  <2> DEFINE t == n - b * k
  <2>1. t \in 0..(b - 1) /\ t # 0 /\ n = b * k + t
    BY <1>3, <1>8
  <2>2. Quot(n, b) = k
    <3> HIDE DEF t
    <3> QED BY <2>1, QuotIs
  <2> QED BY <1>2, <1>3, <1>6, <1>8, <2>1, <2>2
<1> QED BY <1>7, <1>8
=============================================================================
