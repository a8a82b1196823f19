-------------------------- MODULE TypeApplyProofs ---------------------------
(***************************************************************************)
(* What is kept about types is right, for every set of types, however they *)
(* refer to each other, and every order of calls.                          *)
(***************************************************************************)
EXTENDS TypeApply, SequenceTheorems, WellFoundedInduction, TLAPS

-----------------------------------------------------------------------------
(* The invariant: types, the two stacks, what is known, what is taken.     *)

Typed ==
  /\ decl \in Decls /\ asked \subseteq Type
  /\ m \in [Type -> TypeInfo]
  /\ visits \in Seq(Visit) /\ calls \in Seq(Call)

(* The marked types are those on the stack, each of them once.             *)
Marked ==
  /\ \A x \in Type : m[x].visiting <=> \E i \in DOMAIN visits : visits[i].type = x
  /\ \A i, j \in DOMAIN visits : visits[i].type = visits[j].type => i = j

(* Each visit waits for the one above it, and leads to all above it.       *)
VisitsChain ==
  \A i \in DOMAIN visits :
    /\ ~ Leaf(visits[i].type)
    /\ visits[i].at \in 1..(Len(Of(visits[i].type)) + 1)
    /\ \A j \in DOMAIN visits :
         i < j => /\ More(visits[i]) /\ Part(visits[i]).public
                  /\ visits[j].type \in From(Part(visits[i]).type)
                  /\ j = i + 1 => visits[j].type = Part(visits[i]).type

(* The visits serve the call above all others.                             *)
VisitsServe ==
  visits # <<>> => calls # <<>> /\ TopCall.at = 0 /\ visits[1].type = TopCall.type

(* A type has a traverser only if it can reach the target.                 *)
Fresh ==
  /\ \A x \in Type : m[x].trav # NoTrav => m[x].reach = "yes" /\ ~ m[x].visiting
  /\ \A i \in DOMAIN visits :
       LET x == visits[i].type
       IN  /\ visits[i].at = 1 => m[x].reach = "dontKnow"
           /\ decl[x].kind = "struct" => m[x].reach # "no"

CallsChain ==
  \A i \in DOMAIN calls :
    /\ calls[i].at \in 0..(Len(Of(calls[i].type)) + 1)
    /\ \A j \in DOMAIN calls :
         i < j => /\ calls[i].at # 0 /\ More(calls[i])
                  /\ j = i + 1 => calls[j].type = Part(calls[i]).type

(* The dummy stands for the calls that are making a traverser.             *)
Dummies ==
  /\ \A i \in DOMAIN calls :
       calls[i].at # 0 => /\ calls[i].type # Target
                          /\ m[calls[i].type].trav = Dummy
  /\ \A i, j \in DOMAIN calls :
       calls[i].at # 0 /\ calls[j].at # 0 /\ calls[i].type = calls[j].type => i = j
  /\ \A x \in Type : m[x].trav = Dummy =>
       \E i \in DOMAIN calls : calls[i].at # 0 /\ calls[i].type = x

(* What can be left from without meeting the target, or a type of S.       *)
Barren(D, S) ==
  \A z \in D : /\ ~ Leaf(z)
               /\ \A i \in DOMAIN Of(z) : Of(z)[i].public => Of(z)[i].type \in D \cup S
Dead(S) == UNION {D \in SUBSET Type : Barren(D, S)}

Below(i) == {visits[k].type : k \in 1..i}

YesSound == \A x \in Type : m[x].reach = "yes" => CanHold(x)

NoSound ==
  \A x \in Type :
    m[x].reach = "no" /\ ~ m[x].visiting /\ Straight(x) => ~ CanHold(x)

(* A visit has a "no" only from all the components it is done with.        *)
NoSoFar ==
  \A i \in DOMAIN visits :
    LET x == visits[i].type
    IN  m[x].reach = "no" /\ Straight(x)
        => \A j \in DOMAIN Of(x) : j < visits[i].at => ~ CanHold(Of(x)[j].type)

(* While the answer is not "yes", what it is done with leads to the target *)
(* at most through types that are being visited.                           *)
DeadEnds ==
  \A i \in DOMAIN visits :
    LET x == visits[i].type
    IN  m[x].reach # "yes" /\ Straight(x)
        => \A j \in DOMAIN Of(x) :
             j < visits[i].at /\ Of(x)[j].public
             => Of(x)[j].type \in Dead(Below(i)) \cup Below(i)

(* Once the visit is over there are none.                                  *)
Answer ==
  calls # <<>> /\ visits = <<>> /\ TopCall.at = 0 =>
    LET x == TopCall.type
    IN  m[x].reach = "dontKnow" /\ Straight(x) => ~ CanHold(x)

Complete(x, n, takes) ==
  Straight(x) =>
    \A i \in DOMAIN Of(x) :
      i < n /\ Of(x)[i].public /\ CanHold(Of(x)[i].type)
      => \E k \in takes : k.field = i /\ k.type = Of(x)[i].type

TakesAll ==
  /\ \A x \in Type \ {Target} :
       m[x].trav \notin {NoTrav, Dummy} => Complete(x, Len(Of(x)) + 1, m[x].trav.takes)
  /\ \A i \in DOMAIN calls : Complete(calls[i].type, calls[i].at, calls[i].takes)

Settled ==
  \A x \in asked :
    \/ m[x].trav # NoTrav
    \/ m[x].reach = "no" /\ ~ m[x].visiting
    \/ calls # <<>> /\ calls[1].type = x

Stacks == Marked /\ VisitsChain /\ VisitsServe /\ Fresh
Callers == CallsChain /\ Dummies
Sound  == YesSound /\ NoSound /\ NoSoFar /\ DeadEnds /\ Answer
Inv == Typed /\ Stacks /\ Callers /\ Sound /\ TakesAll /\ Settled

-----------------------------------------------------------------------------
(* Types and what they lead to.                                            *)

LEMMA DeclIs ==
  ASSUME decl \in Decls, NEW x \in Type
  PROVE  /\ Of(x) \in Seq(Component) /\ Len(Of(x)) \in Nat
         /\ DOMAIN Of(x) = 1..Len(Of(x))
         /\ \A i \in DOMAIN Of(x) : Of(x)[i].type \in Type /\ Of(x)[i].public \in BOOLEAN
         /\ decl[x].kind \in Kind
         /\ decl[x].kind # "struct" =>
              /\ Len(Of(x)) \in 0..2
              /\ Len(Of(x)) = 2 => decl[x].kind = "map"
              /\ decl[x].kind = "map" => Len(Of(x)) = 2
              /\ \A i \in DOMAIN Of(x) : Of(x)[i].public
<1>1. /\ Of(x) \in Seq(Component) /\ decl[x].kind \in Kind
      /\ decl[x].kind # "struct" =>
           /\ Len(Of(x)) = Arity(decl[x].kind)
           /\ \A i \in DOMAIN Of(x) : Of(x)[i].public
  BY DeclsAssumption DEF Of
<1>2. /\ Len(Of(x)) \in Nat /\ DOMAIN Of(x) = 1..Len(Of(x))
      /\ \A i \in DOMAIN Of(x) : Of(x)[i] \in Component
  BY <1>1
<1>3. \A i \in DOMAIN Of(x) : Of(x)[i].type \in Type /\ Of(x)[i].public \in BOOLEAN
  BY <1>2 DEF Component
<1>4. decl[x].kind # "struct" =>
        /\ Len(Of(x)) \in 0..2
        /\ Len(Of(x)) = 2 => decl[x].kind = "map"
        /\ decl[x].kind = "map" => Len(Of(x)) = 2
  BY <1>1 DEF Kind, Arity
<1> QED BY <1>1, <1>2, <1>3, <1>4

Closed(D) ==
  \A z \in D \ {Target} : \A i \in DOMAIN Of(z) : Of(z)[i].public => Of(z)[i].type \in D

LEMMA FromIs ==
  ASSUME NEW x
  PROVE  From(x) = {y \in Type : \A D \in SUBSET Type : x \in D /\ Closed(D) => y \in D}
<1> DEFINE E == UNION {Public(z) : z \in Type \ {Target}}
<1>1. ASSUME NEW D \in SUBSET Type
      PROVE  Closed(D) <=> \A e \in E : e[1] \in D => e[2] \in D
  <2>1. ASSUME Closed(D), NEW e \in E, e[1] \in D PROVE e[2] \in D
    <3>1. PICK z \in Type \ {Target} : e \in Public(z)
      OBVIOUS
    <3>2. PICK i \in DOMAIN Of(z) : Of(z)[i].public /\ e = <<z, Of(z)[i].type>>
      BY <3>1 DEF Public
    <3> QED BY <2>1, <3>2 DEF Closed
  <2>2. ASSUME \A e \in E : e[1] \in D => e[2] \in D PROVE Closed(D)
    <3> SUFFICES ASSUME NEW z \in D \ {Target}, NEW i \in DOMAIN Of(z), Of(z)[i].public
                 PROVE  Of(z)[i].type \in D
      BY DEF Closed
    <3>1. <<z, Of(z)[i].type>> \in Public(z)
      BY DEF Public
    <3>2. <<z, Of(z)[i].type>> \in E
      BY <3>1
    <3> QED BY <3>2, <2>2
  <2> QED BY <2>1, <2>2
<1> HIDE DEF E
<1>2. From(x) = Closure({x}, E)
  BY DEF From, E
<1>3. Closure({x}, E) =
        {y \in Type : \A D \in SUBSET Type :
           {x} \subseteq D /\ (\A e \in E : e[1] \in D => e[2] \in D) => y \in D}
  BY DEF Closure
<1> QED BY <1>1, <1>2, <1>3

LEMMA Leads ==
  ASSUME decl \in Decls, NEW x \in Type
  PROVE  /\ x \in From(x) /\ From(x) \subseteq Type /\ Closed(From(x))
         /\ \A D \in SUBSET Type : x \in D /\ Closed(D) => From(x) \subseteq D
         /\ \A y \in From(x) : From(y) \subseteq From(x)
<1>1. x \in From(x) /\ From(x) \subseteq Type
  BY FromIs
<1>2. \A D \in SUBSET Type : x \in D /\ Closed(D) => From(x) \subseteq D
  BY FromIs
<1>3. Closed(From(x))
  <2> SUFFICES ASSUME NEW z \in From(x) \ {Target}, NEW i \in DOMAIN Of(z), Of(z)[i].public
               PROVE  Of(z)[i].type \in From(x)
    BY DEF Closed
  <2>1. z \in Type /\ Of(z)[i].type \in Type
    BY <1>1, DeclIs
  <2>2. ASSUME NEW D \in SUBSET Type, x \in D, Closed(D) PROVE Of(z)[i].type \in D
    <3>1. z \in D
      BY <1>2, <2>2
    <3> QED BY <3>1, <2>2 DEF Closed
  <2> QED BY <2>1, <2>2, FromIs
<1>4. \A y \in From(x) : From(y) \subseteq From(x)
  <2> SUFFICES ASSUME NEW y \in From(x), NEW w \in From(y) PROVE w \in From(x)
    OBVIOUS
  <2> QED BY <1>1, <1>3, FromIs
<1> QED BY <1>1, <1>2, <1>3, <1>4

(* What a public component leads to, its type leads to.                    *)
LEMMA PartLeads ==
  ASSUME decl \in Decls, NEW x \in Type, x # Target,
         NEW i \in DOMAIN Of(x), Of(x)[i].public
  PROVE  /\ Of(x)[i].type \in From(x) /\ Of(x)[i].type \in Type
BY Leads, DeclIs DEF Closed

LEMMA LedTo ==
  ASSUME decl \in Decls, NEW x \in Type, NEW y \in From(x)
  PROVE  /\ y \in Type
         /\ CanHold(y) => CanHold(x)
         /\ Straight(x) => Straight(y)
<1>1. y \in Type /\ From(y) \subseteq From(x)
  BY Leads
<1> QED BY <1>1 DEF CanHold, Straight

LEMMA LeafHolds ==
  ASSUME decl \in Decls, NEW x \in Type, Leaf(x)
  PROVE  CanHold(x)
BY Leads DEF CanHold

(* A type can hold no target if none of its public components can.         *)
LEMMA HoldsByPart ==
  ASSUME decl \in Decls, NEW x \in Type, ~ Leaf(x),
         \A i \in DOMAIN Of(x) : Of(x)[i].public => ~ CanHold(Of(x)[i].type)
  PROVE  ~ CanHold(x)
<1> DEFINE I == {i \in DOMAIN Of(x) : Of(x)[i].public}
           D == {x} \cup UNION {From(Of(x)[i].type) : i \in I}
<1>1. \A i \in I : Of(x)[i].type \in Type
  BY DeclIs
<1>2. D \in SUBSET Type
  BY <1>1, Leads
<1>3. Closed(D)
  <2> SUFFICES ASSUME NEW z \in D \ {Target}, NEW i \in DOMAIN Of(z), Of(z)[i].public
               PROVE  Of(z)[i].type \in D
    BY DEF Closed
  <2>1. CASE z = x
    <3>1. i \in I
      BY <2>1
    <3>2. Of(x)[i].type \in From(Of(x)[i].type)
      BY <3>1, <1>1, Leads
    <3> QED BY <3>1, <3>2, <2>1
  <2>2. CASE z # x
    <3>1. PICK k \in I : z \in From(Of(x)[k].type)
      BY <2>2
    <3>2. Of(z)[i].type \in From(Of(x)[k].type)
      BY <3>1, <1>1, Leads DEF Closed
    <3> QED BY <3>2
  <2> QED BY <2>1, <2>2
<1>4. From(x) \subseteq D
  BY <1>2, <1>3, Leads
<1>5. \A y \in D : ~ Leaf(y)
  BY DEF CanHold
<1> QED BY <1>4, <1>5 DEF CanHold

LEMMA DeadIs ==
  ASSUME NEW S
  PROVE  /\ Dead(S) \subseteq Type /\ Barren(Dead(S), S)
         /\ \A D \in SUBSET Type : Barren(D, S) => D \subseteq Dead(S)
<1>1. Dead(S) \subseteq Type
  BY DEF Dead
<1>2. Barren(Dead(S), S)
  <2> SUFFICES ASSUME NEW z \in Dead(S)
               PROVE  /\ ~ Leaf(z)
                      /\ \A i \in DOMAIN Of(z) :
                           Of(z)[i].public => Of(z)[i].type \in Dead(S) \cup S
    BY DEF Barren
  <2>1. PICK D \in SUBSET Type : Barren(D, S) /\ z \in D
    BY DEF Dead
  <2>2. D \subseteq Dead(S)
    BY <2>1 DEF Dead
  <2> QED BY <2>1, <2>2 DEF Barren
<1>3. \A D \in SUBSET Type : Barren(D, S) => D \subseteq Dead(S)
  BY DEF Dead
<1> QED BY <1>1, <1>2, <1>3

LEMMA HoldsNone ==
  ASSUME decl \in Decls, NEW x \in Type
  PROVE  /\ x \in Dead({}) => ~ CanHold(x)
         /\ ~ CanHold(x) => \A S : x \in Dead(S)
<1>1. ASSUME x \in Dead({}) PROVE ~ CanHold(x)
  <2>1. Dead({}) \in SUBSET Type /\ Barren(Dead({}), {})
    BY DeadIs
  <2>2. Closed(Dead({}))
    BY <2>1 DEF Barren, Closed
  <2>3. From(x) \subseteq Dead({})
    BY <1>1, <2>1, <2>2, Leads
  <2> QED BY <2>1, <2>3 DEF Barren, CanHold
<1>2. ASSUME ~ CanHold(x), NEW S PROVE x \in Dead(S)
  <2>1. From(x) \in SUBSET Type /\ x \in From(x) /\ Closed(From(x))
    BY Leads
  <2>2. \A y \in From(x) : ~ Leaf(y)
    BY <1>2 DEF CanHold
  <2>3. Barren(From(x), S)
    BY <2>1, <2>2 DEF Barren, Closed, Leaf
  <2> QED BY <2>1, <2>3, DeadIs
<1> QED BY <1>1, <1>2

(* A visit that is over is as dead as its components are.                  *)
LEMMA DeadBelow ==
  ASSUME decl \in Decls, NEW x \in Type, ~ Leaf(x), NEW S,
         \A i \in DOMAIN Of(x) :
           Of(x)[i].public => Of(x)[i].type \in Dead(S \cup {x}) \cup (S \cup {x})
  PROVE  x \in Dead(S)
<1> DEFINE D == Dead(S \cup {x}) \cup {x}
<1>1. D \in SUBSET Type /\ Barren(Dead(S \cup {x}), S \cup {x})
  BY DeadIs
<1>2. Barren(D, S)
  BY <1>1 DEF Barren
<1> QED BY <1>1, <1>2, DeadIs

LEMMA Fixed ==
  ASSUME decl' = decl
  PROVE  /\ \A x : Of(x)' = Of(x) /\ (Leaf(x)' <=> Leaf(x))
         /\ \A x : From(x)' = From(x) /\ (CanHold(x)' <=> CanHold(x))
         /\ \A x : Straight(x)' <=> Straight(x)
         /\ \A S : Dead(S)' = Dead(S)
         /\ \A f : Part(f)' = Part(f) /\ (More(f)' <=> More(f))
<1>1. \A x : Of(x)' = Of(x) /\ (Leaf(x)' <=> Leaf(x))
  BY DEF Of, Leaf
<1>2. \A x : Public(x)' = Public(x)
  BY <1>1 DEF Public
<1>3. \A x : From(x)' = From(x)
  <2>1. (UNION {Public(z) : z \in Type \ {Target}})' = UNION {Public(z) : z \in Type \ {Target}}
    BY <1>2
  <2> QED BY <2>1 DEF From, Closure
<1>4. \A x : CanHold(x)' <=> CanHold(x)
  BY <1>1, <1>3 DEF CanHold
<1>5. \A x : Straight(x)' <=> Straight(x)
  BY <1>1, <1>3, <1>4 DEF Straight, Misleading
<1>6. \A D, S : Barren(D, S)' <=> Barren(D, S)
  BY <1>1 DEF Barren
<1>7. \A S : Dead(S)' = Dead(S)
  BY <1>6 DEF Dead
<1>8. \A f : Part(f)' = Part(f) /\ (More(f)' <=> More(f))
  BY <1>1 DEF Part, More
<1> QED BY <1>1, <1>3, <1>4, <1>5, <1>7, <1>8

-----------------------------------------------------------------------------
(* What the steps do, entry by entry.                                      *)

Only(x, info) == m'[x] = info /\ \A y \in Type \ {x} : m'[y] = m[y]

EnterNone(x) == Known(x) /\ m' = m /\ visits' = visits
EnterLeaf(x) ==
  /\ ~ Known(x) /\ Leaf(x) /\ visits' = visits
  /\ Only(x, [reach |-> "yes", visiting |-> FALSE, trav |-> NoTrav])
EnterVisit(x) ==
  /\ ~ Known(x) /\ ~ Leaf(x)
  /\ Only(x, [reach |-> "dontKnow", visiting |-> TRUE, trav |-> NoTrav])
  /\ Len(visits') = Len(visits) + 1
  /\ visits'[Len(visits) + 1] = [type |-> x, at |-> 1]
  /\ \A i \in 1..Len(visits) : visits'[i] = visits[i]
Entered(x) ==
  /\ m' \in [Type -> TypeInfo] /\ visits' \in Seq(Visit)
  /\ EnterNone(x) \/ EnterLeaf(x) \/ EnterVisit(x)

CallBegins(x) ==
  /\ calls' \in Seq(Call) /\ Len(calls') = Len(calls) + 1
  /\ calls'[Len(calls) + 1] = [type |-> x, at |-> 0, takes |-> {}]
  /\ \A i \in 1..Len(calls) : calls'[i] = calls[i]

VisitsGoOn(n) ==
  /\ visits' \in Seq(Visit) /\ Len(visits') = n
  /\ \A i \in 1..n : visits'[i].type = visits[i].type
  /\ \A i \in 1..n : i # n => visits'[i].at = visits[i].at
  /\ n # 0 => visits'[n].at = visits[n].at + 1

Combined(f, r, answer) ==
  IF f.at = 1 /\ decl[f.type].kind # "struct" THEN answer ELSE Or(answer, r)

CallEnds ==
  LET n == Len(calls) - 1
  IN  /\ calls' \in Seq(Call) /\ Len(calls') = n
      /\ \A i \in 1..n : calls'[i].type = calls[i].type
      /\ \A i \in 1..n : i # n => calls'[i] = calls[i]
      /\ n # 0 => /\ calls'[n].at = calls[n].at + 1
                  /\ calls'[n].takes = calls[n].takes \cup TakeAt(m', calls[n].type, calls[n].at)

LEMMA CallTypes ==
  /\ \A f \in Visit : f.type \in Type /\ f.at \in Nat
  /\ \A f \in Call : f.type \in Type /\ f.at \in Nat /\ f.takes \subseteq Take
  /\ \A r \in TypeInfo : /\ r.reach \in Knowledge /\ r.visiting \in BOOLEAN
                         /\ r.trav \in Traverser /\ r.trav.takes \subseteq Take
  /\ NoTrav \in Traverser /\ Dummy \in Traverser /\ Calls \in Traverser
  /\ \A s \in SUBSET Take : Walks(s) \in Traverser
  /\ \A a, b \in Knowledge : Or(a, b) \in Knowledge
BY DEF Visit, Call, TypeInfo, Traverser, NoTrav, Dummy, Calls, Walks, Or, Knowledge

LEMMA Entering ==
  ASSUME Typed, NEW x \in Type, CanReach(x)
  PROVE  Entered(x)
<1>1. m \in [Type -> TypeInfo] /\ visits \in Seq(Visit) /\ Len(visits) \in Nat
  BY DEF Typed
<1>2. CASE Known(x)
  BY <1>1, <1>2 DEF CanReach, Entered, EnterNone
<1>3. CASE ~ Known(x) /\ Leaf(x)
  <2> DEFINE r == [reach |-> "yes", visiting |-> FALSE, trav |-> NoTrav]
  <2>1. m' = [m EXCEPT ![x] = r] /\ visits' = visits
    BY <1>3 DEF CanReach, Unknown
  <2>2. r \in TypeInfo
    BY CallTypes DEF TypeInfo, Knowledge
  <2> QED BY <1>1, <1>3, <2>1, <2>2 DEF Entered, EnterLeaf, Only
<1>4. CASE ~ Known(x) /\ ~ Leaf(x)
  <2> DEFINE r == [reach |-> "dontKnow", visiting |-> TRUE, trav |-> NoTrav]
             v == [type |-> x, at |-> 1]
  <2>1. m' = [m EXCEPT ![x] = r] /\ visits' = Append(visits, v)
    BY <1>4 DEF CanReach, Unknown
  <2>2. r \in TypeInfo /\ v \in Visit
    BY CallTypes DEF TypeInfo, Knowledge, Visit
  <2>3. m' \in [Type -> TypeInfo] /\ Only(x, r)
    BY <1>1, <2>1, <2>2 DEF Only
  <2> HIDE DEF v
  <2>4. /\ visits' \in Seq(Visit) /\ Len(visits') = Len(visits) + 1
        /\ visits'[Len(visits) + 1] = v
        /\ \A i \in 1..Len(visits) : visits'[i] = visits[i]
    BY <1>1, <2>1, <2>2
  <2> QED BY <1>4, <2>3, <2>4 DEF Entered, EnterVisit, v
<1> QED BY <1>2, <1>3, <1>4

LEMMA CallBeginning ==
  ASSUME Typed, NEW x \in Type, GetTraverserFunc(x)
  PROVE  Entered(x) /\ CallBegins(x)
<1> DEFINE c == [type |-> x, at |-> 0, takes |-> {}]
<1>1. calls \in Seq(Call) /\ c \in Call /\ calls' = Append(calls, c)
  BY DEF Typed, Call, GetTraverserFunc
<1> HIDE DEF c
<1>2. /\ calls' \in Seq(Call) /\ Len(calls') = Len(calls) + 1
      /\ calls'[Len(calls) + 1] = c
      /\ \A i \in 1..Len(calls) : calls'[i] = calls[i]
  BY <1>1
<1> QED BY <1>2, Entering DEF GetTraverserFunc, CallBegins, c

LEMMA VisitsGoing ==
  ASSUME Typed, NEW n \in 0..Len(visits), visits' = VisitsOn(n)
  PROVE  VisitsGoOn(n)
<1>1. visits \in Seq(Visit) /\ Len(visits) \in Nat
  BY DEF Typed
<1>2. \A i \in 1..n : visits[i] \in Visit /\ visits[i].type \in Type /\ visits[i].at \in Nat
  BY <1>1, CallTypes
<1>3. visits' = [i \in 1..n |-> IF i = n THEN [visits[i] EXCEPT !.at = @ + 1] ELSE visits[i]]
  BY DEF VisitsOn
<1>4. \A i \in 1..n : [visits[i] EXCEPT !.at = @ + 1] \in Visit
  BY <1>2 DEF Visit
<1> DEFINE v(i) == IF i = n THEN [visits[i] EXCEPT !.at = @ + 1] ELSE visits[i]
<1>a. \A i \in 1..n : v(i) \in Visit
  BY <1>2, <1>4
<1>b. visits' = [i \in 1..n |-> v(i)] /\ n \in Nat
  BY <1>1, <1>3
<1>5. visits' \in Seq(Visit) /\ Len(visits') = n
  <2> HIDE DEF v
  <2> QED BY <1>a, <1>b
<1>6. \A i \in 1..n : i # n => visits'[i] = visits[i]
  BY <1>3
<1>7. n # 0 => visits'[n] = [visits[n] EXCEPT !.at = @ + 1]
  BY <1>3
<1>8. n # 0 => visits'[n].type = visits[n].type /\ visits'[n].at = visits[n].at + 1
  <2> SUFFICES ASSUME n # 0 PROVE visits'[n].type = visits[n].type /\ visits'[n].at = visits[n].at + 1
    OBVIOUS
  <2>1. n \in 1..n
    BY <1>1
  <2>2. visits[n] \in Visit
    BY <1>2, <2>1
  <2> QED BY <1>7, <2>2 DEF Visit
<1> QED BY <1>5, <1>6, <1>8 DEF VisitsGoOn

LEMMA Answering ==
  ASSUME NEW n \in [Type -> TypeInfo], NEW f \in Visit, NEW answer \in Knowledge
  PROVE  LET a == Answered(n, f, answer)
         IN  /\ a \in [Type -> TypeInfo]
             /\ a[f.type].reach = Combined(f, n[f.type].reach, answer)
             /\ a[f.type].visiting = n[f.type].visiting
             /\ a[f.type].trav = n[f.type].trav
             /\ \A y \in Type \ {f.type} : a[y] = n[y]
<1> DEFINE r == Combined(f, n[f.type].reach, answer)
           a == Answered(n, f, answer)
<1>1. f.type \in Type /\ n[f.type] \in TypeInfo /\ n[f.type].reach \in Knowledge
  BY CallTypes
<1>2. r \in Knowledge
  BY <1>1, CallTypes DEF Combined
<1>3. a = [n EXCEPT ![f.type].reach = r]
  BY DEF Answered, Combined
<1> HIDE DEF r
<1>4. [n[f.type] EXCEPT !.reach = r] \in TypeInfo
  BY <1>1, <1>2 DEF TypeInfo
<1>5. a = [n EXCEPT ![f.type] = [n[f.type] EXCEPT !.reach = r]]
  BY <1>3
<1>6. /\ [n[f.type] EXCEPT !.reach = r].reach = r
      /\ [n[f.type] EXCEPT !.reach = r].visiting = n[f.type].visiting
      /\ [n[f.type] EXCEPT !.reach = r].trav = n[f.type].trav
  BY <1>1 DEF TypeInfo
<1> HIDE DEF a
<1>7. a \in [Type -> TypeInfo] /\ a[f.type] = [n[f.type] EXCEPT !.reach = r]
      /\ \A y \in Type \ {f.type} : a[y] = n[y]
  BY <1>1, <1>4, <1>5
<1> QED BY <1>6, <1>7 DEF r, a

LEMMA TakingAt ==
  ASSUME NEW n, NEW x, NEW i \in Nat, Of(x)[i].type \in Type
  PROVE  /\ TakeAt(n, x, i) \subseteq Take
         /\ n[Of(x)[i].type].trav # NoTrav =>
              \E k \in TakeAt(n, x, i) : k.field = i /\ k.type = Of(x)[i].type
<1> DEFINE c == Of(x)[i].type
           b == decl[x].kind # "struct" /\ n[c].trav = Dummy
           k == [field |-> i, type |-> c, dummy |-> b]
<1>1. b \in BOOLEAN /\ c \in Type
  OBVIOUS
<1>2. TakeAt(n, x, i) = IF n[c].trav = NoTrav THEN {} ELSE {k}
  BY Zenon DEF TakeAt
<1> HIDE DEF b, c
<1>3. k \in Take /\ k.field = i /\ k.type = c
  BY <1>1 DEF Take
<1> QED BY <1>2, <1>3 DEF c

LEMMA CallEnding ==
  ASSUME Typed, CallsChain, calls # <<>>, NEW n \in [Type -> TypeInfo], Return(n)
  PROVE  m' = n /\ CallEnds /\ decl' = decl /\ asked' = asked /\ visits' = visits
<1> DEFINE up == Len(calls) - 1
           T == TakeAt(n, calls[up].type, calls[up].at)
           c == Took(calls[up], T)
<1>1. /\ calls \in Seq(Call) /\ Len(calls) \in Nat \ {0} /\ DOMAIN calls = 1..Len(calls)
      /\ up \in Nat /\ up < Len(calls) /\ Len(calls) = up + 1
  BY DEF Typed
<1>0. calls' = [i \in 1..up |->
         IF i = up THEN Took(calls[i], TakeAt(n, calls[i].type, calls[i].at)) ELSE calls[i]]
  BY DEF Return
<1> HIDE DEF up
<1>2. \A i \in 1..up : calls[i] \in Call /\ calls[i].type \in Type /\ calls[i].at \in Nat
                       /\ calls[i].takes \subseteq Take
  BY <1>1, CallTypes
<1>3. up # 0 => T \subseteq Take
  <2> SUFFICES ASSUME up # 0 PROVE T \subseteq Take
    OBVIOUS
  <2>1. up \in DOMAIN calls /\ Len(calls) \in DOMAIN calls /\ up < Len(calls)
    BY <1>1
  <2>2. More(calls[up])
    BY <2>1 DEF CallsChain
  <2>3. calls[up].at \in Nat /\ calls[up].type \in Type
    BY <2>1, <1>1, <1>2
  <2>4. Of(calls[up].type)[calls[up].at].type \in Type
    BY <2>2, <2>3, DeclIs DEF More, Typed
  <2> QED BY <2>3, <2>4, TakingAt
<1>4. calls' = [i \in 1..up |-> IF i = up THEN c ELSE calls[i]]
  BY <1>0
<1>5. up # 0 => /\ c \in Call /\ c.type = calls[up].type /\ c.at = calls[up].at + 1
                /\ c.takes = calls[up].takes \cup T
  <2> SUFFICES ASSUME up # 0
               PROVE  /\ c \in Call /\ c.type = calls[up].type /\ c.at = calls[up].at + 1
                      /\ c.takes = calls[up].takes \cup T
    OBVIOUS
  <2> HIDE DEF T
  <2>1. up \in 1..up /\ calls[up] \in Call
    BY <1>1, <1>2
  <2> QED BY <2>1, <1>3, <1>2 DEF Call, Took
<1>6. m' = n /\ decl' = decl /\ asked' = asked /\ visits' = visits
  BY DEF Return
<1> HIDE DEF c
<1>7. calls' \in Seq(Call) /\ Len(calls') = up
  BY <1>1, <1>2, <1>4, <1>5
<1>8. \A i \in 1..up : i # up => calls'[i] = calls[i]
  BY <1>4
<1>9. up # 0 => calls'[up] = c
  BY <1>1, <1>4
<1>10. \A i \in 1..up : calls'[i].type = calls[i].type
  BY <1>5, <1>8, <1>9
<1> QED BY <1>5, <1>6, <1>7, <1>8, <1>9, <1>10 DEF CallEnds, T, up

(* The steps, in these terms.                                              *)
Rest == decl' = decl /\ asked' = asked

StepDo(x) ==
  /\ calls = <<>> /\ Entered(x) /\ CallBegins(x)
  /\ decl' = decl /\ asked' = asked \cup {x}

StepHidden ==
  /\ visits # <<>> /\ More(TopVisit) /\ ~ Part(TopVisit).public
  /\ VisitsGoOn(Len(visits)) /\ m' = m /\ calls' = calls /\ Rest

StepNew ==
  /\ visits # <<>> /\ More(TopVisit) /\ Part(TopVisit).public
  /\ Entered(Part(TopVisit).type) /\ calls' = calls /\ Rest

Change(x, reach, visiting) ==
  /\ m' \in [Type -> TypeInfo]
  /\ m'[x].reach = reach /\ m'[x].visiting = visiting /\ m'[x].trav = m[x].trav

StepKnown ==
  LET x == TopVisit.type
      c == Part(TopVisit).type
  IN  /\ visits # <<>> /\ More(TopVisit) /\ Part(TopVisit).public /\ Known(c)
      /\ VisitsGoOn(Len(visits))
      /\ Change(x, Combined(TopVisit, m[x].reach, m[c].reach), m[x].visiting)
      /\ \A y \in Type \ {x} : m'[y] = m[y]
      /\ calls' = calls /\ Rest

StepEnds ==
  LET x == TopVisit.type
      n == Len(visits) - 1
      u == visits[n]
  IN  /\ visits # <<>> /\ ~ More(TopVisit)
      /\ VisitsGoOn(n)
      /\ Change(x, m[x].reach, FALSE)
      /\ n # 0 => Change(u.type, Combined(u, m[u.type].reach, m[x].reach), m[u.type].visiting)
      /\ \A y \in Type \ {x} : n = 0 \/ y # u.type => m'[y] = m[y]
      /\ calls' = calls /\ Rest

StepReturn ==
  LET x == TopCall.type
  IN  /\ calls # <<>> /\ visits = <<>> /\ CallEnds /\ visits' = visits
      /\ \/ /\ TopCall.at = 0
            /\ m[x].trav # NoTrav \/ m[x].reach = "no"
            /\ m' = m
         \/ /\ TopCall.at = 0 /\ m[x].trav = NoTrav /\ m[x].reach = "dontKnow"
            /\ Change(x, "no", m[x].visiting)
            /\ \A y \in Type \ {x} : m'[y] = m[y]
         \/ /\ TopCall.at = 0 /\ m[x].trav = NoTrav /\ m[x].reach = "yes" /\ x = Target
            /\ m' = [m EXCEPT ![x].trav = Calls]
         \/ /\ TopCall.at # 0 /\ ~ More(TopCall)
            /\ m' = [m EXCEPT ![x].trav = Walks(TopCall.takes)]
      /\ Rest

StepPrime ==
  LET x == TopCall.type
  IN  /\ calls # <<>> /\ visits = <<>> /\ visits' = visits
      /\ TopCall.at = 0 /\ m[x].trav = NoTrav /\ m[x].reach = "yes" /\ x # Target
      /\ m' = [m EXCEPT ![x].trav = Dummy]
      /\ calls' = [calls EXCEPT ![Len(calls)].at = 1]
      /\ Rest

StepTake ==
  /\ calls # <<>> /\ visits = <<>> /\ More(TopCall)
  /\ Entered(Part(TopCall).type) /\ CallBegins(Part(TopCall).type) /\ Rest

AnyStep ==
  \/ \E x \in Type : StepDo(x)
  \/ StepHidden \/ StepNew \/ StepKnown \/ StepEnds \/ StepReturn \/ StepPrime \/ StepTake

LEMMA Tops ==
  ASSUME Typed
  PROVE  /\ Len(visits) \in Nat /\ DOMAIN visits = 1..Len(visits)
         /\ \A i \in DOMAIN visits : /\ visits[i] \in Visit /\ visits[i].type \in Type
                                     /\ visits[i].at \in Nat
         /\ visits # <<>> <=> Len(visits) # 0
         /\ visits # <<>> => Len(visits) \in DOMAIN visits
         /\ Len(calls) \in Nat /\ DOMAIN calls = 1..Len(calls)
         /\ \A i \in DOMAIN calls : /\ calls[i] \in Call /\ calls[i].type \in Type
                                    /\ calls[i].at \in Nat /\ calls[i].takes \subseteq Take
         /\ calls # <<>> <=> Len(calls) # 0
         /\ calls # <<>> => Len(calls) \in DOMAIN calls
<1>1. visits \in Seq(Visit) /\ calls \in Seq(Call)
  BY DEF Typed
<1>2. Len(visits) \in Nat /\ DOMAIN visits = 1..Len(visits)
      /\ \A i \in DOMAIN visits : visits[i] \in Visit
  BY <1>1
<1>3. Len(calls) \in Nat /\ DOMAIN calls = 1..Len(calls)
      /\ \A i \in DOMAIN calls : calls[i] \in Call
  BY <1>1
<1>4. (visits # <<>> <=> Len(visits) # 0) /\ (calls # <<>> <=> Len(calls) # 0)
  BY <1>1
<1> QED BY <1>2, <1>3, <1>4, CallTypes

LEMMA PartTyped ==
  ASSUME Typed, NEW f, f.type \in Type, More(f)
  PROVE  Part(f).type \in Type
BY DeclIs DEF Typed, More, Part

LEMMA Steps ==
  ASSUME Typed, CallsChain, Marked, Next
  PROVE  Typed' /\ AnyStep
<1>0. decl \in Decls /\ asked \subseteq Type /\ m \in [Type -> TypeInfo]
      /\ visits \in Seq(Visit) /\ calls \in Seq(Call)
  BY DEF Typed
<1>1. ASSUME NEW x \in Args, Do(x) PROVE Typed' /\ AnyStep
  <2>1. x \in Type /\ GetTraverserFunc(x) /\ calls = <<>> /\ asked' = asked \cup {x} /\ decl' = decl
    BY <1>1, TargetAssumption DEF Do, Idle
  <2>2. Entered(x) /\ CallBegins(x)
    BY <2>1, CallBeginning
  <2>3. Typed'
    BY <1>0, <2>1, <2>2 DEF Typed, Entered, CallBegins
  <2> QED BY <2>1, <2>2, <2>3 DEF StepDo, AnyStep
<1>2. CASE VisitHidden
  <2>1. visits # <<>> /\ VisitsGoOn(Len(visits))
    BY <1>2, Tops, VisitsGoing DEF VisitHidden, Visiting
  <2>2. StepHidden
    BY <1>2, <2>1 DEF VisitHidden, StepHidden, Rest
  <2> QED BY <1>0, <2>1, <2>2 DEF StepHidden, Rest, AnyStep, VisitsGoOn, Typed
<1>3. CASE VisitNew
  <2>1. visits # <<>> /\ TopVisit.type \in Type /\ More(TopVisit)
    BY <1>3, Tops DEF VisitNew, Visiting, TopVisit
  <2>2. Part(TopVisit).type \in Type
    BY <2>1, PartTyped
  <2>3. Entered(Part(TopVisit).type)
    BY <1>3, <2>2, Entering DEF VisitNew
  <2>4. StepNew
    BY <1>3, <2>1, <2>3 DEF VisitNew, StepNew, Rest
  <2> QED BY <1>0, <2>3, <2>4 DEF StepNew, Rest, AnyStep, Entered, Typed
<1>4. CASE VisitKnown
  <2> DEFINE x == TopVisit.type
             c == Part(TopVisit).type
  <2>1. visits # <<>> /\ TopVisit \in Visit /\ x \in Type /\ More(TopVisit)
    BY <1>4, Tops DEF VisitKnown, Visiting, TopVisit
  <2>2. c \in Type /\ m[c].reach \in Knowledge
    BY <1>0, <2>1, PartTyped, CallTypes
  <2>3. VisitsGoOn(Len(visits))
    BY <1>4, <2>1, Tops, VisitsGoing DEF VisitKnown
  <2>4. m' = Answered(m, TopVisit, m[c].reach)
    BY <1>4 DEF VisitKnown
  <2>5. /\ m' \in [Type -> TypeInfo]
        /\ Change(x, Combined(TopVisit, m[x].reach, m[c].reach), m[x].visiting)
        /\ \A y \in Type \ {x} : m'[y] = m[y]
    BY <1>0, <2>1, <2>2, <2>4, Answering DEF Change
  <2>6. StepKnown
    BY <1>4, <2>1, <2>3, <2>5 DEF VisitKnown, StepKnown, Rest
  <2> QED BY <1>0, <2>3, <2>5, <2>6 DEF StepKnown, Rest, AnyStep, VisitsGoOn, Typed
<1>5. CASE VisitEnds
  <2> DEFINE x == TopVisit.type
             n == Len(visits) - 1
             u == visits[n]
             w == Visited(x)
  <2>1. /\ visits # <<>> /\ TopVisit \in Visit /\ x \in Type /\ ~ More(TopVisit)
        /\ n \in Nat /\ n \in 0..Len(visits)
        /\ n # 0 => u \in Visit /\ u.type \in Type
    BY <1>5, Tops DEF VisitEnds, Visiting, TopVisit
  <2>2. /\ m' = IF n = 0 THEN w ELSE Answered(w, u, w[x].reach)
        /\ visits' = VisitsOn(n)
        /\ decl' = decl /\ asked' = asked /\ calls' = calls
    BY <1>5 DEF VisitEnds
  <2>3. VisitsGoOn(n)
    BY <2>1, <2>2, VisitsGoing
  <2>4. /\ w \in [Type -> TypeInfo] /\ w[x].reach = m[x].reach /\ w[x].visiting = FALSE
        /\ w[x].trav = m[x].trav
        /\ \A y \in Type \ {x} : w[y] = m[y]
    <3>1. m[x] \in TypeInfo /\ w = [m EXCEPT ![x].visiting = FALSE]
      BY <1>0, <2>1 DEF Visited
    <3>2. /\ [m[x] EXCEPT !.visiting = FALSE] \in TypeInfo
          /\ [m[x] EXCEPT !.visiting = FALSE].reach = m[x].reach
          /\ [m[x] EXCEPT !.visiting = FALSE].trav = m[x].trav
          /\ [m[x] EXCEPT !.visiting = FALSE].visiting = FALSE
      BY <3>1 DEF TypeInfo
    <3>3. w = [m EXCEPT ![x] = [m[x] EXCEPT !.visiting = FALSE]]
      BY <3>1
    <3> HIDE DEF w
    <3> QED BY <1>0, <2>1, <3>2, <3>3
  <2> HIDE DEF w, x, u
  <2>5. w[x].reach \in Knowledge
    BY <2>1, <2>4, CallTypes
  <2>6. CASE n = 0
    <3>1. m' = w
      BY <2>2, <2>6
    <3>2. m' \in [Type -> TypeInfo] /\ Change(x, m[x].reach, FALSE)
          /\ \A y \in Type \ {x} : m'[y] = m[y]
      BY <3>1, <2>4 DEF Change
    <3>3. StepEnds
      BY <2>1, <2>2, <2>3, <2>6, <3>2 DEF StepEnds, Rest, x, u
    <3> QED BY <1>0, <2>2, <2>3, <3>2, <3>3 DEF AnyStep, VisitsGoOn, Typed
  <2>7. CASE n # 0
    <3>1. m' = Answered(w, u, w[x].reach)
      BY <2>2, <2>7
    <3>2. /\ m' \in [Type -> TypeInfo]
          /\ m'[u.type].reach = Combined(u, w[u.type].reach, w[x].reach)
          /\ m'[u.type].visiting = w[u.type].visiting
          /\ m'[u.type].trav = w[u.type].trav
          /\ \A y \in Type \ {u.type} : m'[y] = w[y]
      BY <3>1, <2>1, <2>4, <2>5, <2>7, Answering
    <3>3. u.type # x
      <4>1. n \in DOMAIN visits /\ Len(visits) \in DOMAIN visits /\ n # Len(visits)
        <5>1. DOMAIN visits = 1..Len(visits) /\ Len(visits) \in Nat /\ Len(visits) # 0
          BY <2>1, Tops
        <5>2. n # 0
          BY <2>7
        <5>3. \A l \in Nat : l # 0 /\ l - 1 # 0 => l - 1 \in 1..l /\ l - 1 # l /\ l \in 1..l
          OBVIOUS
        <5> QED BY <5>1, <5>2, <5>3, Zenon
      <4> QED BY <4>1 DEF Marked, x, u, TopVisit
    <3>4. /\ Change(x, m[x].reach, FALSE)
          /\ Change(u.type, Combined(u, m[u.type].reach, m[x].reach), m[u.type].visiting)
          /\ \A y \in Type \ {x} : y # u.type => m'[y] = m[y]
      <4>1. w[u.type] = m[u.type] /\ m'[x] = w[x]
        BY <2>1, <2>4, <2>7, <3>2, <3>3
      <4> QED BY <2>1, <2>4, <3>2, <3>3, <4>1 DEF Change
    <3>5. StepEnds
      BY <2>1, <2>2, <2>3, <2>7, <3>4 DEF StepEnds, Rest, x, u
    <3> QED BY <1>0, <2>2, <2>3, <3>2, <3>5 DEF AnyStep, VisitsGoOn, Typed
  <2> QED BY <2>6, <2>7
<1>6. ASSUME Asking, NEW n \in [Type -> TypeInfo], Return(n)
      PROVE  /\ calls # <<>> /\ visits = <<>> /\ m' = n /\ CallEnds /\ visits' = visits /\ Rest
             /\ Typed'
  <2>1. calls # <<>> /\ visits = <<>>
    BY <1>6 DEF Asking, Visiting
  <2>2. m' = n /\ CallEnds /\ decl' = decl /\ asked' = asked /\ visits' = visits
    BY <1>6, <2>1, CallEnding
  <2> QED BY <1>0, <2>1, <2>2 DEF CallEnds, Rest, Typed
<1>7. Asking => calls # <<>> /\ visits = <<>> /\ TopCall.type \in Type /\ TopCall \in Call
                /\ m[TopCall.type] \in TypeInfo
  BY <1>0, Tops DEF Asking, Visiting, TopCall
<1>8. CASE FuncKnown
  <2>1. Asking /\ Return(m)
    BY <1>8 DEF FuncKnown
  <2> QED BY <1>0, <1>6, <1>8, <2>1 DEF FuncKnown, StepReturn, AnyStep
<1>9. CASE NoInstance
  <2> DEFINE x == TopCall.type
             n == [m EXCEPT ![x].reach = "no"]
  <2>1. Asking /\ Return(n) /\ x \in Type /\ m[x] \in TypeInfo
    BY <1>7, <1>9 DEF NoInstance, Found
  <2>2. /\ [m[x] EXCEPT !.reach = "no"] \in TypeInfo
        /\ [m[x] EXCEPT !.reach = "no"].reach = "no"
        /\ [m[x] EXCEPT !.reach = "no"].visiting = m[x].visiting
        /\ [m[x] EXCEPT !.reach = "no"].trav = m[x].trav
    BY <2>1 DEF TypeInfo, Knowledge
  <2>3. n = [m EXCEPT ![x] = [m[x] EXCEPT !.reach = "no"]]
    OBVIOUS
  <2> HIDE DEF n, x
  <2>4. n \in [Type -> TypeInfo] /\ n[x] = [m[x] EXCEPT !.reach = "no"]
        /\ \A y \in Type \ {x} : n[y] = m[y]
    BY <1>0, <2>1, <2>2, <2>3
  <2>5. m' = n /\ CallEnds /\ visits' = visits /\ Rest /\ calls # <<>> /\ visits = <<>> /\ Typed'
    BY <1>6, <2>1, <2>4
  <2>6. Change(x, "no", m[x].visiting)
    BY <2>2, <2>4, <2>5 DEF Change
  <2>7. TopCall.at = 0 /\ m[x].trav = NoTrav /\ m[x].reach = "dontKnow"
    BY <1>9 DEF NoInstance, Found, x
  <2>8. StepReturn
    BY <2>4, <2>5, <2>6, <2>7 DEF StepReturn, x
  <2> QED BY <2>5, <2>8 DEF AnyStep
<1>10. ASSUME Asking, NEW t \in Traverser, Return([m EXCEPT ![TopCall.type].trav = t])
       PROVE  /\ m' = [m EXCEPT ![TopCall.type].trav = t]
              /\ CallEnds /\ visits' = visits /\ Rest /\ calls # <<>> /\ visits = <<>> /\ Typed'
  <2> DEFINE x == TopCall.type
             n == [m EXCEPT ![x].trav = t]
  <2>1. x \in Type /\ m[x] \in TypeInfo
    BY <1>7, <1>10
  <2>2. [m[x] EXCEPT !.trav = t] \in TypeInfo /\ n = [m EXCEPT ![x] = [m[x] EXCEPT !.trav = t]]
    BY <1>10, <2>1 DEF TypeInfo
  <2> HIDE DEF x
  <2>3. n \in [Type -> TypeInfo]
    BY <1>0, <2>1, <2>2
  <2>4. Return(n)
    BY <1>10 DEF x
  <2> HIDE DEF n
  <2>5. m' = n /\ CallEnds /\ visits' = visits /\ Rest /\ calls # <<>> /\ visits = <<>> /\ Typed'
    BY <1>6, <1>10, <2>3, <2>4
  <2> QED BY <2>5 DEF n, x
<1>11. CASE Instance
  <2>1. Asking /\ Return([m EXCEPT ![TopCall.type].trav = Calls]) /\ Calls \in Traverser
    BY <1>11, CallTypes DEF Instance, Found
  <2>2. TopCall.at = 0 /\ m[TopCall.type].trav = NoTrav /\ m[TopCall.type].reach = "yes"
        /\ TopCall.type = Target
    BY <1>11 DEF Instance, Found
  <2>3. m' = [m EXCEPT ![TopCall.type].trav = Calls]
        /\ CallEnds /\ visits' = visits /\ Rest /\ calls # <<>> /\ visits = <<>> /\ Typed'
    BY <1>10, <2>1
  <2> QED BY <2>2, <2>3 DEF StepReturn, AnyStep
<1>12. CASE FuncMade
  <2>1. Asking /\ Return([m EXCEPT ![TopCall.type].trav = Walks(TopCall.takes)])
        /\ TopCall.at # 0 /\ ~ More(TopCall)
    BY <1>12 DEF FuncMade
  <2>2. Walks(TopCall.takes) \in Traverser
    BY <1>7, <2>1, CallTypes
  <2>3. m' = [m EXCEPT ![TopCall.type].trav = Walks(TopCall.takes)]
        /\ CallEnds /\ visits' = visits /\ Rest /\ calls # <<>> /\ visits = <<>> /\ Typed'
    BY <1>10, <2>1, <2>2
  <2> QED BY <2>1, <2>3 DEF StepReturn, AnyStep
<1>13. CASE Prime
  <2> DEFINE x == TopCall.type
             l == Len(calls)
             c == [calls[l] EXCEPT !.at = 1]
  <2>1. Asking /\ m[x].trav = NoTrav /\ m[x].reach = "yes" /\ TopCall.at = 0
    BY <1>13 DEF Prime, Found
  <2>2. /\ x # Target /\ m' = [m EXCEPT ![x].trav = Dummy]
        /\ calls' = [calls EXCEPT ![l].at = 1]
        /\ decl' = decl /\ asked' = asked /\ visits' = visits
    BY <1>13 DEF Prime
  <2>3. StepPrime
    BY <1>7, <2>1, <2>2 DEF StepPrime, Rest
  <2>4. [m[x] EXCEPT !.trav = Dummy] \in TypeInfo
        /\ m' = [m EXCEPT ![x] = [m[x] EXCEPT !.trav = Dummy]] /\ x \in Type
    BY <1>7, <2>1, <2>2, CallTypes DEF TypeInfo
  <2>5. l \in DOMAIN calls /\ calls[l] \in Call /\ DOMAIN calls = 1..l /\ l \in Nat
    BY <1>7, <2>1, Tops
  <2>6. c \in Call /\ calls' = [calls EXCEPT ![l] = c]
    BY <2>2, <2>5 DEF Call
  <2> HIDE DEF c, x, l
  <2>7. m' \in [Type -> TypeInfo]
    BY <1>0, <2>4
  <2>8. calls' \in Seq(Call)
    BY <1>0, <2>5, <2>6
  <2> QED BY <1>0, <2>2, <2>3, <2>7, <2>8 DEF Typed, AnyStep
<1>14. CASE TakePart
  <2>1. Asking /\ More(TopCall) /\ GetTraverserFunc(Part(TopCall).type)
        /\ decl' = decl /\ asked' = asked
    BY <1>14 DEF TakePart
  <2>2. Part(TopCall).type \in Type
    BY <1>7, <2>1, PartTyped
  <2>3. Entered(Part(TopCall).type) /\ CallBegins(Part(TopCall).type)
    BY <2>1, <2>2, CallBeginning
  <2>4. StepTake
    BY <1>7, <2>1, <2>3 DEF StepTake, Rest
  <2> QED BY <1>0, <2>1, <2>3, <2>4 DEF Typed, AnyStep, Entered, CallBegins
<1> QED BY <1>1, <1>2, <1>3, <1>4, <1>5, <1>8, <1>9, <1>11, <1>12, <1>13, <1>14 DEF Next

LEMMA TravSet ==
  ASSUME Typed, NEW x \in Type, NEW t, m' = [m EXCEPT ![x].trav = t]
  PROVE  /\ m'[x].reach = m[x].reach /\ m'[x].visiting = m[x].visiting /\ m'[x].trav = t
         /\ \A y \in Type \ {x} : m'[y] = m[y]
<1>1. m \in [Type -> TypeInfo] /\ m[x] \in TypeInfo
  BY DEF Typed
<1>2. m' = [m EXCEPT ![x] = [m[x] EXCEPT !.trav = t]]
  OBVIOUS
<1>3. m'[x] = [m[x] EXCEPT !.trav = t] /\ \A y \in Type \ {x} : m'[y] = m[y]
  BY <1>1, <1>2
<1>4. /\ [m[x] EXCEPT !.trav = t].reach = m[x].reach
      /\ [m[x] EXCEPT !.trav = t].visiting = m[x].visiting
      /\ [m[x] EXCEPT !.trav = t].trav = t
  BY <1>1 DEF TypeInfo
<1> QED BY <1>3, <1>4

(* A step of getTraverserFunc that begins no call leaves the visits alone. *)
LEMMA Quiet ==
  ASSUME Typed, StepReturn \/ StepPrime
  PROVE  /\ calls # <<>> /\ visits = <<>> /\ visits' = visits /\ Rest /\ TopCall.type \in Type
         /\ \A y \in Type :
              /\ m'[y].visiting = m[y].visiting
              /\ \/ m'[y].reach = m[y].reach
                 \/ /\ y = TopCall.type /\ TopCall.at = 0
                    /\ m[y].reach = "dontKnow" /\ m'[y].reach = "no"
              /\ y # TopCall.type => m'[y].trav = m[y].trav
<1>1. calls # <<>> /\ visits = <<>> /\ visits' = visits /\ Rest
  BY DEF StepReturn, StepPrime
<1>2. TopCall.type \in Type
  BY <1>1, Tops DEF TopCall
<1>3. ASSUME NEW t, m' = [m EXCEPT ![TopCall.type].trav = t], NEW y \in Type
      PROVE  /\ m'[y].visiting = m[y].visiting
             /\ m'[y].reach = m[y].reach
             /\ y # TopCall.type => m'[y].trav = m[y].trav
  BY <1>2, <1>3, TravSet
<1>4. CASE StepPrime
  <2>1. m' = [m EXCEPT ![TopCall.type].trav = Dummy]
    BY <1>4 DEF StepPrime
  <2> QED BY <1>1, <1>2, <1>3, <2>1
<1>5. CASE StepReturn
  <2>1. CASE m' = m
    BY <1>1, <1>2, <2>1
  <2>2. CASE /\ TopCall.at = 0 /\ m[TopCall.type].reach = "dontKnow"
             /\ Change(TopCall.type, "no", m[TopCall.type].visiting)
             /\ \A y \in Type \ {TopCall.type} : m'[y] = m[y]
    BY <1>1, <1>2, <2>2 DEF Change
  <2>3. CASE m' = [m EXCEPT ![TopCall.type].trav = Calls]
    BY <1>1, <1>2, <1>3, <2>3
  <2>4. CASE m' = [m EXCEPT ![TopCall.type].trav = Walks(TopCall.takes)]
    BY <1>1, <1>2, <1>3, <2>4
  <2> QED BY <1>5, <2>1, <2>2, <2>3, <2>4 DEF StepReturn
<1> QED BY <1>4, <1>5

-----------------------------------------------------------------------------
(* The visits.                                                             *)

LEMMA EnteredMarks ==
  ASSUME Typed, Marked, NEW x \in Type, Entered(x)
  PROVE  Marked'
<1>1. /\ visits \in Seq(Visit) /\ Len(visits) \in Nat /\ DOMAIN visits = 1..Len(visits)
      /\ visits' \in Seq(Visit) /\ Len(visits') \in Nat /\ DOMAIN visits' = 1..Len(visits')
  BY DEF Typed, Entered
<1>2. CASE EnterNone(x)
  BY <1>2 DEF EnterNone, Marked
<1>3. CASE EnterLeaf(x)
  <2>1. ~ m[x].visiting /\ visits' = visits /\ m'[x].visiting = FALSE
        /\ \A y \in Type \ {x} : m'[y] = m[y]
    BY <1>3 DEF EnterLeaf, Known, Only
  <2> QED BY <2>1 DEF Marked
<1>4. CASE EnterVisit(x)
  <2> DEFINE n == Len(visits)
  <2>1. ~ m[x].visiting /\ m'[x].visiting = TRUE /\ \A y \in Type \ {x} : m'[y] = m[y]
    BY <1>4 DEF EnterVisit, Known, Only
  <2>2. Len(visits') = n + 1 /\ visits'[n + 1].type = x /\ \A i \in 1..n : visits'[i] = visits[i]
    BY <1>4 DEF EnterVisit
  <2> HIDE DEF n
  <2>3. n \in Nat /\ DOMAIN visits = 1..n /\ DOMAIN visits' = 1..(n + 1)
    BY <1>1, <2>2 DEF n
  <2>4. \A i \in 1..(n + 1) : i \in 1..n \/ i = n + 1
    BY <2>3
  <2>5. n + 1 \in 1..(n + 1) /\ \A i \in 1..n : i \in 1..(n + 1)
    BY <2>3
  <2>6. \A i \in DOMAIN visits : visits[i].type # x
    BY <2>1 DEF Marked
  <2>7. ASSUME NEW y \in Type
        PROVE  m'[y].visiting <=> \E i \in DOMAIN visits' : visits'[i].type = y
    <3>1. CASE y = x
      BY <2>1, <2>2, <2>3, <2>5, <3>1
    <3>2. CASE y # x
      BY <2>1, <2>2, <2>3, <2>4, <2>5, <3>2 DEF Marked
    <3> QED BY <3>1, <3>2
  <2>8. \A i, j \in DOMAIN visits' : visits'[i].type = visits'[j].type => i = j
    BY <2>2, <2>3, <2>4, <2>6 DEF Marked
  <2> QED BY <2>7, <2>8 DEF Marked
<1> QED BY <1>2, <1>3, <1>4 DEF Entered

LEMMA MarkedStep ==
  ASSUME Typed, Typed', Marked, AnyStep
  PROVE  Marked'
<1>0. /\ visits \in Seq(Visit) /\ Len(visits) \in Nat /\ DOMAIN visits = 1..Len(visits)
      /\ visits' \in Seq(Visit) /\ Len(visits') \in Nat /\ DOMAIN visits' = 1..Len(visits')
  BY DEF Typed
<1>1. CASE \E x \in Type : StepDo(x)
  BY <1>1, EnteredMarks DEF StepDo
<1>2. CASE StepHidden
  BY <1>0, <1>2 DEF StepHidden, VisitsGoOn, Marked
<1>3. CASE StepNew
  <2>1. TopVisit.type \in Type
    BY <1>3, Tops DEF StepNew, TopVisit
  <2> QED BY <1>3, <2>1, EnteredMarks, PartTyped DEF StepNew
<1>4. CASE StepKnown
  <2>1. \A y \in Type : m'[y].visiting = m[y].visiting
    BY <1>4 DEF StepKnown, Change
  <2>2. VisitsGoOn(Len(visits))
    BY <1>4 DEF StepKnown
  <2>3. DOMAIN visits' = DOMAIN visits /\ \A i \in DOMAIN visits : visits'[i].type = visits[i].type
    BY <1>0, <2>2 DEF VisitsGoOn
  <2> QED BY <2>1, <2>3 DEF Marked
<1>5. CASE StepEnds
  <2> DEFINE x == TopVisit.type
             n == Len(visits) - 1
  <2>1. visits # <<>> /\ VisitsGoOn(n) /\ m'[x].visiting = FALSE
    BY <1>5 DEF StepEnds, Change
  <2>2. \A y \in Type \ {x} : m'[y].visiting = m[y].visiting
    BY <1>5 DEF StepEnds, Change
  <2>3. n \in Nat /\ Len(visits) = n + 1 /\ n + 1 \in DOMAIN visits /\ x = visits[n + 1].type
        /\ x \in Type
    BY <1>0, <2>1, Tops DEF TopVisit
  <2> HIDE DEF n, x
  <2>4. DOMAIN visits' = 1..n /\ DOMAIN visits = 1..(n + 1)
        /\ \A i \in 1..n : visits'[i].type = visits[i].type
    BY <1>0, <2>1, <2>3 DEF VisitsGoOn
  <2>5. \A i \in 1..(n + 1) : i = n + 1 \/ i \in 1..n
    BY <2>3
  <2>6. \A i \in 1..n : i \in 1..(n + 1) /\ i # n + 1
    BY <2>3
  <2>7. \A i \in 1..n : visits'[i].type # x
    BY <2>3, <2>4, <2>6 DEF Marked
  <2>8. ASSUME NEW y \in Type
        PROVE  m'[y].visiting <=> \E i \in DOMAIN visits' : visits'[i].type = y
    <3>1. CASE y = x
      BY <2>1, <2>4, <2>7, <3>1
    <3>2. CASE y # x
      BY <2>2, <2>3, <2>4, <2>5, <2>6, <3>2 DEF Marked
    <3> QED BY <3>1, <3>2
  <2> QED BY <2>4, <2>6, <2>8 DEF Marked
<1>6. CASE StepReturn \/ StepPrime
  BY <1>6, Quiet DEF Marked
<1>7. CASE StepTake
  <2>1. TopCall.type \in Type
    BY <1>7, Tops DEF StepTake, TopCall
  <2> QED BY <1>7, <2>1, EnteredMarks, PartTyped DEF StepTake
<1> QED BY <1>1, <1>2, <1>3, <1>4, <1>5, <1>6, <1>7 DEF AnyStep

LEMMA EnteredChain ==
  ASSUME Typed, Typed', VisitsChain, decl' = decl, NEW x \in Type, Entered(x),
         visits # <<>> => More(TopVisit) /\ Part(TopVisit).public /\ Part(TopVisit).type = x
  PROVE  VisitsChain'
<1>0. /\ Len(visits) \in Nat /\ DOMAIN visits = 1..Len(visits)
      /\ Len(visits') \in Nat /\ DOMAIN visits' = 1..Len(visits')
      /\ decl \in Decls
  BY DEF Typed
<1>1. CASE visits' = visits
  BY <1>1, Fixed DEF VisitsChain
<1>2. CASE EnterVisit(x)
  <2> DEFINE n == Len(visits)
  <2>1. Len(visits') = n + 1 /\ visits'[n + 1] = [type |-> x, at |-> 1]
        /\ (\A i \in 1..n : visits'[i] = visits[i]) /\ ~ Leaf(x)
    BY <1>2 DEF EnterVisit
  <2>2. n # 0 => /\ n \in DOMAIN visits /\ TopVisit = visits[n]
                 /\ More(visits[n]) /\ Part(visits[n]).public /\ Part(visits[n]).type = x
    BY <1>0, Tops DEF TopVisit
  <2> HIDE DEF n
  <2>3. n \in Nat /\ DOMAIN visits = 1..n /\ DOMAIN visits' = 1..(n + 1)
    BY <1>0, <2>1 DEF n
  <2>4. visits'[n + 1].type = x /\ visits'[n + 1].at = 1
    BY <2>1
  <2>5. Len(Of(x)) \in Nat
    BY <1>0, DeclIs
  <2>6. ASSUME NEW i \in 1..n
        PROVE  /\ More(visits[i]) /\ Part(visits[i]).public
               /\ x \in From(Part(visits[i]).type)
               /\ i = n => x = Part(visits[i]).type
    <3>1. CASE i = n
      <4>1. n # 0
        BY <3>1, <2>3
      <4> QED BY <3>1, <4>1, <2>2, <1>0, Leads
    <3>2. CASE i # n
      <4>1. i < n /\ n # 0 /\ n \in 1..n
        BY <3>2, <2>3
      <4>2. More(visits[i]) /\ Part(visits[i]).public
            /\ visits[n].type \in From(Part(visits[i]).type)
        BY <4>1, <2>3 DEF VisitsChain
      <4>3. Part(visits[i]).type \in Type
        BY <4>2, <2>3, PartTyped, Tops
      <4>4. ~ Leaf(visits[n].type)
        BY <4>1, <2>3 DEF VisitsChain
      <4>5. x \in From(Part(visits[i]).type)
        BY <4>1, <4>2, <4>3, <4>4, <2>2, <1>0, Leads DEF Closed, Leaf, Part, More
      <4> QED BY <4>2, <4>5, <3>2
    <3> QED BY <3>1, <3>2
  <2>7. ASSUME NEW i \in 1..(n + 1)
        PROVE  /\ ~ Leaf(visits'[i].type)
               /\ visits'[i].at \in 1..(Len(Of(visits'[i].type)) + 1)
    <3>1. CASE i = n + 1
      BY <3>1, <2>1, <2>4, <2>5
    <3>2. CASE i \in 1..n
      BY <3>2, <2>1, <2>3 DEF VisitsChain
    <3> QED BY <3>1, <3>2, <2>3
  <2>8. ASSUME NEW i \in 1..(n + 1), NEW j \in 1..(n + 1), i < j
        PROVE  /\ More(visits'[i]) /\ Part(visits'[i]).public
               /\ visits'[j].type \in From(Part(visits'[i]).type)
               /\ j = i + 1 => visits'[j].type = Part(visits'[i]).type
    <3>1. i \in 1..n /\ visits'[i] = visits[i]
      BY <2>8, <2>1, <2>3
    <3>2. CASE j = n + 1
      <4>1. j = i + 1 => i = n
        BY <3>1, <3>2, <2>3
      <4> QED BY <3>1, <3>2, <4>1, <2>4, <2>6
    <3>3. CASE j \in 1..n
      <4>1. i \in DOMAIN visits /\ j \in DOMAIN visits /\ visits'[j] = visits[j]
        BY <3>1, <3>3, <2>1, <2>3
      <4> QED BY <2>8, <3>1, <4>1 DEF VisitsChain
    <3> QED BY <3>2, <3>3, <2>3
  <2>9. /\ \A y : Of(y)' = Of(y) /\ (Leaf(y)' <=> Leaf(y)) /\ From(y)' = From(y)
        /\ \A f : Part(f)' = Part(f) /\ (More(f)' <=> More(f))
    BY Fixed
  <2> QED BY <2>3, <2>7, <2>8, <2>9, ZenonT(60) DEF VisitsChain
<1> QED BY <1>1, <1>2 DEF Entered, EnterNone, EnterLeaf

LEMMA ChainGoesOn ==
  ASSUME Typed, Typed', VisitsChain, decl' = decl,
         NEW n \in Nat, n = Len(visits) \/ n + 1 = Len(visits), VisitsGoOn(n),
         n # 0 => More(visits[n])
  PROVE  VisitsChain'
<1>0. /\ Len(visits) \in Nat /\ DOMAIN visits = 1..Len(visits)
      /\ DOMAIN visits' = 1..n /\ decl \in Decls
      /\ n \in Nat /\ \A i \in 1..n : i \in DOMAIN visits
  BY DEF Typed, VisitsGoOn
<1>1. /\ \A i \in 1..n : visits'[i].type = visits[i].type
      /\ \A i \in 1..n : i # n => visits'[i].at = visits[i].at
      /\ n # 0 => visits'[n].at = visits[n].at + 1
  BY DEF VisitsGoOn
<1>2. ASSUME NEW i \in 1..n
      PROVE  /\ ~ Leaf(visits'[i].type)
             /\ visits'[i].at \in 1..(Len(Of(visits'[i].type)) + 1)
  <2>1. ~ Leaf(visits[i].type) /\ visits[i].at \in 1..(Len(Of(visits[i].type)) + 1)
    BY <1>0 DEF VisitsChain
  <2>2. CASE i # n
    BY <1>1, <2>1, <2>2
  <2>3. CASE i = n
    <3>1. n # 0 /\ visits[n].at \in DOMAIN Of(visits[n].type) /\ visits[n].type \in Type
      <4>1. n # 0 /\ n \in 1..n
        BY <2>3
      <4>2. More(visits[n]) /\ n \in DOMAIN visits
        BY <1>0, <4>1
      <4>3. visits[n].type \in Type
        BY <4>2, Tops
      <4> QED BY <4>1, <4>2, <4>3 DEF More
    <3>2. DOMAIN Of(visits[n].type) = 1..Len(Of(visits[n].type)) /\ Len(Of(visits[n].type)) \in Nat
      BY <1>0, <3>1, DeclIs
    <3> QED BY <1>1, <2>1, <2>3, <3>1, <3>2
  <2> QED BY <2>2, <2>3
<1>3. ASSUME NEW i \in 1..n, NEW j \in 1..n, i < j
      PROVE  /\ More(visits'[i]) /\ Part(visits'[i]).public
             /\ visits'[j].type \in From(Part(visits'[i]).type)
             /\ j = i + 1 => visits'[j].type = Part(visits'[i]).type
  <2>1. i # n
    BY <1>3
  <2>2. visits'[i].type = visits[i].type /\ visits'[i].at = visits[i].at
        /\ visits'[j].type = visits[j].type
    BY <1>1, <2>1
  <2>3. /\ More(visits[i]) /\ Part(visits[i]).public
        /\ visits[j].type \in From(Part(visits[i]).type)
        /\ j = i + 1 => visits[j].type = Part(visits[i]).type
    <3>1. i \in DOMAIN visits /\ j \in DOMAIN visits
      BY <1>0
    <3> QED BY <3>1, <1>3 DEF VisitsChain
  <2>4. Part(visits'[i]) = Part(visits[i]) /\ (More(visits'[i]) <=> More(visits[i]))
    BY <2>2 DEF Part, More
  <2> QED BY <2>2, <2>3, <2>4
<1>4. /\ \A y : Of(y)' = Of(y) /\ (Leaf(y)' <=> Leaf(y)) /\ From(y)' = From(y)
      /\ \A f : Part(f)' = Part(f) /\ (More(f)' <=> More(f))
  BY Fixed
<1> QED BY <1>0, <1>2, <1>3, <1>4, ZenonT(60) DEF VisitsChain

LEMMA ChainStep ==
  ASSUME Typed, Typed', VisitsChain, VisitsServe, AnyStep
  PROVE  VisitsChain'
<1>0. /\ Len(visits) \in Nat /\ decl \in Decls
      /\ visits # <<>> => /\ Len(visits) # 0 /\ TopVisit = visits[Len(visits)]
                          /\ TopVisit.type \in Type /\ Len(visits) \in DOMAIN visits
  BY Tops DEF Typed, TopVisit
<1>1. CASE \E x \in Type : StepDo(x)
  <2>1. visits = <<>>
    BY <1>1 DEF StepDo, VisitsServe
  <2> QED BY <1>1, <2>1, EnteredChain DEF StepDo
<1>2. CASE StepHidden
  <2>1. decl' = decl /\ VisitsGoOn(Len(visits)) /\ More(visits[Len(visits)])
    BY <1>0, <1>2 DEF StepHidden, Rest
  <2> QED BY <1>0, <2>1, ChainGoesOn
<1>3. CASE StepNew
  BY <1>0, <1>3, EnteredChain, PartTyped DEF StepNew, Rest
<1>4. CASE StepKnown
  <2>1. decl' = decl /\ VisitsGoOn(Len(visits)) /\ More(visits[Len(visits)])
    BY <1>0, <1>4 DEF StepKnown, Rest
  <2> QED BY <1>0, <2>1, ChainGoesOn
<1>5. CASE StepEnds
  <2> DEFINE n == Len(visits) - 1
  <2>1. visits # <<>> /\ decl' = decl /\ VisitsGoOn(n)
    BY <1>5 DEF StepEnds, Rest
  <2>2. n \in Nat /\ n + 1 = Len(visits) /\ n < n + 1
    BY <1>0, <2>1
  <2> HIDE DEF n
  <2>3. n # 0 => More(visits[n])
    <3> SUFFICES ASSUME n # 0 PROVE More(visits[n])
      OBVIOUS
    <3>1. n \in DOMAIN visits /\ n + 1 \in DOMAIN visits
      BY <2>2, Tops
    <3> QED BY <2>2, <3>1 DEF VisitsChain
  <2> QED BY <2>1, <2>2, <2>3, ChainGoesOn
<1>6. CASE StepReturn \/ StepPrime
  <2>1. visits' = <<>>
    BY <1>6, Quiet
  <2> QED BY <2>1 DEF VisitsChain
<1>7. CASE StepTake
  <2>1. TopCall.type \in Type
    BY <1>7, Tops DEF StepTake, TopCall
  <2> QED BY <1>7, <2>1, EnteredChain, PartTyped DEF StepTake, Rest
<1> QED BY <1>1, <1>2, <1>3, <1>4, <1>5, <1>6, <1>7 DEF AnyStep

LEMMA ServeStep ==
  ASSUME Typed, Typed', Marked, VisitsServe, AnyStep
  PROVE  VisitsServe'
<1>0. /\ Len(visits) \in Nat /\ Len(calls) \in Nat
      /\ Len(visits') \in Nat /\ Len(calls') \in Nat
      /\ (visits # <<>> <=> Len(visits) # 0) /\ (visits' # <<>> <=> Len(visits') # 0)
      /\ (calls # <<>> <=> Len(calls) # 0) /\ (calls' # <<>> <=> Len(calls') # 0)
  BY DEF Typed
<1>1. ASSUME NEW x \in Type, Entered(x), CallBegins(x), visits = <<>>
      PROVE  VisitsServe'
  <2>1. Len(calls') = Len(calls) + 1 /\ calls'[Len(calls) + 1].type = x
        /\ calls'[Len(calls) + 1].at = 0
    BY <1>1 DEF CallBegins
  <2>2. visits' # <<>> => visits'[1].type = x
    <3>1. visits' = visits \/ visits'[Len(visits) + 1] = [type |-> x, at |-> 1]
      BY <1>1 DEF Entered, EnterNone, EnterLeaf, EnterVisit
    <3>2. Len(visits) + 1 = 1
      BY <1>0, <1>1
    <3> QED BY <1>1, <3>1, <3>2
  <2> QED BY <1>0, <2>1, <2>2 DEF VisitsServe, TopCall
<1>2. ASSUME calls' = calls, visits # <<>>, visits' # <<>> => visits'[1].type = visits[1].type
      PROVE  VisitsServe'
  BY <1>2 DEF VisitsServe, TopCall
<1>3. CASE \E x \in Type : StepDo(x)
  <2>1. visits = <<>>
    BY <1>3 DEF StepDo, VisitsServe
  <2> QED BY <1>1, <1>3, <2>1 DEF StepDo
<1>4. CASE StepNew
  <2>1. visits # <<>> /\ Entered(Part(TopVisit).type) /\ calls' = calls
    BY <1>4 DEF StepNew
  <2>2. 1 \in 1..Len(visits)
    BY <1>0, <2>1
  <2>3. visits'[1].type = visits[1].type
    BY <2>1, <2>2 DEF Entered, EnterNone, EnterLeaf, EnterVisit
  <2> QED BY <1>2, <2>1, <2>3
<1>5. ASSUME NEW n \in Nat, VisitsGoOn(n), calls' = calls, visits # <<>>
      PROVE  VisitsServe'
  <2>1. visits' # <<>> => 1 \in 1..n
    BY <1>0, <1>5 DEF VisitsGoOn
  <2> QED BY <1>2, <1>5, <2>1 DEF VisitsGoOn
<1>6. CASE StepHidden \/ StepKnown
  BY <1>0, <1>5, <1>6 DEF StepHidden, StepKnown
<1>7. CASE StepEnds
  <2>1. visits # <<>> /\ VisitsGoOn(Len(visits) - 1) /\ calls' = calls
    BY <1>7 DEF StepEnds
  <2>2. Len(visits) - 1 \in Nat
    BY <1>0, <2>1
  <2> QED BY <1>5, <2>1, <2>2
<1>8. CASE StepReturn \/ StepPrime
  <2>1. visits' = <<>>
    BY <1>8, Quiet
  <2> QED BY <2>1 DEF VisitsServe
<1>9. CASE StepTake
  <2>1. TopCall.type \in Type
    BY <1>9, Tops DEF StepTake, TopCall
  <2> QED BY <1>1, <1>9, <2>1, PartTyped DEF StepTake
<1> QED BY <1>3, <1>4, <1>6, <1>7, <1>8, <1>9 DEF AnyStep

LEMMA EnteredFresh ==
  ASSUME Typed, Typed', Marked, Fresh, decl' = decl, NEW x \in Type, Entered(x)
  PROVE  Fresh'
<1>0. /\ Len(visits) \in Nat /\ DOMAIN visits = 1..Len(visits) /\ DOMAIN visits' = 1..Len(visits')
      /\ \A i \in DOMAIN visits : visits[i].type \in Type
  BY Tops DEF Typed
<1>1. CASE EnterNone(x)
  BY <1>1 DEF EnterNone, Fresh
<1>2. ASSUME ~ Known(x), NEW r, Only(x, r), r.trav = NoTrav
      PROVE  /\ \A y \in Type : m'[y].trav # NoTrav => m'[y].reach = "yes" /\ ~ m'[y].visiting
             /\ \A i \in DOMAIN visits :
                  LET y == visits[i].type
                  IN  /\ visits[i].at = 1 => m'[y].reach = "dontKnow"
                      /\ decl[y].kind = "struct" => m'[y].reach # "no"
  <2>1. \A i \in DOMAIN visits : visits[i].type # x
    BY <1>2 DEF Known, Marked
  <2>2. \A i \in DOMAIN visits : m'[visits[i].type] = m[visits[i].type]
    BY <1>0, <1>2, <2>1 DEF Only
  <2> QED BY <1>2, <2>2 DEF Only, Fresh
<1>3. CASE EnterLeaf(x)
  BY <1>2, <1>3 DEF EnterLeaf, Fresh
<1>4. CASE EnterVisit(x)
  <2> DEFINE n == Len(visits)
  <2>1. Len(visits') = n + 1 /\ visits'[n + 1].type = x /\ \A i \in 1..n : visits'[i] = visits[i]
    BY <1>4 DEF EnterVisit
  <2>2. m'[x].reach = "dontKnow"
    BY <1>4 DEF EnterVisit, Only
  <2>3. /\ \A y \in Type : m'[y].trav # NoTrav => m'[y].reach = "yes" /\ ~ m'[y].visiting
        /\ \A i \in DOMAIN visits :
             LET y == visits[i].type
             IN  /\ visits[i].at = 1 => m'[y].reach = "dontKnow"
                 /\ decl[y].kind = "struct" => m'[y].reach # "no"
    BY <1>2, <1>4 DEF EnterVisit
  <2> HIDE DEF n
  <2>4. \A i \in DOMAIN visits' : i = n + 1 \/ (i \in DOMAIN visits /\ visits'[i] = visits[i])
    BY <1>0, <2>1 DEF n
  <2> QED BY <2>1, <2>2, <2>3, <2>4 DEF Fresh
<1> QED BY <1>1, <1>3, <1>4 DEF Entered

(* Only the answers of visited types change while others are visited.      *)
LEMMA FreshGoesOn ==
  ASSUME Typed, Typed', Marked, VisitsChain, Fresh, decl' = decl,
         NEW n \in Nat, n = Len(visits) \/ n + 1 = Len(visits), VisitsGoOn(n),
         \A y \in Type : m'[y].trav = m[y].trav,
         \A y \in Type : ~ m[y].visiting => m'[y] = m[y],
         \A i \in 1..n : i # n => m'[visits[i].type] = m[visits[i].type],
         n # 0 => \/ m'[visits[n].type].reach = m[visits[n].type].reach
                  \/ \E a \in Knowledge : m'[visits[n].type].reach
                                            = Combined(visits[n], m[visits[n].type].reach, a)
  PROVE  Fresh'
<1>0. /\ DOMAIN visits' = 1..n
      /\ n \in Nat /\ \A i \in 1..n : i \in DOMAIN visits
      /\ \A i \in DOMAIN visits : visits[i].type \in Type /\ visits[i].at \in Nat \ {0}
  BY Tops DEF Typed, VisitsGoOn, VisitsChain
<1>1. \A y \in Type : m'[y].trav # NoTrav => m'[y].reach = "yes" /\ ~ m'[y].visiting
  BY DEF Fresh
<1>2. ASSUME NEW i \in 1..n
      PROVE  LET x == visits'[i].type
             IN  /\ visits'[i].at = 1 => m'[x].reach = "dontKnow"
                 /\ decl[x].kind = "struct" => m'[x].reach # "no"
  <2>1. visits'[i].type = visits[i].type /\ i \in DOMAIN visits
    BY <1>0 DEF VisitsGoOn
  <2>2. CASE i # n
    <3>1. visits'[i].at = visits[i].at
      BY <2>2 DEF VisitsGoOn
    <3> QED BY <2>1, <2>2, <3>1 DEF Fresh
  <2>3. CASE i = n
    <3>1. n # 0
      BY <1>0, <2>3
    <3>2. visits'[n].at = visits[n].at + 1 /\ visits[n].at \in Nat \ {0}
      BY <1>0, <2>1, <2>3, <3>1 DEF VisitsGoOn
    <3>3. visits'[n].at # 1
      BY <3>2
    <3>4. ASSUME decl[visits[n].type].kind = "struct" PROVE m'[visits[n].type].reach # "no"
      <4>1. m[visits[n].type].reach # "no"
        BY <2>1, <2>3, <3>4 DEF Fresh
      <4>2. CASE m'[visits[n].type].reach = m[visits[n].type].reach
        BY <4>1, <4>2
      <4>3. ASSUME NEW a \in Knowledge,
                   m'[visits[n].type].reach = Combined(visits[n], m[visits[n].type].reach, a)
            PROVE  m'[visits[n].type].reach # "no"
        <5>1. m[visits[n].type].reach \in Knowledge
          BY <2>1, <2>3, <1>0, CallTypes DEF Typed
        <5> QED BY <4>1, <4>3, <3>4, <5>1 DEF Combined, Or, Knowledge
      <4> QED BY <3>1, <4>2, <4>3
    <3> QED BY <2>1, <2>3, <3>3, <3>4
  <2> QED BY <2>2, <2>3
<1> QED BY <1>0, <1>1, <1>2 DEF Fresh

LEMMA FreshStep ==
  ASSUME Typed, Typed', Stacks, Dummies, AnyStep
  PROVE  Fresh'
<1>0. /\ Len(visits) \in Nat /\ decl \in Decls /\ Marked /\ VisitsChain /\ Fresh
      /\ DOMAIN visits = 1..Len(visits)
      /\ \A i \in DOMAIN visits : visits[i].type \in Type /\ m[visits[i].type].reach \in Knowledge
      /\ \A y \in Type : m[y].reach \in Knowledge
      /\ visits # <<>> => /\ Len(visits) # 0 /\ TopVisit = visits[Len(visits)]
                          /\ TopVisit.type \in Type /\ Len(visits) \in DOMAIN visits
  BY Tops, CallTypes DEF Typed, TopVisit, Stacks
<1>1. CASE \E x \in Type : StepDo(x)
  BY <1>0, <1>1, EnteredFresh DEF StepDo
<1>2. CASE StepHidden
  <2>1. decl' = decl /\ VisitsGoOn(Len(visits)) /\ m' = m
    BY <1>2 DEF StepHidden, Rest
  <2> QED BY <1>0, <2>1, FreshGoesOn
<1>3. CASE StepNew
  BY <1>0, <1>3, EnteredFresh, PartTyped DEF StepNew, Rest
<1>4. CASE StepKnown
  <2> DEFINE n == Len(visits)
             x == visits[n].type
             c == Part(TopVisit).type
  <2>1. /\ decl' = decl /\ VisitsGoOn(n) /\ visits # <<>> /\ x \in Type /\ c \in Type
        /\ m'[x].trav = m[x].trav
        /\ m'[x].reach = Combined(visits[n], m[x].reach, m[c].reach)
        /\ \A y \in Type \ {x} : m'[y] = m[y]
        /\ n \in DOMAIN visits
    BY <1>0, <1>4, PartTyped DEF StepKnown, Rest, Change
  <2>2. m[x].visiting /\ \A i \in 1..n : i # n => visits[i].type # x
    BY <1>0, <2>1 DEF Marked
  <2>3. n \in Nat /\ m[c].reach \in Knowledge
    BY <1>0, <2>1
  <2> HIDE DEF n, x, c
  <2>4. \A y \in Type : m'[y].trav = m[y].trav /\ (~ m[y].visiting => m'[y] = m[y])
    BY <2>1, <2>2
  <2>5. \A i \in 1..n : i # n => m'[visits[i].type] = m[visits[i].type]
    BY <1>0, <2>1, <2>2 DEF n
  <2> QED BY <1>0, <2>1, <2>3, <2>4, <2>5, FreshGoesOn DEF n, x
<1>5. CASE StepEnds
  <2> DEFINE n == Len(visits) - 1
             x == TopVisit.type
             u == visits[n].type
  <2>1. /\ decl' = decl /\ VisitsGoOn(n) /\ visits # <<>> /\ x \in Type
        /\ m'[x].trav = m[x].trav
        /\ n # 0 => /\ m'[u].trav = m[u].trav
                    /\ m'[u].reach = Combined(visits[n], m[u].reach, m[x].reach)
        /\ \A y \in Type \ {x} : n = 0 \/ y # u => m'[y] = m[y]
    BY <1>0, <1>5 DEF StepEnds, Rest, Change
  <2>2. n \in Nat /\ n + 1 = Len(visits) /\ m[x].reach \in Knowledge /\ n + 1 \in DOMAIN visits
        /\ x = visits[n + 1].type
    BY <1>0, <2>1
  <2> HIDE DEF n
  <2>3. \A i \in 1..n : i \in DOMAIN visits /\ i # n + 1 /\ n \in DOMAIN visits
    BY <1>0, <2>2
  <2>4. /\ m[x].visiting /\ (n # 0 => m[u].visiting)
        /\ \A i \in 1..n : visits[i].type # x /\ (i # n => visits[i].type # u)
    <3>1. n # 0 => n \in DOMAIN visits
      BY <1>0, <2>2
    <3>2. m[x].visiting /\ (n # 0 => m[u].visiting)
      BY <1>0, <2>1, <2>2, <3>1 DEF Marked
    <3>3. \A i \in 1..n : visits[i].type # x /\ (i # n => visits[i].type # u)
      BY <1>0, <2>2, <2>3 DEF Marked
    <3> QED BY <3>2, <3>3
  <2>5. n # 0 => u \in Type
    BY <1>0, <2>2
  <2> HIDE DEF x, u
  <2>6. \A y \in Type : m'[y].trav = m[y].trav /\ (~ m[y].visiting => m'[y] = m[y])
    BY <2>1, <2>4, <2>5
  <2>7. \A i \in 1..n : i # n => m'[visits[i].type] = m[visits[i].type]
    BY <1>0, <2>1, <2>3, <2>4
  <2> QED BY <1>0, <2>1, <2>2, <2>6, <2>7, FreshGoesOn DEF u
<1>6. CASE StepReturn \/ StepPrime
  <2> DEFINE x == TopCall.type
  <2>1. visits = <<>> /\ visits' = <<>> /\ x \in Type
    BY <1>6, Quiet
  <2>2. \A y \in Type : ~ m[y].visiting /\ ~ m'[y].visiting
    BY <1>6, <2>1, <1>0, Quiet DEF Marked
  <2>3. \A y \in Type \ {x} : m'[y].trav = m[y].trav /\ m'[y].reach = m[y].reach
    BY <1>6, Quiet
  <2>4. m'[x].trav # NoTrav => m'[x].reach = "yes"
    <3>1. CASE StepPrime
      BY <2>1, <3>1, TravSet DEF StepPrime
    <3>2. CASE StepReturn /\ m' = m
      BY <1>0, <2>1, <3>2 DEF Fresh
    <3>3. CASE m[x].trav = NoTrav /\ m'[x].trav = m[x].trav
      BY <3>3
    <3>4. CASE m[x].reach = "yes" /\ m' = [m EXCEPT ![x].trav = Calls]
      BY <2>1, <3>4, TravSet
    <3>5. CASE StepReturn /\ TopCall.at # 0 /\ m' = [m EXCEPT ![x].trav = Walks(TopCall.takes)]
      <4>1. m[x].trav = Dummy
        BY <3>5, Tops DEF StepReturn, TopCall, Dummies
      <4>2. m[x].reach = "yes"
        BY <1>0, <2>1, <4>1 DEF Fresh, Dummy, NoTrav
      <4> QED BY <2>1, <3>5, <4>2, TravSet
    <3> QED BY <1>6, <3>1, <3>2, <3>3, <3>4, <3>5 DEF StepReturn, Change
  <2>5. \A y \in Type : m'[y].trav # NoTrav => m'[y].reach = "yes"
    BY <1>0, <2>3, <2>4 DEF Fresh
  <2> QED BY <2>1, <2>2, <2>5 DEF Fresh
<1>7. CASE StepTake
  <2>1. TopCall.type \in Type
    BY <1>7, Tops DEF StepTake, TopCall
  <2> QED BY <1>0, <1>7, <2>1, EnteredFresh, PartTyped DEF StepTake, Rest
<1> QED BY <1>1, <1>2, <1>3, <1>4, <1>5, <1>6, <1>7 DEF AnyStep

-----------------------------------------------------------------------------
(* The calls.                                                              *)

LEMMA Priming ==
  ASSUME Typed, StepPrime
  PROVE  LET l == Len(calls)
         IN  /\ Len(calls') = l /\ DOMAIN calls' = DOMAIN calls /\ l \in DOMAIN calls
             /\ TopCall = calls[l] /\ TopCall.type \in Type /\ calls[l].at = 0
             /\ calls'[l].type = calls[l].type /\ calls'[l].at = 1
             /\ calls'[l].takes = calls[l].takes
             /\ \A i \in DOMAIN calls : i # l => calls'[i] = calls[i]
<1> DEFINE l == Len(calls)
           c == [calls[l] EXCEPT !.at = 1]
<1>1. /\ calls' = [calls EXCEPT ![l].at = 1] /\ calls \in Seq(Call) /\ l \in DOMAIN calls
      /\ calls[l] \in Call /\ TopCall = calls[l] /\ TopCall.at = 0 /\ TopCall.type \in Type
      /\ l \in Nat /\ DOMAIN calls = 1..l
  BY Tops DEF StepPrime, TopCall, Typed
<1>2. /\ c \in Call /\ c.type = calls[l].type /\ c.at = 1 /\ c.takes = calls[l].takes
      /\ calls' = [calls EXCEPT ![l] = c]
  BY <1>1 DEF Call
<1> HIDE DEF c
<1>3. calls' \in Seq(Call) /\ Len(calls') = l /\ DOMAIN calls' = DOMAIN calls
  BY <1>1, <1>2
<1>4. calls'[l] = c /\ \A i \in DOMAIN calls : i # l => calls'[i] = calls[i]
  BY <1>1, <1>2
<1> QED BY <1>1, <1>2, <1>3, <1>4

LEMMA Ending ==
  ASSUME Typed, CallsChain, calls # <<>>, CallEnds
  PROVE  LET n == Len(calls) - 1
         IN  /\ n \in Nat /\ n + 1 = Len(calls) /\ DOMAIN calls' = 1..n /\ n + 1 \in DOMAIN calls
             /\ TopCall = calls[n + 1]
             /\ \A i \in 1..n : /\ i \in DOMAIN calls /\ i # n + 1 /\ i < n + 1
                                /\ calls[i].at # 0 /\ More(calls[i])
                                /\ calls'[i].type = calls[i].type /\ calls'[i].at # 0
                                /\ i # n => calls'[i] = calls[i]
             /\ n # 0 => /\ calls'[n].at = calls[n].at + 1
                         /\ calls[n + 1].type = Part(calls[n]).type
                         /\ calls'[n].takes
                              = calls[n].takes \cup TakeAt(m', calls[n].type, calls[n].at)
<1> DEFINE n == Len(calls) - 1
<1>1. n \in Nat /\ n + 1 = Len(calls) /\ n + 1 \in DOMAIN calls /\ DOMAIN calls = 1..(n + 1)
  BY Tops
<1>2. /\ calls' \in Seq(Call) /\ Len(calls') = n
      /\ \A i \in 1..n : calls'[i].type = calls[i].type
      /\ \A i \in 1..n : i # n => calls'[i] = calls[i]
      /\ n # 0 => /\ calls'[n].at = calls[n].at + 1
                  /\ calls'[n].takes = calls[n].takes \cup TakeAt(m', calls[n].type, calls[n].at)
  BY DEF CallEnds
<1>3. TopCall = calls[n + 1]
  BY <1>1 DEF TopCall
<1> HIDE DEF n
<1>4. DOMAIN calls' = 1..n
  BY <1>2
<1>5. \A i \in 1..n : i \in DOMAIN calls /\ i # n + 1 /\ i < n + 1
  BY <1>1
<1>6. \A i \in 1..n : calls[i].at # 0 /\ More(calls[i])
  BY <1>1, <1>5 DEF CallsChain
<1>7. n # 0 => n \in 1..n
  BY <1>1
<1>8. n # 0 => calls[n + 1].type = Part(calls[n]).type
  BY <1>1, <1>5, <1>7 DEF CallsChain
<1>9. \A i \in 1..n : calls'[i].at # 0
  <2> TAKE i \in 1..n
  <2>1. CASE i # n
    BY <1>2, <1>6, <2>1
  <2>2. CASE i = n
    <3>1. n # 0 /\ calls[n].at \in Nat
      BY <1>1, <1>5, <2>2, Tops
    <3> QED BY <1>2, <2>2, <3>1
  <2> QED BY <2>1, <2>2
<1> QED BY <1>1, <1>2, <1>3, <1>4, <1>5, <1>6, <1>8, <1>9 DEF n

LEMMA BeginningChain ==
  ASSUME Typed, CallsChain, decl' = decl, NEW x \in Type, CallBegins(x),
         calls # <<>> => More(TopCall) /\ Part(TopCall).type = x
  PROVE  CallsChain'
<1> DEFINE n == Len(calls)
<1>1. /\ n \in Nat /\ DOMAIN calls = 1..n
      /\ calls' \in Seq(Call) /\ Len(calls') = n + 1
      /\ calls'[n + 1].type = x /\ calls'[n + 1].at = 0
      /\ \A i \in 1..n : calls'[i] = calls[i]
      /\ n # 0 => n \in 1..n /\ More(calls[n]) /\ Part(calls[n]).type = x
  BY Tops DEF CallBegins, TopCall
<1>2. DOMAIN calls' = 1..(n + 1)
  BY <1>1
<1>3. n # 0 => calls[n].at # 0
  <2> SUFFICES ASSUME n # 0 PROVE calls[n].at # 0
    OBVIOUS
  <2>1. calls[n].at \in DOMAIN Of(calls[n].type) /\ calls[n].type \in Type
    BY <1>1, Tops DEF More
  <2>2. DOMAIN Of(calls[n].type) = 1..Len(Of(calls[n].type)) /\ Len(Of(calls[n].type)) \in Nat
    BY <2>1, DeclIs DEF Typed
  <2> QED BY <2>1, <2>2
<1> HIDE DEF n
<1>4. ASSUME NEW i \in 1..(n + 1)
      PROVE  calls'[i].at \in 0..(Len(Of(calls'[i].type)) + 1)
  <2>1. CASE i = n + 1
    BY <1>1, <2>1, DeclIs DEF Typed
  <2>2. CASE i \in 1..n
    BY <1>1, <2>2 DEF CallsChain
  <2> QED BY <1>1, <2>1, <2>2
<1>5. ASSUME NEW i \in 1..(n + 1), NEW j \in 1..(n + 1), i < j
      PROVE  /\ calls'[i].at # 0 /\ More(calls'[i])
             /\ j = i + 1 => calls'[j].type = Part(calls'[i]).type
  <2>1. i \in 1..n /\ n # 0 /\ n \in 1..n
    BY <1>1, <1>5
  <2>2. CASE j \in 1..n
    BY <1>1, <1>5, <2>1, <2>2 DEF CallsChain
  <2>3. CASE j = n + 1 /\ i = n
    BY <1>1, <1>3, <2>1, <2>3
  <2>4. CASE j = n + 1 /\ i # n
    <3>1. i < n /\ j # i + 1
      BY <1>1, <2>1, <2>4
    <3> QED BY <1>1, <2>1, <3>1 DEF CallsChain
  <2> QED BY <1>1, <2>2, <2>3, <2>4
<1> QED BY <1>2, <1>4, <1>5, Fixed DEF CallsChain

LEMMA CallsChainStep ==
  ASSUME Typed, Typed', CallsChain, AnyStep
  PROVE  CallsChain'
<1>1. CASE \E x \in Type : StepDo(x)
  BY <1>1, BeginningChain DEF StepDo
<1>2. CASE StepTake
  <2>1. TopCall.type \in Type
    BY <1>2, Tops DEF StepTake, TopCall
  <2> QED BY <1>2, <2>1, BeginningChain, PartTyped DEF StepTake, Rest
<1>3. CASE StepHidden \/ StepNew \/ StepKnown \/ StepEnds
  <2>1. calls' = calls /\ decl' = decl
    BY <1>3 DEF StepHidden, StepNew, StepKnown, StepEnds, Rest
  <2> QED BY <2>1, Fixed DEF CallsChain
<1>4. CASE StepReturn
  <2> DEFINE n == Len(calls) - 1
  <2>1. calls # <<>> /\ CallEnds /\ decl' = decl
    BY <1>4 DEF StepReturn, Rest
  <2>2. /\ n \in Nat /\ DOMAIN calls' = 1..n
        /\ \A i \in 1..n : /\ i \in DOMAIN calls
                           /\ More(calls[i]) /\ calls'[i].type = calls[i].type /\ calls'[i].at # 0
                           /\ i # n => calls'[i] = calls[i]
        /\ n # 0 => calls'[n].at = calls[n].at + 1
    BY <2>1, Ending
  <2> HIDE DEF n
  <2>3. ASSUME NEW i \in 1..n
        PROVE  calls'[i].at \in 0..(Len(Of(calls'[i].type)) + 1)
    <3>1. CASE i # n
      BY <2>2, <3>1 DEF CallsChain
    <3>2. CASE i = n
      <4>1. n # 0 /\ calls[n].at \in DOMAIN Of(calls[n].type) /\ calls[n].type \in Type
        BY <2>2, <3>2, Tops DEF More
      <4>2. /\ DOMAIN Of(calls[n].type) = 1..Len(Of(calls[n].type))
            /\ Len(Of(calls[n].type)) \in Nat
        BY <4>1, DeclIs DEF Typed
      <4>3. calls'[n].type = calls[n].type /\ calls'[n].at = calls[n].at + 1
        BY <2>2, <3>2, <4>1
      <4> QED BY <3>2, <4>1, <4>2, <4>3
    <3> QED BY <3>1, <3>2
  <2>4. ASSUME NEW i \in 1..n, NEW j \in 1..n, i < j
        PROVE  /\ calls'[i].at # 0 /\ More(calls'[i])
               /\ j = i + 1 => calls'[j].type = Part(calls'[i]).type
    <3>1. i # n /\ i \in DOMAIN calls /\ j \in DOMAIN calls
      BY <2>2, <2>4
    <3>2. calls'[i] = calls[i] /\ calls'[j].type = calls[j].type
      BY <2>2, <3>1
    <3>3. /\ calls[i].at # 0 /\ More(calls[i])
          /\ j = i + 1 => calls[j].type = Part(calls[i]).type
      BY <2>4, <3>1 DEF CallsChain
    <3> QED BY <3>2, <3>3
  <2> QED BY <2>1, <2>2, <2>3, <2>4, Fixed, SMTT(60) DEF CallsChain
<1>5. CASE StepPrime
  <2> DEFINE l == Len(calls)
  <2>1. /\ DOMAIN calls' = DOMAIN calls /\ l \in DOMAIN calls /\ DOMAIN calls = 1..l /\ l \in Nat
        /\ calls'[l].type = calls[l].type /\ calls'[l].at = 1 /\ calls[l].type \in Type
        /\ \A i \in DOMAIN calls : i # l => calls'[i] = calls[i]
        /\ decl' = decl
    BY <1>5, Priming, Tops DEF StepPrime, Rest
  <2> HIDE DEF l
  <2>2. ASSUME NEW i \in DOMAIN calls
        PROVE  calls'[i].at \in 0..(Len(Of(calls'[i].type)) + 1)
    <3>1. CASE i = l
      <4>1. Len(Of(calls[l].type)) \in Nat
        BY <2>1, DeclIs DEF Typed
      <4> QED BY <2>1, <3>1, <4>1
    <3>2. CASE i # l
      BY <2>1, <3>2 DEF CallsChain
    <3> QED BY <3>1, <3>2
  <2>3. ASSUME NEW i \in DOMAIN calls, NEW j \in DOMAIN calls, i < j
        PROVE  /\ calls'[i].at # 0 /\ More(calls'[i])
               /\ j = i + 1 => calls'[j].type = Part(calls'[i]).type
    <3>1. i # l /\ calls'[i] = calls[i] /\ calls'[j].type = calls[j].type
      BY <2>1, <2>3
    <3> QED BY <2>3, <3>1 DEF CallsChain
  <2> QED BY <2>1, <2>2, <2>3, Fixed DEF CallsChain
<1> QED BY <1>1, <1>2, <1>3, <1>4, <1>5 DEF AnyStep

(* What is known for good stays, a traverser with it.                      *)
LEMMA EnteredKeeps ==
  ASSUME Typed, Fresh, NEW x \in Type, Entered(x)
  PROVE  \A y \in Type :
           /\ m[y].trav # NoTrav \/ m[y].reach # "dontKnow" \/ m[y].visiting => m'[y] = m[y]
           /\ m'[y].trav = m[y].trav
<1>1. CASE EnterNone(x)
  BY <1>1 DEF EnterNone
<1>2. ASSUME ~ Known(x), NEW r, Only(x, r), r.trav = NoTrav
      PROVE  \A y \in Type :
           /\ m[y].trav # NoTrav \/ m[y].reach # "dontKnow" \/ m[y].visiting => m'[y] = m[y]
           /\ m'[y].trav = m[y].trav
  <2>1. m[x].reach = "dontKnow" /\ ~ m[x].visiting
    BY <1>2 DEF Known
  <2>2. m[x].trav = NoTrav
    BY <2>1 DEF Fresh
  <2> QED BY <1>2, <2>1, <2>2 DEF Only
<1>3. CASE EnterLeaf(x)
  BY <1>2, <1>3 DEF EnterLeaf
<1>4. CASE EnterVisit(x)
  BY <1>2, <1>4 DEF EnterVisit
<1> QED BY <1>1, <1>3, <1>4 DEF Entered

LEMMA VisitsKeep ==
  ASSUME Typed, Stacks, StepHidden \/ StepNew \/ StepKnown \/ StepEnds
  PROVE  /\ calls' = calls /\ Rest /\ visits # <<>>
         /\ \A y \in Type : /\ m'[y].trav = m[y].trav
                            /\ m[y].trav # NoTrav => m'[y] = m[y]
                            /\ ~ m[y].visiting /\ m[y].reach # "dontKnow" => m'[y] = m[y]
<1>0. visits # <<>> /\ calls' = calls /\ Rest /\ Fresh /\ Marked /\ TopVisit.type \in Type
      /\ TopVisit = visits[Len(visits)] /\ Len(visits) \in DOMAIN visits
      /\ Len(visits) \in Nat /\ DOMAIN visits = 1..Len(visits)
  BY Tops DEF StepHidden, StepNew, StepKnown, StepEnds, Stacks, TopVisit
<1>1. m[TopVisit.type].visiting /\ m[TopVisit.type].trav = NoTrav
  BY <1>0 DEF Marked, Fresh
<1>2. CASE StepHidden
  BY <1>0, <1>2 DEF StepHidden
<1>3. CASE StepNew
  BY <1>0, <1>3, EnteredKeeps, PartTyped DEF StepNew
<1>4. CASE StepKnown
  BY <1>0, <1>1, <1>4 DEF StepKnown, Change
<1>5. CASE StepEnds
  <2> DEFINE n == Len(visits) - 1
             u == visits[n].type
             x == TopVisit.type
  <2>1. n = 0 \/ n \in DOMAIN visits
    BY <1>0
  <2>2. n = 0 \/ (u \in Type /\ m[u].visiting /\ m[u].trav = NoTrav)
    BY <1>0, <2>1, Tops DEF Marked, Fresh
  <2>3. /\ m'[x].trav = m[x].trav
        /\ n # 0 => m'[u].trav = m[u].trav
        /\ \A y \in Type \ {x} : n = 0 \/ y # u => m'[y] = m[y]
    BY <1>5 DEF StepEnds, Change
  <2> HIDE DEF n, u, x
  <2> QED BY <1>0, <1>1, <2>2, <2>3 DEF x
<1> QED BY <1>0, <1>2, <1>3, <1>4, <1>5

LEMMA DummiesStep ==
  ASSUME Typed, Typed', Stacks, CallsChain, Dummies, AnyStep
  PROVE  Dummies'
<1>0. Fresh /\ DOMAIN calls = 1..Len(calls) /\ Len(calls) \in Nat
      /\ \A i \in DOMAIN calls : calls[i].type \in Type
  BY Tops DEF Stacks
<1>1. ASSUME NEW x \in Type, Entered(x), CallBegins(x)
      PROVE  Dummies'
  <2> DEFINE n == Len(calls)
  <2>1. \A y \in Type : m'[y].trav = m[y].trav
    BY <1>0, <1>1, EnteredKeeps
  <2>2. /\ DOMAIN calls' = 1..(n + 1) /\ n \in Nat /\ DOMAIN calls = 1..n
        /\ calls'[n + 1].at = 0
        /\ \A i \in 1..n : calls'[i] = calls[i]
    BY <1>0, <1>1 DEF CallBegins
  <2> HIDE DEF n
  <2>3. \A i \in 1..(n + 1) : calls'[i].at # 0 => i \in DOMAIN calls /\ calls'[i] = calls[i]
    BY <2>2
  <2>4. \A i \in DOMAIN calls : i \in DOMAIN calls' /\ calls'[i] = calls[i]
    BY <2>2
  <2> QED BY <1>0, <2>1, <2>2, <2>3, <2>4 DEF Dummies
<1>2. CASE \E x \in Type : StepDo(x)
  BY <1>1, <1>2 DEF StepDo
<1>3. CASE StepTake
  <2>1. TopCall.type \in Type
    BY <1>3, Tops DEF StepTake, TopCall
  <2> QED BY <1>1, <1>3, <2>1, PartTyped DEF StepTake
<1>4. CASE StepHidden \/ StepNew \/ StepKnown \/ StepEnds
  BY <1>0, <1>4, VisitsKeep DEF Dummies
<1>5. CASE StepReturn
  <2> DEFINE n == Len(calls) - 1
             x == TopCall.type
  <2>1. calls # <<>> /\ CallEnds
    BY <1>5 DEF StepReturn
  <2>2. /\ n \in Nat /\ n + 1 = Len(calls) /\ DOMAIN calls' = 1..n /\ n + 1 \in DOMAIN calls
        /\ TopCall = calls[n + 1]
        /\ \A i \in 1..n : /\ i \in DOMAIN calls /\ i # n + 1
                           /\ calls[i].at # 0
                           /\ calls'[i].type = calls[i].type /\ calls'[i].at # 0
    BY <2>1, Ending
  <2>4. x \in Type
    BY <1>0, <2>2
  <2> HIDE DEF n
  <2>3. \A i \in DOMAIN calls : i \in 1..n \/ i = n + 1
    BY <1>0, <2>2
  <2>5. CASE TopCall.at # 0
    <3>1. m' = [m EXCEPT ![x].trav = Walks(TopCall.takes)]
      BY <1>5, <2>5 DEF StepReturn
    <3>2. m'[x].trav # Dummy /\ \A y \in Type \ {x} : m'[y] = m[y]
      <4>1. Walks(TopCall.takes) # Dummy
        BY DEF Walks, Dummy
      <4>2. m'[x].trav = Walks(TopCall.takes) /\ \A y \in Type \ {x} : m'[y] = m[y]
        BY <2>4, <3>1, TravSet
      <4> QED BY <4>1, <4>2
    <3>3. \A i \in 1..n : calls[i].type # x
      BY <2>2, <2>5 DEF Dummies
    <3>4. \A i \in 1..n : calls'[i].type # Target /\ m'[calls'[i].type].trav = Dummy
      <4> SUFFICES ASSUME NEW i \in 1..n
                   PROVE  calls'[i].type # Target /\ m'[calls'[i].type].trav = Dummy
        OBVIOUS
      <4>1. /\ i \in DOMAIN calls /\ calls[i].at # 0 /\ calls'[i].type = calls[i].type
            /\ calls[i].type \in Type \ {x}
        BY <1>0, <2>2, <3>3
      <4>2. calls[i].type # Target /\ m[calls[i].type].trav = Dummy
        BY <4>1 DEF Dummies
      <4> QED BY <4>1, <4>2, <3>2
    <3>5. \A y \in Type : m'[y].trav = Dummy => \E i \in 1..n : calls'[i].type = y
      <4> SUFFICES ASSUME NEW y \in Type, m'[y].trav = Dummy
                   PROVE  \E i \in 1..n : calls'[i].type = y
        OBVIOUS
      <4>1. y # x /\ m[y].trav = Dummy
        BY <3>2
      <4>2. PICK i \in DOMAIN calls : calls[i].type = y
        BY <4>1 DEF Dummies
      <4> QED BY <2>2, <2>3, <4>1, <4>2
    <3> QED BY <2>2, <3>4, <3>5 DEF Dummies
  <2>6. CASE TopCall.at = 0
    <3>1. \A y \in Type :
            /\ m[y].trav = Dummy => m'[y].trav = Dummy
            /\ m'[y].trav = Dummy => m[y].trav = Dummy
      <4>1. CASE m' = m
        BY <4>1
      <4>2. CASE m'[x].trav = m[x].trav /\ \A y \in Type \ {x} : m'[y] = m[y]
        BY <4>2
      <4>3. CASE m[x].trav = NoTrav /\ m' = [m EXCEPT ![x].trav = Calls]
        BY <2>4, <4>3, TravSet DEF Calls, Dummy, NoTrav
      <4> QED BY <1>5, <2>6, <4>1, <4>2, <4>3 DEF StepReturn, Change
    <3>2. \A i \in 1..n : calls'[i].type # Target /\ m'[calls'[i].type].trav = Dummy
      BY <1>0, <2>2, <3>1 DEF Dummies
    <3>3. \A y \in Type : m'[y].trav = Dummy => \E i \in 1..n : calls'[i].type = y
      BY <2>2, <2>3, <2>6, <3>1 DEF Dummies
    <3> QED BY <2>2, <3>2, <3>3 DEF Dummies
  <2> QED BY <2>5, <2>6
<1>6. CASE StepPrime
  <2> DEFINE l == Len(calls)
             x == TopCall.type
  <2>1. /\ DOMAIN calls' = DOMAIN calls /\ l \in DOMAIN calls /\ TopCall = calls[l]
        /\ calls'[l].type = x /\ calls'[l].at = 1 /\ x \in Type /\ calls[l].at = 0
        /\ \A i \in DOMAIN calls : i # l => calls'[i] = calls[i]
    BY <1>6, Priming
  <2>2. m[x].trav = NoTrav /\ x # Target /\ m' = [m EXCEPT ![x].trav = Dummy]
    BY <1>6 DEF StepPrime
  <2> HIDE DEF l
  <2>3. m'[x].trav = Dummy /\ \A y \in Type \ {x} : m'[y] = m[y]
    <3>1. x \in Type /\ m' = [m EXCEPT ![x].trav = Dummy]
      BY <2>1, <2>2
    <3> HIDE DEF x
    <3> QED BY <3>1, TravSet
  <2>4. \A i \in DOMAIN calls : calls[i].at # 0 => calls[i].type # x /\ i # l
    BY <2>1, <2>2 DEF Dummies, Dummy, NoTrav
  <2>5. ASSUME NEW i \in DOMAIN calls, calls'[i].at # 0
        PROVE  calls'[i].type # Target /\ m'[calls'[i].type].trav = Dummy
    <3>1. CASE i = l
      BY <2>1, <2>2, <2>3, <3>1
    <3>2. CASE i # l
      BY <1>0, <2>1, <2>3, <2>4, <2>5, <3>2 DEF Dummies
    <3> QED BY <3>1, <3>2
  <2>6. \A i, j \in DOMAIN calls :
          calls'[i].at # 0 /\ calls'[j].at # 0 /\ calls'[i].type = calls'[j].type => i = j
    BY <2>1, <2>4 DEF Dummies
  <2>7. ASSUME NEW y \in Type, m'[y].trav = Dummy
        PROVE  \E i \in DOMAIN calls : calls'[i].at # 0 /\ calls'[i].type = y
    <3>1. CASE y = x
      BY <2>1, <3>1
    <3>2. CASE y # x
      BY <2>1, <2>3, <2>4, <2>7, <3>2 DEF Dummies
    <3> QED BY <3>1, <3>2
  <2> QED BY <2>1, <2>5, <2>6, <2>7 DEF Dummies
<1> QED BY <1>2, <1>3, <1>4, <1>5, <1>6 DEF AnyStep

-----------------------------------------------------------------------------
(* What is known is right.                                                 *)

(* The facts about the k-th visit once it is done with the components      *)
(* before the n-th and has the answer r.                                   *)
VisitSound(k, n, r) ==
  LET x == visits[k].type
  IN  /\ r = "no" /\ Straight(x)
         => \A j \in DOMAIN Of(x) : j < n => ~ CanHold(Of(x)[j].type)
      /\ r # "yes" /\ Straight(x)
         => \A j \in DOMAIN Of(x) :
              j < n /\ Of(x)[j].public => Of(x)[j].type \in Dead(Below(k)) \cup Below(k)

LEMMA VisitsSound ==
  ASSUME NoSoFar, DeadEnds, NEW k \in DOMAIN visits
  PROVE  VisitSound(k, visits[k].at, m[visits[k].type].reach)
BY DEF NoSoFar, DeadEnds, VisitSound

(* A component's answer a, taken in.                                       *)
LEMMA AnswerTaken ==
  ASSUME Typed, Stacks, Sound, NEW k \in DOMAIN visits, More(visits[k]), Part(visits[k]).public,
         NEW a \in Knowledge,
         a = "yes" => CanHold(Part(visits[k]).type),
         a = "no" /\ Straight(visits[k].type) => ~ CanHold(Part(visits[k]).type),
         a # "yes" /\ Straight(visits[k].type)
           => Part(visits[k]).type \in Dead(Below(k)) \cup Below(k)
  PROVE  LET r == Combined(visits[k], m[visits[k].type].reach, a)
         IN  /\ r = "yes" => CanHold(visits[k].type)
             /\ VisitSound(k, visits[k].at + 1, r)
<1> DEFINE f == visits[k]
           x == f.type
           old == m[x].reach
           r == Combined(f, old, a)
<1>1. /\ x \in Type /\ f.at \in Nat \ {0} /\ decl \in Decls /\ ~ Leaf(x) /\ x # Target
      /\ f.at \in DOMAIN Of(x) /\ Of(x)[f.at] = Part(f)
      /\ DOMAIN Of(x) = 1..Len(Of(x)) /\ Len(Of(x)) \in Nat
      /\ old \in Knowledge
  BY Tops, DeclIs, CallTypes DEF Typed, Stacks, VisitsChain, Leaf, More, Part
<1>2. /\ f.at = 1 => old = "dontKnow"
      /\ decl[x].kind = "struct" => old # "no"
  BY DEF Stacks, Fresh
<1>3. VisitSound(k, f.at, old) /\ (old = "yes" => CanHold(x))
  BY <1>1, VisitsSound DEF Sound, YesSound
<1>4. /\ r = "yes" => a = "yes" \/ old = "yes"
      /\ r = "no" => a = "no" /\ (f.at = 1 \/ old = "no")
      /\ r # "yes" => a # "yes" /\ old # "yes"
  BY <1>1, <1>2 DEF Combined, Or, Knowledge
<1>5. CanHold(Part(f).type) => CanHold(x)
  BY <1>1, PartLeads, LedTo
<1> HIDE DEF r, old
<1>6. \A j \in DOMAIN Of(x) : j < f.at + 1 => j = f.at \/ j < f.at
  BY <1>1
<1>7. f.at = 1 => \A j \in DOMAIN Of(x) : ~ (j < f.at)
  BY <1>1
<1>8. r = "yes" => CanHold(x)
  BY <1>3, <1>4, <1>5
<1>9. ASSUME r = "no", Straight(x), NEW j \in DOMAIN Of(x), j < f.at + 1
      PROVE  ~ CanHold(Of(x)[j].type)
  <2>1. CASE j = f.at
    BY <1>1, <1>4, <1>9, <2>1
  <2>2. CASE j < f.at
    BY <1>3, <1>4, <1>7, <1>9, <2>2 DEF VisitSound
  <2> QED BY <1>6, <1>9, <2>1, <2>2
<1>10. ASSUME r # "yes", Straight(x), NEW j \in DOMAIN Of(x), j < f.at + 1, Of(x)[j].public
       PROVE  Of(x)[j].type \in Dead(Below(k)) \cup Below(k)
  <2>1. CASE j = f.at
    BY <1>1, <1>4, <1>10, <2>1
  <2>2. CASE j < f.at
    BY <1>3, <1>4, <1>10, <2>2 DEF VisitSound
  <2> QED BY <1>6, <1>10, <2>1, <2>2
<1> QED BY <1>8, <1>9, <1>10 DEF VisitSound, r, old

(* A "no" from a type that is being visited is misleading.                 *)
LEMMA AnswerKnown ==
  ASSUME Typed, Stacks, Sound, visits # <<>>, More(TopVisit), Part(TopVisit).public,
         Known(Part(TopVisit).type)
  PROVE  LET x == TopVisit.type
             c == Part(TopVisit).type
         IN  /\ m[c].reach = "yes" => CanHold(c)
             /\ m[c].reach = "no" /\ Straight(x) => ~ CanHold(c)
             /\ m[c].reach # "yes" /\ Straight(x)
                => c \in Dead(Below(Len(visits))) \cup Below(Len(visits))
<1> DEFINE n == Len(visits)
           x == TopVisit.type
           c == Part(TopVisit).type
<1>1. /\ n \in Nat /\ n \in DOMAIN visits /\ DOMAIN visits = 1..n /\ TopVisit = visits[n]
      /\ x \in Type /\ decl \in Decls
  BY Tops DEF Typed, TopVisit
<1>2. ~ Leaf(x) /\ TopVisit.at \in DOMAIN Of(x) /\ Of(x)[TopVisit.at] = Part(TopVisit)
  BY <1>1 DEF Stacks, VisitsChain, More, Part
<1>3. c \in From(x) /\ c \in Type
  BY <1>1, <1>2, PartLeads DEF Leaf
<1>4. Straight(x) => Straight(c)
  BY <1>1, <1>3, LedTo
<1>5. m[c].reach = "yes" => CanHold(c)
  BY <1>3 DEF Sound, YesSound
<1> HIDE DEF n, x, c
<1>6. ASSUME m[c].reach = "no", Straight(x), m[c].visiting
      PROVE  FALSE
  <2>1. PICK j \in 1..n : visits[j].type = c
    BY <1>1, <1>3, <1>6 DEF Stacks, Marked
  <2> DEFINE v == visits[j]
  <2>2. /\ j < n => More(v) /\ x \in From(Part(v).type)
        /\ v.at \in 1..(Len(Of(c)) + 1)
    BY <1>1, <2>1 DEF Stacks, VisitsChain, x
  <2>3. More(v) /\ Part(v).type \in Type /\ c \in From(Part(v).type)
    <3>1. CASE j = n
      <4>1. v = TopVisit
        BY <3>1, <1>1
      <4> QED BY <4>1, <1>1, <1>3, Leads DEF c
    <3>2. CASE j # n
      <4>1. j < n
        BY <3>2, <1>1
      <4>2. More(v) /\ x \in From(Part(v).type) /\ Part(v).type \in Type
        BY <2>1, <2>2, <4>1, <1>3, PartTyped
      <4>3. From(x) \subseteq From(Part(v).type)
        BY <1>1, <4>2, Leads
      <4> QED BY <1>3, <4>2, <4>3
    <3> QED BY <3>1, <3>2
  <2>4. decl[c].kind # "struct" /\ v.at # 1
    BY <1>1, <1>6, <2>1 DEF Stacks, Fresh
  <2>5. /\ Len(Of(c)) \in 0..2 /\ DOMAIN Of(c) = 1..Len(Of(c))
        /\ Len(Of(c)) = 2 => decl[c].kind = "map"
    BY <1>1, <1>3, <2>4, DeclIs
  <2>6. v.at \in DOMAIN Of(c) /\ Part(v) = Of(c)[v.at]
    BY <2>1, <2>3 DEF More, Part
  <2> HIDE DEF v
  <2>7. v.at = 2 /\ decl[c].kind = "map" /\ 1 \in DOMAIN Of(c) /\ 1 < v.at
    BY <2>4, <2>5, <2>6
  <2>8. ~ CanHold(Of(c)[1].type)
    BY <1>1, <1>4, <1>6, <2>1, <2>7 DEF Sound, NoSoFar, v
  <2>9. Misleading(c)
    BY <2>3, <2>6, <2>7, <2>8 DEF Misleading
  <2> QED BY <1>3, <1>6, <2>9 DEF Straight
<1>7. m[c].reach = "no" /\ Straight(x) => ~ CanHold(c)
  BY <1>3, <1>4, <1>6 DEF Sound, NoSound
<1>8. ASSUME m[c].reach # "yes", Straight(x)
      PROVE  c \in Dead(Below(n)) \cup Below(n)
  <2>1. CASE m[c].visiting
    BY <1>1, <1>3, <2>1 DEF Stacks, Marked, Below
  <2>2. CASE ~ m[c].visiting
    <3>1. m[c].reach \in Knowledge
      BY <1>3, CallTypes DEF Typed
    <3>2. m[c].reach = "no"
      BY <1>8, <2>2, <3>1 DEF Known, Knowledge, c
    <3> QED BY <1>1, <1>3, <1>7, <1>8, <3>2, HoldsNone
  <2> QED BY <2>1, <2>2
<1> QED BY <1>5, <1>7, <1>8 DEF n, x, c

LEMMA VisitOver ==
  ASSUME Typed, Stacks, Sound, visits # <<>>, ~ More(TopVisit)
  PROVE  LET x == TopVisit.type
         IN  /\ m[x].reach = "no" /\ Straight(x) => ~ CanHold(x)
             /\ m[x].reach # "yes" /\ Straight(x) => x \in Dead(Below(Len(visits) - 1))
<1> DEFINE n == Len(visits) - 1
           x == TopVisit.type
<1>1. /\ n \in Nat /\ n + 1 \in DOMAIN visits /\ Len(visits) = n + 1 /\ TopVisit = visits[n + 1]
      /\ x \in Type /\ decl \in Decls
  BY Tops DEF Typed, TopVisit
<1>2. ~ Leaf(x) /\ TopVisit.at \in 1..(Len(Of(x)) + 1)
      /\ DOMAIN Of(x) = 1..Len(Of(x)) /\ Len(Of(x)) \in Nat
  BY <1>1, DeclIs DEF Stacks, VisitsChain
<1>3. \A j \in DOMAIN Of(x) : j < TopVisit.at
  BY <1>2 DEF More
<1>4. VisitSound(n + 1, TopVisit.at, m[x].reach)
  BY <1>1, VisitsSound DEF Sound
<1> HIDE DEF n, x
<1>5. Below(n + 1) = Below(n) \cup {x}
  <2>1. \A k \in 1..(n + 1) : k = n + 1 \/ k \in 1..n
    BY <1>1
  <2>2. n + 1 \in 1..(n + 1) /\ \A k \in 1..n : k \in 1..(n + 1)
    BY <1>1
  <2> QED BY <1>1, <2>1, <2>2 DEF Below, x
<1>6. m[x].reach = "no" /\ Straight(x) => ~ CanHold(x)
  BY <1>1, <1>2, <1>3, <1>4, HoldsByPart DEF VisitSound, x
<1>7. m[x].reach # "yes" /\ Straight(x) => x \in Dead(Below(n))
  BY <1>1, <1>2, <1>3, <1>4, <1>5, DeadBelow DEF VisitSound, x
<1> QED BY <1>6, <1>7 DEF n, x

(* Where only the n-th visit, now the last, has an answer of its own.      *)
LEMMA SoundGoesOn ==
  ASSUME Typed, Typed', Stacks, Sound, decl' = decl,
         NEW n \in Nat, n = Len(visits) \/ n + 1 = Len(visits), VisitsGoOn(n),
         \A i \in 1..n : i # n => m'[visits[i].type] = m[visits[i].type],
         n # 0 => VisitSound(n, visits[n].at + 1, m'[visits[n].type].reach)
  PROVE  NoSoFar' /\ DeadEnds'
<1>0. /\ DOMAIN visits' = 1..n /\ DOMAIN visits = 1..Len(visits) /\ Len(visits) \in Nat
      /\ \A i \in 1..n : i \in DOMAIN visits
  BY DEF Typed, VisitsGoOn
<1>1. /\ \A i \in 1..n : visits'[i].type = visits[i].type
      /\ \A i \in 1..n : i # n => visits'[i].at = visits[i].at
      /\ n # 0 => visits'[n].at = visits[n].at + 1
  BY DEF VisitsGoOn
<1>2. \A i \in 1..n : VisitSound(i, visits'[i].at, m'[visits'[i].type].reach)
  <2> TAKE i \in 1..n
  <2>1. CASE i = n
    <3>1. n # 0
      BY <2>1
    <3> QED BY <1>1, <2>1, <3>1
  <2>2. CASE i # n
    <3>1. VisitSound(i, visits[i].at, m[visits[i].type].reach)
      BY <1>0, VisitsSound DEF Sound
    <3> QED BY <1>1, <2>2, <3>1
  <2> QED BY <2>1, <2>2
<1>3. \A i \in 1..n : Below(i)' = Below(i)
  <2> TAKE i \in 1..n
  <2>1. \A k \in 1..i : k \in 1..n
    OBVIOUS
  <2> QED BY <1>1, <2>1 DEF Below
<1>4. ASSUME NEW i \in 1..n
      PROVE  LET x == visits'[i].type
             IN  /\ m'[x].reach = "no" /\ Straight(x)
                    => \A j \in DOMAIN Of(x) : j < visits'[i].at => ~ CanHold(Of(x)[j].type)
                 /\ m'[x].reach # "yes" /\ Straight(x)
                    => \A j \in DOMAIN Of(x) :
                         j < visits'[i].at /\ Of(x)[j].public
                         => Of(x)[j].type \in Dead(Below(i)) \cup Below(i)
  BY <1>1, <1>2 DEF VisitSound
<1>5. NoSoFar'
  BY <1>0, <1>4, Fixed DEF NoSoFar
<1>6. \A i \in 1..n : Dead(Below(i))' = Dead(Below(i))
  BY <1>3, Fixed
<1>7. DeadEnds'
  <2> SUFFICES ASSUME NEW i \in 1..n, NEW x, x = visits'[i].type,
                      m'[x].reach # "yes", Straight(x),
                      NEW j \in DOMAIN Of(x), j < visits'[i].at, Of(x)[j].public
               PROVE  Of(x)[j].type \in Dead(Below(i))' \cup Below(i)'
    BY <1>0, Fixed DEF DeadEnds
  <2> QED BY <1>3, <1>4, <1>6
<1> QED BY <1>5, <1>7

LEMMA EnteredSound ==
  ASSUME Typed, Typed', Stacks, Sound, decl' = decl, NEW x \in Type, Entered(x)
  PROVE  YesSound' /\ NoSound' /\ NoSoFar' /\ DeadEnds'
<1>0. /\ decl \in Decls /\ Fresh /\ Marked
      /\ DOMAIN visits = 1..Len(visits) /\ Len(visits) \in Nat
      /\ DOMAIN visits' = 1..Len(visits')
      /\ \A i \in DOMAIN visits : visits[i].type \in Type /\ m[visits[i].type].visiting
  BY Tops DEF Typed, Stacks, Marked
<1>1. CASE EnterNone(x)
  <2>1. m' = m /\ visits' = visits
    BY <1>1 DEF EnterNone
  <2>2. YesSound' /\ NoSound' /\ NoSoFar'
    BY <2>1, Fixed DEF Sound, YesSound, NoSound, NoSoFar
  <2>3. \A i : Below(i)' = Below(i)
    BY <2>1 DEF Below
  <2>4. \A i : Dead(Below(i))' = Dead(Below(i))
    BY <2>3, Fixed
  <2>5. DeadEnds'
    BY <2>1, <2>3, <2>4, Fixed DEF Sound, DeadEnds
  <2> QED BY <2>2, <2>5
<1>2. \A i \in DOMAIN visits : m'[visits[i].type] = m[visits[i].type]
  BY <1>0, EnteredKeeps
<1>3. CASE EnterLeaf(x)
  <2>1. /\ visits' = visits /\ m'[x].reach = "yes" /\ Leaf(x)
        /\ \A y \in Type \ {x} : m'[y] = m[y]
    BY <1>3 DEF EnterLeaf, Only
  <2>2. CanHold(x)
    BY <1>0, <2>1, LeafHolds
  <2>3. \A y \in Type : m'[y].reach = "yes" => CanHold(y)
    BY <2>1, <2>2 DEF Sound, YesSound
  <2>4. \A y \in Type : m'[y].reach = "no" /\ ~ m'[y].visiting /\ Straight(y) => ~ CanHold(y)
    BY <2>1 DEF Sound, NoSound
  <2>5. YesSound' /\ NoSound'
    BY <2>3, <2>4, Fixed DEF YesSound, NoSound
  <2>6. NoSoFar'
    BY <1>2, <2>1, Fixed DEF Sound, NoSoFar
  <2>7. \A i : Below(i)' = Below(i)
    BY <2>1 DEF Below
  <2>8. \A i : Dead(Below(i))' = Dead(Below(i))
    BY <2>7, Fixed
  <2>9. DeadEnds'
    BY <1>2, <2>1, <2>7, <2>8, Fixed DEF Sound, DeadEnds
  <2> QED BY <2>5, <2>6, <2>9
<1>4. CASE EnterVisit(x)
  <2> DEFINE n == Len(visits)
  <2>1. /\ m'[x].reach = "dontKnow" /\ \A y \in Type \ {x} : m'[y] = m[y]
        /\ Len(visits') = n + 1 /\ visits'[n + 1].type = x /\ visits'[n + 1].at = 1
        /\ \A i \in 1..n : visits'[i] = visits[i]
    BY <1>4 DEF EnterVisit, Only
  <2> HIDE DEF n
  <2>2. n \in Nat /\ DOMAIN visits = 1..n /\ DOMAIN visits' = 1..(n + 1)
    BY <1>0, <2>1 DEF n
  <2>3. \A i \in 1..(n + 1) : i = n + 1 \/ i \in 1..n
    BY <2>2
  <2>4. \A y \in Type : m'[y].reach = "yes" => CanHold(y)
    BY <2>1 DEF Sound, YesSound
  <2>5. \A y \in Type : m'[y].reach = "no" /\ ~ m'[y].visiting /\ Straight(y) => ~ CanHold(y)
    BY <2>1 DEF Sound, NoSound
  <2>6. YesSound' /\ NoSound'
    BY <2>4, <2>5, Fixed DEF YesSound, NoSound
  <2>7. \A j \in DOMAIN Of(x) : ~ (j < 1)
    BY <1>0, DeclIs
  <2>8. \A i \in 1..n : Below(i)' = Below(i)
    <3> TAKE i \in 1..n
    <3>1. \A k \in 1..i : k \in 1..n
      BY <2>2
    <3> QED BY <2>1, <3>1 DEF Below
  <2>9. ASSUME NEW i \in 1..(n + 1)
        PROVE  LET y == visits'[i].type
               IN  /\ m'[y].reach = "no" /\ Straight(y)
                      => \A j \in DOMAIN Of(y) : j < visits'[i].at => ~ CanHold(Of(y)[j].type)
                   /\ m'[y].reach # "yes" /\ Straight(y)
                      => \A j \in DOMAIN Of(y) :
                           j < visits'[i].at /\ Of(y)[j].public
                           => Of(y)[j].type \in Dead(Below(i)') \cup Below(i)'
    <3>1. CASE i = n + 1
      BY <2>1, <2>7, <3>1
    <3>2. CASE i \in 1..n
      <4>1. VisitSound(i, visits[i].at, m[visits[i].type].reach)
        BY <2>2, <3>2, VisitsSound DEF Sound
      <4>2. visits'[i] = visits[i] /\ m'[visits[i].type] = m[visits[i].type]
        BY <1>2, <2>1, <2>2, <3>2
      <4> QED BY <2>8, <3>2, <4>1, <4>2 DEF VisitSound
    <3> QED BY <2>3, <3>1, <3>2
  <2>10. NoSoFar'
    BY <2>2, <2>9, Fixed DEF NoSoFar
  <2>11. DeadEnds'
    BY <2>2, <2>9, Fixed DEF DeadEnds
  <2> QED BY <2>6, <2>10, <2>11
<1> QED BY <1>1, <1>3, <1>4 DEF Entered

LEMMA SoundStep ==
  ASSUME Typed, Typed', Stacks, Sound, AnyStep
  PROVE  YesSound' /\ NoSound' /\ NoSoFar' /\ DeadEnds'
<1>0. /\ decl \in Decls /\ decl' = decl /\ Fresh /\ Marked
      /\ DOMAIN visits = 1..Len(visits) /\ Len(visits) \in Nat
      /\ \A i \in DOMAIN visits : visits[i].type \in Type /\ visits[i].at \in Nat
      /\ visits # <<>> => /\ Len(visits) # 0 /\ TopVisit = visits[Len(visits)]
                          /\ TopVisit.type \in Type /\ Len(visits) \in DOMAIN visits
  BY Tops DEF Typed, Stacks, TopVisit, AnyStep, StepDo, StepHidden, StepNew, StepKnown, StepEnds,
              StepReturn, StepPrime, StepTake, Rest
<1>1. CASE \E x \in Type : StepDo(x)
  BY <1>0, <1>1, EnteredSound DEF StepDo
<1>2. CASE StepNew
  BY <1>0, <1>2, EnteredSound, PartTyped DEF StepNew
<1>3. CASE StepTake
  <2>1. TopCall.type \in Type
    BY <1>3, Tops DEF StepTake, TopCall
  <2> QED BY <1>0, <1>3, <2>1, EnteredSound, PartTyped DEF StepTake
<1>4. CASE StepHidden
  <2> DEFINE n == Len(visits)
             x == TopVisit.type
  <2>1. /\ VisitsGoOn(n) /\ m' = m /\ More(TopVisit) /\ ~ Part(TopVisit).public
        /\ n \in Nat /\ n \in DOMAIN visits /\ TopVisit = visits[n] /\ x \in Type
    BY <1>0, <1>4 DEF StepHidden
  <2>2. /\ TopVisit.at \in DOMAIN Of(x) /\ ~ Of(x)[TopVisit.at].public
        /\ decl[x].kind = "struct" /\ DOMAIN Of(x) = 1..Len(Of(x)) /\ Len(Of(x)) \in Nat
    BY <1>0, <2>1, DeclIs DEF More, Part
  <2> HIDE DEF n
  <2>3. m[x].reach # "no" /\ VisitSound(n, TopVisit.at, m[x].reach)
    BY <2>1, <2>2, <1>0, VisitsSound DEF Fresh, Sound
  <2>4. \A j \in DOMAIN Of(x) : j < TopVisit.at + 1 => j < TopVisit.at \/ j = TopVisit.at
    BY <2>2
  <2>5. VisitSound(n, TopVisit.at + 1, m[x].reach)
    BY <2>1, <2>2, <2>3, <2>4 DEF VisitSound
  <2>6. NoSoFar' /\ DeadEnds'
    BY <1>0, <2>1, <2>5, SoundGoesOn DEF n
  <2> QED BY <1>0, <2>1, <2>6, Fixed DEF Sound, YesSound, NoSound
<1>5. CASE StepKnown
  <2> DEFINE n == Len(visits)
             x == TopVisit.type
             c == Part(TopVisit).type
  <2>1. /\ VisitsGoOn(n) /\ More(TopVisit) /\ Part(TopVisit).public /\ Known(c) /\ visits # <<>>
        /\ m'[x].reach = Combined(TopVisit, m[x].reach, m[c].reach)
        /\ m'[x].visiting = m[x].visiting
        /\ \A y \in Type \ {x} : m'[y] = m[y]
    BY <1>5 DEF StepKnown, Change
  <2>2. /\ n \in Nat /\ n \in DOMAIN visits /\ DOMAIN visits = 1..n /\ TopVisit = visits[n]
        /\ x \in Type /\ c \in Type /\ m[c].reach \in Knowledge
    BY <1>0, <2>1, PartTyped, CallTypes DEF Typed
  <2>3. /\ m[c].reach = "yes" => CanHold(c)
        /\ m[c].reach = "no" /\ Straight(x) => ~ CanHold(c)
        /\ m[c].reach # "yes" /\ Straight(x) => c \in Dead(Below(n)) \cup Below(n)
    BY <2>1, AnswerKnown
  <2>4. (m'[x].reach = "yes" => CanHold(x)) /\ VisitSound(n, TopVisit.at + 1, m'[x].reach)
    BY <2>1, <2>2, <2>3, AnswerTaken
  <2>5. m[x].visiting /\ \A i \in 1..n : i # n => visits[i].type # x
    BY <1>0, <2>2 DEF Marked
  <2>6. \A i \in 1..n : i # n => m'[visits[i].type] = m[visits[i].type]
    BY <1>0, <2>1, <2>2, <2>5
  <2>7. NoSoFar' /\ DeadEnds'
    BY <1>0, <2>1, <2>2, <2>4, <2>6, SoundGoesOn
  <2> HIDE DEF x
  <2>8. \A y \in Type : m'[y].reach = "yes" => CanHold(y)
    BY <2>1, <2>4 DEF Sound, YesSound
  <2>9. \A y \in Type : m'[y].reach = "no" /\ ~ m'[y].visiting /\ Straight(y) => ~ CanHold(y)
    BY <2>1, <2>5 DEF Sound, NoSound
  <2> QED BY <1>0, <2>7, <2>8, <2>9, Fixed DEF YesSound, NoSound
<1>6. CASE StepEnds
  <2> DEFINE n == Len(visits) - 1
             x == TopVisit.type
             u == visits[n]
             w == u.type
  <2>1. /\ visits # <<>> /\ ~ More(TopVisit) /\ VisitsGoOn(n)
        /\ m'[x].reach = m[x].reach
        /\ n # 0 => /\ m'[w].reach = Combined(u, m[w].reach, m[x].reach)
                    /\ m'[w].visiting = m[w].visiting
        /\ \A y \in Type \ {x} : n = 0 \/ y # w => m'[y] = m[y]
    BY <1>6 DEF StepEnds, Change
  <2>2. /\ n \in Nat /\ n + 1 = Len(visits) /\ n + 1 \in DOMAIN visits
        /\ DOMAIN visits = 1..(n + 1) /\ TopVisit = visits[n + 1] /\ x \in Type
        /\ m[x].reach \in Knowledge
    BY <1>0, <2>1, CallTypes DEF Typed
  <2>3. /\ m[x].reach = "no" /\ Straight(x) => ~ CanHold(x)
        /\ m[x].reach # "yes" /\ Straight(x) => x \in Dead(Below(n))
    BY <2>1, VisitOver
  <2>4. m[x].reach = "yes" => CanHold(x)
    BY <2>2 DEF Sound, YesSound
  <2> HIDE DEF n
  <2>5. n # 0 => n \in DOMAIN visits /\ n \in 1..n /\ w \in Type /\ m[w].visiting
    BY <1>0, <2>2 DEF Marked
  <2>6. n # 0 => /\ m'[w].reach = "yes" => CanHold(w)
                 /\ VisitSound(n, u.at + 1, m'[w].reach)
    <3> SUFFICES ASSUME n # 0
                 PROVE  /\ m'[w].reach = "yes" => CanHold(w)
                        /\ VisitSound(n, u.at + 1, m'[w].reach)
      OBVIOUS
    <3>1. n < n + 1 /\ n \in DOMAIN visits
      BY <2>2, <2>5
    <3>2. More(u) /\ Part(u).public /\ Part(u).type = x /\ ~ Leaf(w)
      BY <2>2, <3>1 DEF Stacks, VisitsChain
    <3>3. x \in From(w)
      <4>1. u.at \in DOMAIN Of(w) /\ Of(w)[u.at] = Part(u) /\ w # Target
        BY <3>2 DEF More, Part, Leaf
      <4> QED BY <1>0, <2>5, <3>2, <4>1, PartLeads
    <3>4. Straight(w) => Straight(x)
      BY <1>0, <2>5, <3>3, LedTo
    <3>5. /\ m[x].reach = "yes" => CanHold(Part(u).type)
          /\ m[x].reach = "no" /\ Straight(w) => ~ CanHold(Part(u).type)
          /\ m[x].reach # "yes" /\ Straight(w)
             => Part(u).type \in Dead(Below(n)) \cup Below(n)
      BY <2>3, <2>4, <3>2, <3>4
    <3> QED BY <2>1, <2>2, <3>1, <3>2, <3>5, AnswerTaken
  <2>7. \A i \in 1..n : i \in DOMAIN visits /\ i # n + 1
    BY <2>2
  <2>8. \A i \in 1..n : i # n => visits[i].type # x /\ visits[i].type # w /\ visits[i].type \in Type
    BY <1>0, <2>2, <2>5, <2>7 DEF Marked
  <2>9. \A i \in 1..n : i # n => m'[visits[i].type] = m[visits[i].type]
    BY <2>1, <2>8
  <2>10. NoSoFar' /\ DeadEnds'
    BY <1>0, <2>1, <2>2, <2>6, <2>9, SoundGoesOn
  <2> HIDE DEF x, w
  <2>11. \A y \in Type : m'[y].reach = "yes" => CanHold(y)
    BY <2>1, <2>4, <2>6 DEF Sound, YesSound
  <2>12. \A y \in Type : m'[y].reach = "no" /\ ~ m'[y].visiting /\ Straight(y) => ~ CanHold(y)
    <3> SUFFICES ASSUME NEW y \in Type, m'[y].reach = "no", ~ m'[y].visiting, Straight(y)
                 PROVE  ~ CanHold(y)
      OBVIOUS
    <3>1. CASE y = x
      BY <2>1, <2>3, <3>1
    <3>2. CASE y # x
      <4>1. n = 0 \/ y # w
        BY <2>1, <2>5
      <4> QED BY <2>1, <3>2, <4>1 DEF Sound, NoSound
    <3> QED BY <3>1, <3>2
  <2> QED BY <1>0, <2>10, <2>11, <2>12, Fixed DEF YesSound, NoSound
<1>7. CASE StepReturn \/ StepPrime
  <2> DEFINE x == TopCall.type
  <2>1. /\ calls # <<>> /\ visits = <<>> /\ visits' = <<>> /\ x \in Type
        /\ \A y \in Type :
             /\ m'[y].visiting = m[y].visiting
             /\ \/ m'[y].reach = m[y].reach
                \/ /\ y = x /\ TopCall.at = 0
                   /\ m[y].reach = "dontKnow" /\ m'[y].reach = "no"
    BY <1>7, Quiet
  <2>2. m[x].reach = "dontKnow" /\ TopCall.at = 0 /\ Straight(x) => ~ CanHold(x)
    BY <2>1 DEF Sound, Answer
  <2> HIDE DEF x
  <2>3. \A y \in Type : m'[y].reach = "yes" => CanHold(y)
    BY <2>1 DEF Sound, YesSound
  <2>4. \A y \in Type : m'[y].reach = "no" /\ ~ m'[y].visiting /\ Straight(y) => ~ CanHold(y)
    BY <2>1, <2>2 DEF Sound, NoSound
  <2>5. NoSoFar' /\ DeadEnds'
    BY <2>1 DEF NoSoFar, DeadEnds
  <2> QED BY <1>0, <2>3, <2>4, <2>5, Fixed DEF YesSound, NoSound
<1> QED BY <1>1, <1>2, <1>3, <1>4, <1>5, <1>6, <1>7 DEF AnyStep

LEMMA AnswerStep ==
  ASSUME Typed, Typed', Stacks, CallsChain, Sound, AnyStep
  PROVE  Answer'
<1>0. /\ decl \in Decls
      /\ (visits # <<>> <=> Len(visits) # 0) /\ (visits' # <<>> <=> Len(visits') # 0)
      /\ Len(visits) \in Nat /\ Len(visits') \in Nat
      /\ (calls' # <<>> <=> Len(calls') # 0) /\ Len(calls) \in Nat /\ Len(calls') \in Nat
  BY DEF Typed
<1>1. ASSUME NEW x \in Type, Entered(x), CallBegins(x), visits = <<>>
      PROVE  Answer'
  <2>1. Len(calls') = Len(calls) + 1 /\ calls'[Len(calls) + 1].type = x
    BY <1>1 DEF CallBegins
  <2>2. TopCall' = calls'[Len(calls) + 1]
    BY <2>1 DEF TopCall
  <2>3. visits' = <<>> => m'[x].reach # "dontKnow"
    <3>1. CASE EnterNone(x)
      <4>1. ~ m[x].visiting
        BY <1>1 DEF Stacks, Marked
      <4> QED BY <3>1, <4>1 DEF EnterNone, Known
    <3>2. CASE EnterLeaf(x)
      BY <3>2 DEF EnterLeaf, Only
    <3>3. CASE EnterVisit(x)
      BY <1>0, <3>3 DEF EnterVisit
    <3> QED BY <1>1, <3>1, <3>2, <3>3 DEF Entered
  <2> QED BY <2>1, <2>2, <2>3 DEF Answer
<1>2. CASE \E x \in Type : StepDo(x)
  <2>1. visits = <<>>
    BY <1>2 DEF StepDo, Stacks, VisitsServe
  <2> QED BY <1>1, <1>2, <2>1 DEF StepDo
<1>3. CASE StepTake
  <2>1. TopCall.type \in Type
    BY <1>3, Tops DEF StepTake, TopCall
  <2> QED BY <1>1, <1>3, <2>1, PartTyped DEF StepTake
<1>4. CASE StepNew
  <2>1. visits' # <<>>
    BY <1>0, <1>4 DEF StepNew, Entered, EnterNone, EnterLeaf, EnterVisit
  <2> QED BY <2>1 DEF Answer
<1>5. CASE StepHidden \/ StepKnown
  <2>1. visits' # <<>>
    BY <1>0, <1>5 DEF StepHidden, StepKnown, VisitsGoOn
  <2> QED BY <2>1 DEF Answer
<1>6. CASE StepEnds
  <2> DEFINE n == Len(visits) - 1
             x == TopVisit.type
  <2>1. /\ visits # <<>> /\ ~ More(TopVisit) /\ VisitsGoOn(n) /\ m'[x].reach = m[x].reach
        /\ calls' = calls /\ decl' = decl
    BY <1>6 DEF StepEnds, Change, Rest
  <2>2. m[x].reach # "yes" /\ Straight(x) => x \in Dead(Below(n))
    BY <2>1, VisitOver
  <2>3. TopCall.type = visits[1].type
    BY <2>1 DEF Stacks, VisitsServe
  <2>4. visits' = <<>> => n = 0
    BY <1>0, <2>1 DEF VisitsGoOn
  <2>5. n = 0 => TopVisit = visits[1] /\ Below(n) = {}
    <3> SUFFICES ASSUME n = 0 PROVE visits[Len(visits)] = visits[1] /\ Below(n) = {}
      BY DEF TopVisit
    <3>1. Len(visits) = 1
      BY <1>0
    <3>2. Below(0) = {}
      BY DEF Below
    <3> QED BY <3>1, <3>2
  <2>6. x \in Type
    BY <2>1, Tops DEF TopVisit
  <2>7. visits' = <<>> /\ m[x].reach # "yes" /\ Straight(x) => ~ CanHold(x)
    BY <1>0, <2>2, <2>4, <2>5, <2>6, HoldsNone
  <2>8. visits' = <<>> => TopCall' = TopCall /\ TopCall.type = x
    BY <2>1, <2>3, <2>4, <2>5 DEF TopCall
  <2> HIDE DEF n, x
  <2> QED BY <2>1, <2>7, <2>8, Fixed DEF Answer
<1>7. CASE StepReturn
  <2> DEFINE n == Len(calls) - 1
  <2>1. calls # <<>> /\ CallEnds
    BY <1>7 DEF StepReturn
  <2>2. n \in Nat /\ Len(calls') = n /\ \A i \in 1..n : calls'[i].at # 0
    BY <2>1, Ending DEF CallEnds
  <2>3. calls' # <<>> => TopCall'.at # 0
    <3> SUFFICES ASSUME calls' # <<>> PROVE calls'[Len(calls')].at # 0
      BY DEF TopCall
    <3> HIDE DEF n
    <3>1. n \in 1..n
      BY <1>0, <2>2
    <3> QED BY <2>2, <3>1
  <2> QED BY <2>3 DEF Answer
<1>8. CASE StepPrime
  <2>1. TopCall'.at = 1
    BY <1>8, Priming DEF TopCall
  <2> QED BY <2>1 DEF Answer
<1> QED BY <1>2, <1>3, <1>4, <1>5, <1>6, <1>7, <1>8 DEF AnyStep

-----------------------------------------------------------------------------
(* What is taken.                                                          *)

LEMMA CompleteFixed ==
  ASSUME decl' = decl
  PROVE  \A x, n, takes : Complete(x, n, takes)' <=> Complete(x, n, takes)
BY Fixed DEF Complete

(* The type a call was about has a traverser when it ends, or needs none.  *)
LEMMA Returned ==
  ASSUME Typed, Stacks, Sound, StepReturn
  PROVE  LET x == TopCall.type
         IN  m'[x].trav # NoTrav \/ (Straight(x) => ~ CanHold(x))
<1> DEFINE x == TopCall.type
<1>1. calls # <<>> /\ visits = <<>> /\ x \in Type
  BY Quiet
<1>2. ~ m[x].visiting
  BY <1>1 DEF Stacks, Marked
<1>3. CASE m' = m /\ (m[x].trav # NoTrav \/ m[x].reach = "no")
  BY <1>1, <1>2, <1>3 DEF Sound, NoSound
<1>4. CASE m[x].reach = "dontKnow" /\ TopCall.at = 0
  BY <1>1, <1>4 DEF Sound, Answer
<1>5. ASSUME NEW t, t # NoTrav, m' = [m EXCEPT ![x].trav = t]
      PROVE  m'[x].trav # NoTrav
  BY <1>1, <1>5, TravSet
<1>6. Calls # NoTrav /\ Walks(TopCall.takes) # NoTrav
  BY DEF Calls, Walks, NoTrav
<1> HIDE DEF x
<1> QED BY <1>3, <1>4, <1>5, <1>6 DEF StepReturn, x

LEMMA TakesReturn ==
  ASSUME Typed, Stacks, Callers, Sound, TakesAll, StepReturn
  PROVE  TakesAll'
<1> DEFINE x == TopCall.type
           n == Len(calls) - 1
<1>1. /\ calls # <<>> /\ CallEnds /\ x \in Type /\ decl' = decl /\ decl \in Decls
      /\ \A y \in Type : y # x => m'[y].trav = m[y].trav
  BY Quiet DEF StepReturn, Rest, Typed
<1>2. /\ n \in Nat /\ n + 1 = Len(calls) /\ DOMAIN calls' = 1..n /\ n + 1 \in DOMAIN calls
      /\ TopCall = calls[n + 1]
      /\ \A i \in 1..n : /\ i \in DOMAIN calls
                         /\ calls[i].at # 0 /\ More(calls[i])
                         /\ calls'[i].type = calls[i].type
                         /\ i # n => calls'[i] = calls[i]
      /\ n # 0 => /\ calls'[n].at = calls[n].at + 1
                  /\ calls[n + 1].type = Part(calls[n]).type
                  /\ calls'[n].takes
                       = calls[n].takes \cup TakeAt(m', calls[n].type, calls[n].at)
  BY <1>1, Ending DEF Callers
<1> HIDE DEF n
<1>3. ASSUME NEW y \in Type \ {Target}, m'[y].trav \notin {NoTrav, Dummy}
      PROVE  Complete(y, Len(Of(y)) + 1, m'[y].trav.takes)
  <2>1. CASE m'[y].trav = m[y].trav
    BY <1>3, <2>1 DEF TakesAll
  <2>2. CASE y = x /\ TopCall.at # 0
    <3>1. m' = [m EXCEPT ![x].trav = Walks(TopCall.takes)] /\ ~ More(TopCall)
      BY <2>2 DEF StepReturn
    <3>2. m'[x].trav = Walks(TopCall.takes)
      BY <1>1, <3>1, TravSet
    <3>3. m'[x].trav.takes = TopCall.takes
      BY <3>2 DEF Walks
    <3>4. Complete(x, TopCall.at, TopCall.takes)
      BY <1>2 DEF TakesAll
    <3>5. /\ TopCall.at \in 0..(Len(Of(x)) + 1) /\ TopCall.at \notin DOMAIN Of(x)
      BY <1>2, <3>1 DEF Callers, CallsChain, More
    <3>6. TopCall.at = Len(Of(x)) + 1
      BY <1>1, <2>2, <3>5, DeclIs
    <3> QED BY <2>2, <3>3, <3>4, <3>6
  <2>3. CASE y = x /\ TopCall.at = 0
    <3>1. m' = m \/ Change(x, "no", m[x].visiting)
      BY <1>3, <2>3 DEF StepReturn
    <3>2. m'[x].trav = m[x].trav
      BY <3>1 DEF Change
    <3> QED BY <2>1, <2>3, <3>2
  <2> QED BY <1>1, <2>1, <2>2, <2>3
<1>4. ASSUME NEW i \in 1..n
      PROVE  Complete(calls'[i].type, calls'[i].at, calls'[i].takes)
  <2>1. CASE i # n
    BY <1>2, <1>4, <2>1 DEF TakesAll
  <2>2. CASE i = n
    <3> DEFINE f == calls[n]
               t == f.type
    <3>1. /\ n # 0 /\ n \in DOMAIN calls /\ t \in Type /\ f.at \in Nat /\ t # Target
          /\ f.at \in DOMAIN Of(t) /\ x = Of(t)[f.at].type
      BY <1>2, <2>2, Tops DEF Callers, Dummies, More, Part
    <3>2. Complete(t, f.at, f.takes)
      BY <3>1 DEF TakesAll
    <3>3. /\ calls'[n].type = t /\ calls'[n].at = f.at + 1
          /\ calls'[n].takes = f.takes \cup TakeAt(m', t, f.at)
      BY <1>2, <2>2, <3>1
    <3> HIDE DEF f, t
    <3> SUFFICES ASSUME Straight(t), NEW j \in DOMAIN Of(t), j < f.at + 1,
                        Of(t)[j].public, CanHold(Of(t)[j].type)
                 PROVE  \E k \in f.takes \cup TakeAt(m', t, f.at) :
                          k.field = j /\ k.type = Of(t)[j].type
      BY <2>2, <3>3 DEF Complete
    <3>4. CASE j < f.at
      BY <3>2, <3>4 DEF Complete
    <3>5. CASE j = f.at
      <4>1. x \in From(t)
        BY <1>1, <3>1, <3>5, PartLeads
      <4>2. Straight(x)
        BY <1>1, <3>1, <4>1, LedTo
      <4>3. m'[x].trav # NoTrav
        BY <3>1, <3>5, <4>2, Returned DEF x
      <4>4. \E k \in TakeAt(m', t, f.at) : k.field = f.at /\ k.type = x
        BY <1>1, <3>1, <4>3, TakingAt
      <4> QED BY <3>1, <3>5, <4>4
    <3> QED BY <1>1, <3>1, <3>4, <3>5, DeclIs
  <2> QED BY <2>1, <2>2
<1> QED BY <1>1, <1>2, <1>3, <1>4, CompleteFixed, Fixed DEF TakesAll

LEMMA TakesAllStep ==
  ASSUME Typed, Stacks, Callers, Sound, TakesAll, AnyStep
  PROVE  TakesAll'
<1>0. decl \in Decls /\ Fresh /\ DOMAIN calls = 1..Len(calls) /\ Len(calls) \in Nat
      /\ \A i \in DOMAIN calls : calls[i].type \in Type
  BY Tops DEF Typed, Stacks
<1>1. ASSUME NEW x \in Type, NEW n \in 0..1, NEW takes PROVE Complete(x, n, takes)
  BY <1>0, <1>1, DeclIs DEF Complete
<1>2. ASSUME NEW x \in Type, Entered(x), CallBegins(x), decl' = decl
      PROVE  TakesAll'
  <2> DEFINE n == Len(calls)
  <2>1. \A y \in Type : m'[y].trav = m[y].trav
    BY <1>0, <1>2, EnteredKeeps
  <2>2. /\ DOMAIN calls' = 1..(n + 1) /\ n \in Nat /\ DOMAIN calls = 1..n
        /\ calls'[n + 1].type = x /\ calls'[n + 1].at = 0
        /\ \A i \in 1..n : calls'[i] = calls[i]
    BY <1>0, <1>2 DEF CallBegins
  <2> HIDE DEF n
  <2>3. Complete(calls'[n + 1].type, calls'[n + 1].at, calls'[n + 1].takes)
    BY <1>1, <2>2
  <2>4. \A i \in 1..(n + 1) : i = n + 1 \/ i \in 1..n
    BY <2>2
  <2>5. \A i \in DOMAIN calls' : Complete(calls'[i].type, calls'[i].at, calls'[i].takes)
    BY <2>2, <2>3, <2>4 DEF TakesAll
  <2> QED BY <1>2, <2>1, <2>5, CompleteFixed, Fixed DEF TakesAll
<1>3. CASE \E x \in Type : StepDo(x)
  BY <1>2, <1>3 DEF StepDo
<1>4. CASE StepTake
  <2>1. TopCall.type \in Type
    BY <1>4, Tops DEF StepTake, TopCall
  <2> QED BY <1>2, <1>4, <2>1, PartTyped DEF StepTake, Rest
<1>5. CASE StepHidden \/ StepNew \/ StepKnown \/ StepEnds
  <2>1. calls' = calls /\ decl' = decl /\ \A y \in Type : m'[y].trav = m[y].trav
    BY <1>5, VisitsKeep DEF Rest
  <2> QED BY <2>1, CompleteFixed, Fixed DEF TakesAll
<1>6. CASE StepReturn
  BY <1>6, TakesReturn
<1>7. CASE StepPrime
  <2> DEFINE l == Len(calls)
  <2>1. /\ DOMAIN calls' = DOMAIN calls /\ TopCall.type \in Type
        /\ calls'[l].type = TopCall.type /\ calls'[l].at = 1
        /\ \A i \in DOMAIN calls : i # l => calls'[i] = calls[i]
    BY <1>7, Priming
  <2> HIDE DEF l
  <2>2. \A i \in DOMAIN calls : Complete(calls'[i].type, calls'[i].at, calls'[i].takes)
    BY <1>1, <2>1 DEF TakesAll
  <2>3. m' = [m EXCEPT ![TopCall.type].trav = Dummy] /\ decl' = decl
    BY <1>7 DEF StepPrime, Rest
  <2>4. \A y \in Type : m'[y].trav = Dummy \/ m'[y].trav = m[y].trav
    BY <2>1, <2>3, TravSet
  <2> QED BY <2>1, <2>2, <2>3, <2>4, CompleteFixed, Fixed DEF TakesAll
<1> QED BY <1>3, <1>4, <1>5, <1>6, <1>7 DEF AnyStep

LEMMA SettledStep ==
  ASSUME Typed, Stacks, CallsChain, Settled, AnyStep
  PROVE  Settled'
<1>0. Fresh /\ asked \subseteq Type /\ DOMAIN calls = 1..Len(calls) /\ Len(calls) \in Nat
      /\ (calls # <<>> => Len(calls) # 0)
      /\ \A i \in DOMAIN calls : calls[i].type \in Type
  BY Tops DEF Typed, Stacks
<1>1. CASE \E x \in Type : StepDo(x)
  <2>1. PICK x \in Type : /\ calls = <<>> /\ Entered(x) /\ CallBegins(x)
                          /\ asked' = asked \cup {x}
    BY <1>1 DEF StepDo
  <2>2. calls' # <<>> /\ calls'[1].type = x
    <3>1. Len(calls) = 0
      BY <2>1
    <3>2. calls' \in Seq(Call) /\ Len(calls') = 1 /\ calls'[1].type = x
      BY <2>1, <3>1 DEF CallBegins
    <3> QED BY <3>2
  <2> QED BY <1>0, <2>1, <2>2, EnteredKeeps DEF Settled
<1>2. CASE StepTake
  <2> DEFINE x == Part(TopCall).type
  <2>1. calls # <<>> /\ Entered(x) /\ CallBegins(x) /\ asked' = asked /\ x \in Type
    <3>1. TopCall.type \in Type
      BY <1>2, Tops DEF StepTake, TopCall
    <3> QED BY <1>2, <3>1, PartTyped DEF StepTake, Rest
  <2> HIDE DEF x
  <2>2. calls' # <<>> /\ calls'[1] = calls[1]
    BY <1>0, <2>1 DEF CallBegins
  <2> QED BY <1>0, <2>1, <2>2, EnteredKeeps DEF Settled
<1>3. CASE StepHidden \/ StepNew \/ StepKnown \/ StepEnds
  BY <1>0, <1>3, VisitsKeep DEF Settled, Rest
<1>4. CASE StepPrime
  <2>1. calls' # <<>> /\ calls'[1].type = calls[1].type
    <3>1. 1 \in DOMAIN calls
      BY <1>0, <1>4 DEF StepPrime
    <3> QED BY <1>0, <1>4, <3>1, Priming
  <2>2. m' = [m EXCEPT ![TopCall.type].trav = Dummy] /\ asked' = asked /\ TopCall.type \in Type
    BY <1>4, Quiet DEF StepPrime, Rest
  <2>3. \A y \in Type : m'[y] = m[y] \/ m'[y].trav = Dummy
    BY <2>2, TravSet
  <2>4. Dummy # NoTrav
    BY DEF Dummy, NoTrav
  <2> QED BY <1>0, <1>4, <2>1, <2>2, <2>3, <2>4 DEF Settled, StepPrime
<1>5. CASE StepReturn
  <2> DEFINE x == TopCall.type
             n == Len(calls) - 1
  <2>1. /\ calls # <<>> /\ CallEnds /\ x \in Type /\ asked' = asked /\ visits = <<>>
        /\ \A y \in Type : /\ m'[y].visiting = m[y].visiting
                           /\ m[y].reach = "no" => m'[y].reach = "no"
                           /\ y # x => m'[y].trav = m[y].trav
    <3>1. calls # <<>> /\ CallEnds /\ asked' = asked
      BY <1>5 DEF StepReturn, Rest
    <3> QED BY <1>5, <3>1, Quiet
  <2>2. m'[x].trav # NoTrav \/ m'[x].reach = "no"
    <3>1. CASE m' = m /\ (m[x].trav # NoTrav \/ m[x].reach = "no")
      BY <3>1
    <3>2. CASE Change(x, "no", m[x].visiting)
      BY <3>2 DEF Change
    <3>3. ASSUME NEW t, t # NoTrav, m' = [m EXCEPT ![x].trav = t]
          PROVE  m'[x].trav # NoTrav
      BY <2>1, <3>3, TravSet
    <3>4. Calls # NoTrav /\ Walks(TopCall.takes) # NoTrav
      BY DEF Calls, Walks, NoTrav
    <3> HIDE DEF x
    <3> QED BY <1>5, <3>1, <3>2, <3>3, <3>4 DEF StepReturn, x
  <2>3. m[x].trav # NoTrav => m'[x].trav # NoTrav \/ m'[x].reach = "no"
    BY <2>2
  <2>4. ~ m[x].visiting /\ \A y \in Type : ~ m[y].visiting
    BY <2>1 DEF Stacks, Marked
  <2>5. /\ n \in Nat /\ n + 1 = Len(calls) /\ DOMAIN calls' = 1..n /\ TopCall = calls[n + 1]
        /\ \A i \in 1..n : calls'[i].type = calls[i].type
    BY <2>1, Ending
  <2> HIDE DEF n
  <2>6. IF n = 0 THEN calls[1].type = x
        ELSE calls' # <<>> /\ calls'[1].type = calls[1].type
    BY <2>5
  <2> HIDE DEF x
  <2> QED BY <1>0, <2>1, <2>2, <2>4, <2>6 DEF Settled
<1> QED BY <1>1, <1>2, <1>3, <1>4, <1>5 DEF AnyStep

-----------------------------------------------------------------------------
(* The theorems.                                                           *)

LEMMA InitInv == Init => Inv
<1> SUFFICES ASSUME Init PROVE Inv
  OBVIOUS
<1>1. visits = <<>> /\ calls = <<>> /\ DOMAIN visits = {} /\ DOMAIN calls = {}
      /\ \A x \in Type : m[x] = Unknown
  BY DEF Init
<1>2. Unknown \in TypeInfo /\ Unknown.reach = "dontKnow" /\ ~ Unknown.visiting
      /\ Unknown.trav = NoTrav
  BY CallTypes DEF Unknown, TypeInfo, Knowledge
<1>3. Typed
  BY <1>2 DEF Init, Typed
<1>4. Stacks
  BY <1>1, <1>2 DEF Stacks, Marked, VisitsChain, VisitsServe, Fresh
<1>5. Callers
  <2>1. NoTrav # Dummy
    BY DEF NoTrav, Dummy
  <2> QED BY <1>1, <1>2, <2>1 DEF Callers, CallsChain, Dummies
<1>6. Sound
  BY <1>1, <1>2 DEF Sound, YesSound, NoSound, NoSoFar, DeadEnds, Answer
<1>7. TakesAll /\ Settled
  BY <1>1, <1>2 DEF Init, TakesAll, Settled
<1> QED BY <1>3, <1>4, <1>5, <1>6, <1>7 DEF Inv

LEMMA NextInv == Inv /\ [Next]_vars => Inv'
<1> SUFFICES ASSUME Inv, [Next]_vars PROVE Inv'
  OBVIOUS
<1>1. Typed /\ Stacks /\ Callers /\ Sound /\ TakesAll /\ Settled
  BY DEF Inv
<1>2. Marked /\ VisitsChain /\ VisitsServe /\ Fresh /\ CallsChain /\ Dummies
  BY <1>1 DEF Stacks, Callers
<1>3. CASE Next
  <2>1. Typed' /\ AnyStep
    BY <1>1, <1>2, <1>3, Steps
  <2>2. Stacks'
    BY <1>1, <1>2, <2>1, MarkedStep, ChainStep, ServeStep, FreshStep DEF Stacks
  <2>3. Callers'
    BY <1>1, <1>2, <2>1, CallsChainStep, DummiesStep DEF Callers
  <2>4. Sound'
    BY <1>1, <1>2, <2>1, SoundStep, AnswerStep DEF Sound
  <2>5. TakesAll' /\ Settled'
    BY <1>1, <1>2, <2>1, TakesAllStep, SettledStep
  <2> QED BY <2>1, <2>2, <2>3, <2>4, <2>5 DEF Inv
<1>4. CASE UNCHANGED vars
  <2>1. /\ decl' = decl /\ m' = m /\ asked' = asked /\ visits' = visits /\ calls' = calls
        /\ TopCall' = TopCall
    BY <1>4 DEF vars, TopCall
  <2>2. \A i : Below(i)' = Below(i)
    BY <2>1 DEF Below
  <2>3. Typed'
    BY <1>1, <2>1 DEF Typed
  <2>4. Stacks'
    BY <1>2, <2>1, Fixed DEF Stacks, Marked, VisitsChain, VisitsServe, Fresh
  <2>5. Callers'
    BY <1>2, <2>1, Fixed DEF Callers, CallsChain, Dummies
  <2>6. Sound'
    BY <1>1, <2>1, <2>2, Fixed DEF Sound, YesSound, NoSound, NoSoFar, DeadEnds, Answer
  <2>7. TakesAll' /\ Settled'
    BY <1>1, <2>1, Fixed, CompleteFixed DEF TakesAll, Settled
  <2> QED BY <2>3, <2>4, <2>5, <2>6, <2>7 DEF Inv
<1> QED BY <1>3, <1>4

THEOREM Invariance == Spec => []Inv
BY InitInv, NextInv, PTL DEF Spec

(* Every variable keeps its type, and between two calls of Do no type is   *)
(* marked as visited and no dummy stands for a traverser.                  *)
THEOREM TypeCorrect == Spec => []TypeOK
<1>1. Inv => TypeOK
  <2> SUFFICES ASSUME Inv PROVE TypeOK
    OBVIOUS
  <2>1. Typed /\ Marked /\ VisitsServe /\ Dummies
    BY DEF Inv, Stacks, Callers
  <2>2. ASSUME calls = <<>>
        PROVE  visits = <<>> /\ \A x \in Type : ~ m[x].visiting /\ m[x].trav # Dummy
    <3>1. visits = <<>>
      BY <2>1, <2>2 DEF VisitsServe
    <3> QED BY <2>1, <2>2, <3>1 DEF Marked, Dummies
  <2> QED BY <2>1, <2>2 DEF TypeOK, Typed, Idle
<1> QED BY <1>1, Invariance, PTL

(* Whatever was asked before, and however the types refer to each other,   *)
(* "yes" is kept of a type (canReach) only if it can hold a target, and    *)
(* "no" only if it cannot, or leads to a map whose keys cannot and whose   *)
(* elements lead back to it.                                               *)
THEOREM CacheIsSound == Spec => []CacheSound
<1>1. Inv => CacheSound
  <2> SUFFICES ASSUME Inv, Idle, NEW x \in Type
               PROVE  /\ m[x].reach = "yes" => CanHold(x)
                      /\ m[x].reach = "no" /\ Straight(x) => ~ CanHold(x)
    BY DEF CacheSound
  <2>1. visits = <<>>
    BY DEF Inv, Stacks, VisitsServe, Idle
  <2>2. ~ m[x].visiting
    BY <2>1 DEF Inv, Stacks, Marked
  <2> QED BY <2>2 DEF Inv, Sound, YesSound, NoSound
<1> QED BY <1>1, Invariance, PTL

(* With the same exception a traverser (getTraverserFunc) takes every      *)
(* public component that can hold a target, those it shares with a type    *)
(* whose traverser was still being made included: no file is missed.       *)
THEOREM NothingIsMissed == Spec => []NothingMissed
<1>1. Inv => NothingMissed
  <2> SUFFICES ASSUME Inv, Idle, NEW x \in Type \ {Target}, Straight(x)
               PROVE  /\ x \in asked /\ CanHold(x) => m[x].trav # NoTrav
                      /\ m[x].trav # NoTrav =>
                           \A i \in DOMAIN Of(x) :
                             Of(x)[i].public /\ CanHold(Of(x)[i].type)
                             => \E k \in m[x].trav.takes : k.field = i /\ k.type = Of(x)[i].type
    BY DEF NothingMissed
  <2>1. calls = <<>> /\ Typed /\ Dummies /\ Sound /\ TakesAll /\ Settled
    BY DEF Inv, Callers, Idle
  <2>2. x \in asked => m[x].trav # NoTrav \/ ~ CanHold(x)
    BY <2>1 DEF Settled, Sound, NoSound
  <2>3. m[x].trav # NoTrav => Complete(x, Len(Of(x)) + 1, m[x].trav.takes)
    BY <2>1 DEF Dummies, TakesAll
  <2>4. \A i \in DOMAIN Of(x) : i < Len(Of(x)) + 1
    BY <2>1, DeclIs DEF Typed
  <2> QED BY <2>2, <2>3, <2>4 DEF Complete
<1> QED BY <1>1, Invariance, PTL

-----------------------------------------------------------------------------
(* The dummy.  A pointer, slice or map q takes it of the type s of its     *)
(* elements only while s is being made: then s stands below q among the    *)
(* calls and leads to q, and q stands nowhere below s, so that s was met   *)
(* without q.                                                              *)

NoDummyTakes ==
  ThroughPointers =>
    /\ \A x \in Type : \A k \in m[x].trav.takes : ~ k.dummy
    /\ \A i \in DOMAIN calls : \A k \in calls[i].takes : ~ k.dummy

FirstAsked == calls # <<>> => calls[1].type \in asked

LEMMA NotLess ==
  ASSUME NEW i \in Nat, NEW j \in Nat, <<j, i>> \notin OpToRel(<, Nat)
  PROVE  i <= j
BY DEF OpToRel

(* What calls[i] is of, and each call passes on, calls[k] is of.           *)
LEMMA AlongCalls ==
  ASSUME NEW D, NEW i \in Nat, NEW k \in Nat, i <= k, calls[i].type \in D,
         \A j \in Nat : i <= j /\ j < k /\ calls[j].type \in D => calls[j + 1].type \in D
  PROVE  calls[k].type \in D
<1> DEFINE T == {j \in Nat : i <= j /\ j <= k /\ calls[j].type \notin D}
<1>1. SUFFICES ASSUME calls[k].type \notin D PROVE FALSE
  OBVIOUS
<1>2. T \subseteq Nat /\ T # {}
  BY <1>1
<1>3. PICK j \in T : \A l \in T : <<l, j>> \notin OpToRel(<, Nat)
  BY <1>2, NatLessThanWellFounded, WFMin
<1>4. \A l \in T : j <= l
  BY <1>2, <1>3, NotLess
<1>5. j \in Nat /\ i <= j /\ j <= k /\ calls[j].type \notin D /\ j # i
  OBVIOUS
<1>6. j - 1 \in Nat /\ i <= j - 1 /\ j - 1 < k /\ (j - 1) + 1 = j /\ ~ (j <= j - 1)
  BY <1>5
<1>7. j - 1 \notin T
  BY <1>4, <1>6
<1>8. calls[j - 1].type \in D
  BY <1>6, <1>7
<1>9. calls[(j - 1) + 1].type \in D
  BY <1>6, <1>8
<1> QED BY <1>5, <1>6, <1>9

LEMMA CallEdge ==
  ASSUME Typed, Callers, NEW j \in Nat, j \in DOMAIN calls, j + 1 \in DOMAIN calls
  PROVE  /\ <<calls[j].type, calls[j + 1].type>> \in AllParts
         /\ calls[j].at # 0 /\ calls[j].type \in Type /\ More(calls[j])
         /\ calls[j + 1].type = Of(calls[j].type)[calls[j].at].type
<1> DEFINE x == calls[j].type
           y == calls[j + 1].type
<1>1. calls[j].at # 0 /\ More(calls[j]) /\ y = Part(calls[j]).type
  BY DEF Callers, CallsChain
<1>2. x \in Type /\ x # Target
  BY <1>1, Tops DEF Callers, Dummies
<1>3. calls[j].at \in DOMAIN Of(x) /\ y = Of(x)[calls[j].at].type
  BY <1>1 DEF More, Part
<1>4. <<x, y>> \in Parts(x)
  BY <1>3 DEF Parts
<1> QED BY <1>1, <1>2, <1>3, <1>4 DEF AllParts

LEMMA DummyTooLate ==
  ASSUME Typed, Callers, FirstAsked, ThroughPointers,
         NEW n \in Nat, n # 0, n + 1 = Len(calls), decl[calls[n].type].kind # "struct",
         NEW i \in 1..n, calls[i].type = calls[n + 1].type
  PROVE  FALSE
<1> DEFINE q == calls[n].type
           s == calls[n + 1].type
<1>1. /\ DOMAIN calls = 1..(n + 1) /\ n \in 1..n /\ calls # <<>>
      /\ \A j \in 1..n : j \in Nat /\ j \in DOMAIN calls /\ j + 1 \in DOMAIN calls
  BY Tops
<1>2. \A j \in 1..n : /\ <<calls[j].type, calls[j + 1].type>> \in AllParts
                      /\ calls[j].at # 0 /\ calls[j].type \in Type
  BY <1>1, CallEdge
<1>3. calls[n].at \in DOMAIN Of(q) /\ s = Of(q)[calls[n].at].type
  BY <1>1, CallEdge DEF More
<1>4. q \in Closure({s}, AllParts)
  <2> SUFFICES ASSUME NEW D \in SUBSET Type, {s} \subseteq D,
                      \A e \in AllParts : e[1] \in D => e[2] \in D
               PROVE  q \in D
    BY <1>1, <1>2 DEF Closure
  <2>1. ASSUME NEW j \in Nat, i <= j, j < n, calls[j].type \in D PROVE calls[j + 1].type \in D
    <3>1. j \in 1..n
      BY <2>1
    <3> QED BY <2>1, <3>1, <1>2
  <2>2. i \in Nat /\ i <= n /\ calls[i].type \in D
    OBVIOUS
  <2> QED BY <2>1, <2>2, AlongCalls
<1>5. s # q /\ s \notin Avoiding(q)
  BY <1>1, <1>2, <1>3, <1>4 DEF ThroughPointers
<1>6. i # n
  BY <1>5
<1>7. \A j \in 1..n : j # n => calls[j].type # q
  BY <1>1, <1>2 DEF Callers, Dummies
<1>8. s \in Avoiding(q)
  <2> DEFINE E == {e \in AllParts : q \notin {e[1], e[2]}}
  <2> SUFFICES ASSUME NEW D \in SUBSET Type, asked \ {q} \subseteq D,
                      \A e \in E : e[1] \in D => e[2] \in D
               PROVE  s \in D
    BY <1>1, <1>2 DEF Avoiding, Closure
  <2>1. 1 \in 1..n /\ 1 # n /\ 1 \in Nat /\ i \in Nat /\ 1 <= i
    BY <1>6
  <2>2. calls[1].type \in D
    BY <1>1, <1>7, <2>1 DEF FirstAsked
  <2>3. ASSUME NEW j \in Nat, 1 <= j, j < i, calls[j].type \in D PROVE calls[j + 1].type \in D
    <3>1. j \in 1..n /\ j # n /\ j + 1 \in 1..n /\ j + 1 # n
      BY <2>3, <1>6
    <3>2. <<calls[j].type, calls[j + 1].type>> \in E
      BY <3>1, <1>2, <1>7
    <3> QED BY <2>3, <3>2
  <2>4. calls[i].type \in D
    BY <2>1, <2>2, <2>3, AlongCalls
  <2> QED BY <2>4
<1> QED BY <1>5, <1>8

(* More types asked for leave fewer programs in which all goes through     *)
(* pointers.                                                               *)
LEMMA StaysSo ==
  ASSUME decl' = decl, asked \subseteq asked', ThroughPointers'
  PROVE  ThroughPointers
<1>1. AllParts' = AllParts
  BY Fixed DEF AllParts, Parts
<1>2. \A q : Avoiding(q) \subseteq Avoiding(q)'
  <2> SUFFICES ASSUME NEW q PROVE Avoiding(q) \subseteq Avoiding(q)'
    OBVIOUS
  <2> DEFINE E == {e \in AllParts : q \notin {e[1], e[2]}}
  <2>1. E' = E
    BY <1>1
  <2>2. Avoiding(q) = Closure(asked \ {q}, E)
    BY DEF Avoiding
  <2>3. Avoiding(q)' = Closure(asked' \ {q}, E)
    BY <2>1 DEF Avoiding, Closure
  <2> HIDE DEF E
  <2>4. Closure(asked \ {q}, E) \subseteq Closure(asked' \ {q}, E)
    BY DEF Closure
  <2> QED BY <2>2, <2>3, <2>4
<1> SUFFICES ASSUME NEW q \in Type, decl[q].kind # "struct", NEW i \in DOMAIN Of(q),
                    q \in Closure({Of(q)[i].type}, AllParts)
             PROVE  Of(q)[i].type # q /\ Of(q)[i].type \notin Avoiding(q)
  BY DEF ThroughPointers
<1> DEFINE s == Of(q)[i].type
<1>3. Of(q)' = Of(q)
  BY DEF Of
<1>4. q \in Closure({s}, AllParts)'
  BY <1>1, <1>3 DEF Closure
<1>5. s # q /\ s \notin Avoiding(q)'
  BY <1>3, <1>4 DEF ThroughPointers
<1> QED BY <1>2, <1>5

LEMMA NewTravs ==
  ASSUME NEW x \in Type, Entered(x), NEW y \in Type
  PROVE  m'[y].trav = m[y].trav \/ m'[y].trav = NoTrav
BY DEF Entered, EnterNone, EnterLeaf, EnterVisit, Only

LEMMA ReturnTravs ==
  ASSUME Typed, StepReturn, NEW y \in Type
  PROVE  \/ m'[y].trav = m[y].trav \/ m'[y].trav = Calls
         \/ m'[y].trav = Walks(TopCall.takes)
<1> DEFINE x == TopCall.type
<1>1. x \in Type
  BY Quiet
<1>2. ASSUME NEW t, m' = [m EXCEPT ![x].trav = t] PROVE m'[y].trav = t \/ m'[y] = m[y]
  BY <1>1, <1>2, TravSet
<1>3. ASSUME Change(x, "no", m[x].visiting), \A z \in Type \ {x} : m'[z] = m[z]
      PROVE  m'[y].trav = m[y].trav
  BY <1>3 DEF Change
<1> HIDE DEF x
<1> QED BY <1>2, <1>3 DEF StepReturn, x

LEMMA UncalledStep ==
  ASSUME Typed, Typed', Stacks, Callers, Callers', NoDummyTakes, FirstAsked, AnyStep
  PROVE  NoDummyTakes' /\ FirstAsked'
<1>b. decl' = decl /\ asked \subseteq asked'
  BY DEF AnyStep, StepDo, StepHidden, StepNew, StepKnown, StepEnds, StepReturn,
         StepPrime, StepTake, Rest
<1>0. /\ Len(calls) \in Nat /\ DOMAIN calls = 1..Len(calls) /\ (calls # <<>> <=> Len(calls) # 0)
      /\ Len(calls') \in Nat /\ DOMAIN calls' = 1..Len(calls')
      /\ (calls' # <<>> <=> Len(calls') # 0)
  <2>1. calls' \in Seq(Call)
    BY DEF Typed
  <2> QED BY <2>1, Tops
<1>1. ThroughPointers' => ThroughPointers
  BY <1>b, StaysSo
<1> DEFINE Clean(s) == \A k \in s : ~ k.dummy
<1>2. Clean(NoTrav.takes) /\ Clean(Calls.takes) /\ Clean({}) /\ \A s : Walks(s).takes = s
  BY DEF NoTrav, Calls, Walks
<1>3. ASSUME \A y \in Type : m'[y].trav = m[y].trav \/ Clean(m'[y].trav.takes),
             \A i \in DOMAIN calls' :
               \/ i \in DOMAIN calls /\ calls'[i].takes = calls[i].takes
               \/ Clean(calls'[i].takes)
      PROVE  NoDummyTakes'
  BY <1>1, <1>3 DEF NoDummyTakes
<1>4. ASSUME calls' # <<>> => calls # <<>> /\ calls'[1].type = calls[1].type PROVE FirstAsked'
  BY <1>b, <1>4 DEF FirstAsked
<1>5. ASSUME NEW x \in Type, Entered(x), CallBegins(x)
      PROVE  NoDummyTakes'
  <2>1. \A y \in Type : m'[y].trav = m[y].trav \/ Clean(m'[y].trav.takes)
    BY <1>2, <1>5, NewTravs
  <2>2. calls'[Len(calls) + 1].takes = {} /\ Len(calls') = Len(calls) + 1
        /\ \A i \in 1..Len(calls) : calls'[i] = calls[i]
    BY <1>5 DEF CallBegins
  <2>3. ASSUME NEW i \in DOMAIN calls'
        PROVE  \/ i \in DOMAIN calls /\ calls'[i].takes = calls[i].takes
               \/ Clean(calls'[i].takes)
    <3>1. i \in 1..Len(calls) \/ i = Len(calls) + 1
      BY <1>0, <2>2, <2>3
    <3> QED BY <1>0, <1>2, <2>2, <3>1
  <2> QED BY <1>3, <2>1, <2>3
<1>6. CASE \E x \in Type : StepDo(x)
  <2>1. PICK x \in Type : StepDo(x)
    BY <1>6
  <2>2. calls'[1].type = x /\ x \in asked'
    BY <1>0, <2>1 DEF StepDo, CallBegins
  <2> QED BY <1>5, <2>1, <2>2 DEF StepDo, FirstAsked
<1>7. CASE StepTake
  <2> DEFINE x == Part(TopCall).type
  <2>1. /\ calls # <<>> /\ Entered(x) /\ CallBegins(x) /\ More(TopCall)
    BY <1>7 DEF StepTake
  <2>2. TopCall.type \in Type
    BY <2>1, Tops DEF TopCall
  <2>3. x \in Type
    BY <2>1, <2>2, PartTyped
  <2>4. calls'[1].type = calls[1].type
    BY <1>0, <2>1 DEF CallBegins
  <2> QED BY <1>4, <1>5, <2>1, <2>3, <2>4
<1>8. CASE StepHidden \/ StepNew \/ StepKnown \/ StepEnds
  <2>1. calls' = calls
    BY <1>8 DEF StepHidden, StepNew, StepKnown, StepEnds
  <2>2. \A y \in Type : m'[y].trav = m[y].trav
    BY <1>8, VisitsKeep
  <2> QED BY <1>2, <1>3, <1>4, <2>1, <2>2
<1>9. CASE StepPrime
  <2>1. /\ DOMAIN calls' = DOMAIN calls
        /\ \A i \in DOMAIN calls : calls'[i].takes = calls[i].takes /\ calls'[i].type = calls[i].type
    BY <1>9, Priming
  <2>2. \A y \in Type : m'[y].trav = m[y].trav \/ m'[y].trav = Dummy
    BY <1>9, Priming, TravSet DEF StepPrime
  <2>3. Clean(Dummy.takes)
    BY DEF Dummy
  <2>4. calls # <<>> /\ calls'[1].type = calls[1].type
    BY <1>0, <1>9, <2>1 DEF StepPrime
  <2> QED BY <1>3, <1>4, <2>1, <2>2, <2>3, <2>4
<1>a. CASE StepReturn
  <2> DEFINE n == Len(calls) - 1
             f == calls[n]
  <2>1. calls # <<>> /\ CallEnds
    BY <1>a DEF StepReturn
  <2>2. /\ n \in Nat /\ n + 1 = Len(calls) /\ DOMAIN calls' = 1..n /\ n + 1 \in DOMAIN calls
        /\ TopCall = calls[n + 1]
        /\ \A i \in 1..n : /\ i \in DOMAIN calls /\ i # n + 1 /\ i < n + 1
                           /\ calls[i].at # 0 /\ More(calls[i])
                           /\ calls'[i].type = calls[i].type /\ calls'[i].at # 0
                           /\ i # n => calls'[i] = calls[i]
        /\ n # 0 => /\ calls[n + 1].type = Part(calls[n]).type
                    /\ calls'[n].takes = f.takes \cup TakeAt(m', f.type, f.at)
    BY <2>1, Ending DEF Callers
  <2> HIDE DEF n
  <2>3. FirstAsked'
    BY <1>0, <1>4, <2>1, <2>2
  <2> SUFFICES ASSUME ThroughPointers'
               PROVE  /\ \A x \in Type : Clean(m'[x].trav.takes)
                      /\ \A i \in DOMAIN calls' : Clean(calls'[i].takes)
    BY <2>3 DEF NoDummyTakes
  <2>4. ThroughPointers
    BY <1>1
  <2>5. Clean(TopCall.takes) /\ (\A x \in Type : Clean(m[x].trav.takes))
        /\ \A i \in 1..n : Clean(calls[i].takes)
    BY <2>2, <2>4 DEF NoDummyTakes
  <2>6. \A x \in Type : Clean(m'[x].trav.takes)
    BY <1>2, <1>a, <2>5, ReturnTravs
  <2>7. ASSUME n # 0 PROVE Clean(TakeAt(m', f.type, f.at))
    <3> SUFFICES ASSUME NEW k \in TakeAt(m', f.type, f.at), k.dummy PROVE FALSE
      OBVIOUS
    <3> DEFINE c == Of(f.type)[f.at].type
    <3>1. decl[f.type].kind # "struct" /\ m'[c].trav = Dummy
      <4>1. k = [field |-> f.at, type |-> c,
                 dummy |-> decl[f.type].kind # "struct" /\ m'[c].trav = Dummy]
        BY DEF TakeAt
      <4>2. k.dummy = (decl[f.type].kind # "struct" /\ m'[c].trav = Dummy)
        BY <4>1
      <4> QED BY <4>2
    <3>2. c = calls[n + 1].type /\ c \in Type
      BY <2>2, <2>7, Tops DEF Part
    <3>3. PICK i \in DOMAIN calls' : calls'[i].at # 0 /\ calls'[i].type = c
      BY <3>1, <3>2 DEF Callers, Dummies
    <3>4. i \in 1..n /\ calls[i].type = calls[n + 1].type
      BY <2>2, <3>2, <3>3
    <3> QED BY <2>2, <2>4, <2>7, <3>1, <3>4, DummyTooLate
  <2>8. ASSUME NEW i \in 1..n PROVE Clean(calls'[i].takes)
    <3>1. CASE i # n
      BY <2>2, <2>5, <3>1
    <3>2. CASE i = n
      <4>1. n # 0
        BY <2>8, <3>2
      <4>2. calls'[n].takes = f.takes \cup TakeAt(m', f.type, f.at)
        BY <2>2, <4>1
      <4> QED BY <2>5, <2>7, <2>8, <3>2, <4>1, <4>2
    <3> QED BY <3>1, <3>2
  <2> QED BY <2>2, <2>6, <2>8
<1> QED BY <1>6, <1>7, <1>8, <1>9, <1>a DEF AnyStep

(* The dummy that stands for a traverser while it is made, and panics, is  *)
(* in no traverser getTraverserFunc keeps, as long as every pointer, slice *)
(* or map is met before the type of its elements if that leads back to it. *)
THEOREM DummyIsUncalled == Spec => []DummyUncalled
<1> DEFINE U == NoDummyTakes /\ FirstAsked
<1>1. Init => U
  <2> SUFFICES ASSUME Init PROVE U
    OBVIOUS
  <2>1. calls = <<>> /\ DOMAIN calls = {} /\ \A x \in Type : m[x].trav = NoTrav
    BY DEF Init, Unknown
  <2>2. NoTrav.takes = {}
    BY DEF NoTrav
  <2> QED BY <2>1, <2>2 DEF NoDummyTakes, FirstAsked
<1>2. Inv /\ Inv' /\ U /\ [Next]_vars => U'
  <2> SUFFICES ASSUME Inv, Inv', U, [Next]_vars PROVE U'
    OBVIOUS
  <2>1. Typed /\ Typed' /\ Stacks /\ Callers /\ Callers' /\ Marked /\ CallsChain
    BY DEF Inv, Stacks, Callers
  <2>2. CASE Next
    <3>1. AnyStep
      BY <2>1, <2>2, Steps
    <3> QED BY <2>1, <3>1, UncalledStep
  <2>3. CASE UNCHANGED vars
    <3>1. decl' = decl /\ m' = m /\ asked' = asked /\ calls' = calls
      BY <2>3 DEF vars
    <3>2. ThroughPointers' => ThroughPointers
      BY <3>1, StaysSo
    <3> QED BY <3>1, <3>2 DEF NoDummyTakes, FirstAsked
  <2> QED BY <2>2, <2>3
<1>3. U => DummyUncalled
  BY DEF NoDummyTakes, DummyUncalled
<1> QED BY <1>1, <1>2, <1>3, Invariance, PTL DEF Spec
=============================================================================
