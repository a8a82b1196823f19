----------------------------- MODULE TypeApply ------------------------------
(***************************************************************************)
(* typeapply.Do finds the values of one type, the target, inside values of *)
(* any other; filemarshal finds the files of a request with it.  What is   *)
(* known about each type is kept for all later calls: whether it can hold  *)
(* a target, and the function that walks its values.  Types refer to each  *)
(* other in any way Go allows; calls come in any order.                    *)
(***************************************************************************)
EXTENDS Naturals, Sequences

CONSTANTS
  Type,
  Target,  \* the type that is looked for
  Decls,   \* declarations of the types: of each its kind, and its components
  Args     \* types of the values Do is called with, or an interface holds

Kind      == {"basic", "ptr", "array", "slice", "map", "struct", "interface"}
Component == [type : Type, public : BOOLEAN]
Arity(k)  == IF k = "map" THEN 2 ELSE IF k \in {"basic", "interface"} THEN 0 ELSE 1

ASSUME TargetAssumption == Target \in Type /\ Args \subseteq Type
ASSUME DeclsAssumption ==
  \A d \in Decls : /\ DOMAIN d = Type
                   /\ \A x \in Type :
                        /\ d[x].kind \in Kind /\ d[x].of \in Seq(Component)
                        /\ d[x].kind # "struct" =>
                             /\ Len(d[x].of) = Arity(d[x].kind)
                             /\ \A i \in DOMAIN d[x].of : d[x].of[i].public

VARIABLES
  decl,    \* the declarations of this program
  m,       \* what is known about each type
  asked,   \* the types Do, or the walk of an interface, has asked for
  visits,  \* calls of canReach under way, the innermost last
  calls    \* calls of getTraverserFunc under way, the innermost last

vars == <<decl, m, asked, visits, calls>>

Knowledge == {"dontKnow", "no", "yes"}
Take      == [field : Nat, type : Type, dummy : BOOLEAN]
Traverser == [state : {"none", "dummy", "calls", "walks"}, takes : SUBSET Take]
TypeInfo  == [reach : Knowledge, visiting : BOOLEAN, trav : Traverser]
Visit     == [type : Type, at : Nat]
Call      == [type : Type, at : Nat, takes : SUBSET Take]

(* A traverser takes components: by the traverser itself, which may be the *)
(* dummy, or through the component's typeInfo.                             *)
NoTrav   == [state |-> "none", takes |-> {}]
Dummy    == [state |-> "dummy", takes |-> {}]
Calls    == [state |-> "calls", takes |-> {}]
Walks(s) == [state |-> "walks", takes |-> s]

Unknown == [reach |-> "dontKnow", visiting |-> FALSE, trav |-> NoTrav]

Of(x) == decl[x].of
Idle  == calls = <<>>

(* Between two calls of Do nothing is half done.                           *)
TypeOK ==
  /\ asked \subseteq Type
  /\ m \in [Type -> TypeInfo]
  /\ visits \in Seq(Visit) /\ calls \in Seq(Call)
  /\ Idle => /\ visits = <<>>
             /\ \A x \in Type : ~ m[x].visiting /\ m[x].trav # Dummy

Init ==
  /\ decl \in Decls /\ m = [x \in Type |-> Unknown] /\ asked = {}
  /\ visits = <<>> /\ calls = <<>>

-----------------------------------------------------------------------------
(* canReach                                                                *)

Or(a, b) ==
  IF "yes" \in {a, b} THEN "yes" ELSE IF "dontKnow" \in {a, b} THEN "dontKnow" ELSE "no"

Known(x) == m[x].visiting \/ m[x].reach # "dontKnow"
Leaf(x)  == x = Target \/ decl[x].kind = "interface"

(* Whether x is entered: if not, its answer is there.  What was not known  *)
(* before is forgotten.                                                    *)
CanReach(x) ==
  IF Known(x) THEN UNCHANGED <<m, visits>>
  ELSE IF Leaf(x)
  THEN m' = [m EXCEPT ![x] = [Unknown EXCEPT !.reach = "yes"]] /\ UNCHANGED visits
  ELSE /\ m' = [m EXCEPT ![x] = [Unknown EXCEPT !.visiting = TRUE]]
       /\ visits' = Append(visits, [type |-> x, at |-> 1])

Visiting == visits # <<>>
TopVisit == visits[Len(visits)]
Part(f)  == Of(f.type)[f.at]
More(f)  == f.at \in DOMAIN Of(f.type)

(* The visits up to the k-th, which is done with a component.              *)
VisitsOn(k) ==
  [i \in 1..k |-> IF i = k THEN [visits[i] EXCEPT !.at = @ + 1] ELSE visits[i]]

(* What is known about f.type once canReach of its component has answered. *)
Answered(n, f, answer) ==
  [n EXCEPT ![f.type].reach =
     IF f.at = 1 /\ decl[f.type].kind # "struct" THEN answer ELSE Or(answer, @)]

VisitHidden ==
  /\ Visiting /\ More(TopVisit) /\ ~ Part(TopVisit).public
  /\ visits' = VisitsOn(Len(visits))
  /\ UNCHANGED <<decl, m, asked, calls>>

VisitNew ==
  /\ Visiting /\ More(TopVisit) /\ Part(TopVisit).public /\ ~ Known(Part(TopVisit).type)
  /\ CanReach(Part(TopVisit).type)
  /\ UNCHANGED <<decl, asked, calls>>

VisitKnown ==
  /\ Visiting /\ More(TopVisit) /\ Part(TopVisit).public /\ Known(Part(TopVisit).type)
  /\ m' = Answered(m, TopVisit, m[Part(TopVisit).type].reach)
  /\ visits' = VisitsOn(Len(visits))
  /\ UNCHANGED <<decl, asked, calls>>

(* Variant in which a visit that found nothing settles the matter.         *)
VisitedFinally(x) ==
  [m EXCEPT ![x].visiting = FALSE, ![x].reach = IF @ = "yes" THEN @ ELSE "no"]

(* Variant that leaves its mark.                                           *)
VisitedOpen(x) == m

Visited(x) == [m EXCEPT ![x].visiting = FALSE]

VisitEnds ==
  /\ Visiting /\ ~ More(TopVisit)
  /\ LET n  == Visited(TopVisit.type)
         up == Len(visits) - 1
     IN  /\ m' = IF up = 0 THEN n ELSE Answered(n, visits[up], n[TopVisit.type].reach)
         /\ visits' = VisitsOn(up)
  /\ UNCHANGED <<decl, asked, calls>>

-----------------------------------------------------------------------------
(* getTraverserFunc                                                        *)

(* Variant that passes over a component whose traverser is not ready.      *)
TakeReady(n, x, i) ==
  LET c == Of(x)[i].type
  IN  IF n[c].trav.state \in {"calls", "walks"}
      THEN {[field |-> i, type |-> c, dummy |-> FALSE]} ELSE {}

(* Variant in which structs, too, take the traversers of their fields.     *)
TakeDirectly(n, x, i) ==
  LET c == Of(x)[i].type
  IN  IF n[c].trav = NoTrav THEN {}
      ELSE {[field |-> i, type |-> c, dummy |-> n[c].trav = Dummy]}

(* Only structs indirect through the typeInfo.                             *)
TakeAt(n, x, i) ==
  LET c == Of(x)[i].type
  IN  IF n[c].trav = NoTrav THEN {}
      ELSE {[field |-> i, type |-> c,
             dummy |-> decl[x].kind # "struct" /\ n[c].trav = Dummy]}

(* It begins with canReach.                                                *)
GetTraverserFunc(x) ==
  /\ CanReach(x)
  /\ calls' = Append(calls, [type |-> x, at |-> 0, takes |-> {}])

TopCall  == calls[Len(calls)]
Asking   == calls # <<>> /\ ~ Visiting
Found(r) == Asking /\ TopCall.at = 0 /\ m[TopCall.type].trav = NoTrav /\ m[TopCall.type].reach = r

Took(f, t) == [type |-> f.type, at |-> f.at + 1, takes |-> f.takes \cup t]

(* The innermost call ends, and its caller takes what is now known.        *)
Return(n) ==
  /\ m' = n
  /\ LET up == Len(calls) - 1
     IN  calls' = [i \in 1..up |->
           IF i = up THEN Took(calls[i], TakeAt(n, calls[i].type, calls[i].at)) ELSE calls[i]]
  /\ UNCHANGED <<decl, asked, visits>>

FuncKnown ==
  /\ Asking /\ TopCall.at = 0
  /\ m[TopCall.type].trav # NoTrav \/ m[TopCall.type].reach = "no"
  /\ Return(m)

NoInstance == Found("dontKnow") /\ Return([m EXCEPT ![TopCall.type].reach = "no"])

Instance == Found("yes") /\ TopCall.type = Target /\ Return([m EXCEPT ![TopCall.type].trav = Calls])

Prime ==
  /\ Found("yes") /\ TopCall.type # Target
  /\ m' = [m EXCEPT ![TopCall.type].trav = Dummy]
  /\ calls' = [calls EXCEPT ![Len(calls)].at = 1]
  /\ UNCHANGED <<decl, asked, visits>>

TakePart ==
  /\ Asking /\ More(TopCall)
  /\ GetTraverserFunc(Part(TopCall).type)
  /\ UNCHANGED <<decl, asked>>

FuncMade ==
  /\ Asking /\ TopCall.at # 0 /\ ~ More(TopCall)
  /\ Return([m EXCEPT ![TopCall.type].trav = Walks(TopCall.takes)])

(* Do with a value of type x, and the walk of an interface that holds one. *)
(* Another Do waits for typeMutex.  The walk itself changes nothing that   *)
(* is kept.                                                                *)
Do(x) ==
  /\ Idle
  /\ GetTraverserFunc(x)
  /\ asked' = asked \cup {x}
  /\ UNCHANGED decl

Next ==
  \/ \E x \in Args : Do(x)
  \/ VisitHidden \/ VisitNew \/ VisitKnown \/ VisitEnds
  \/ FuncKnown \/ NoInstance \/ Instance \/ Prime \/ TakePart \/ FuncMade

Spec == Init /\ [][Next]_vars

-----------------------------------------------------------------------------
(* The types edges E lead to from those of S: the least set that is closed *)
(* under them.                                                             *)
Closure(S, E) ==
  LET closed == {D \in SUBSET Type : S \subseteq D /\ \A e \in E : e[1] \in D => e[2] \in D}
  IN  {y \in Type : \A D \in closed : y \in D}

Parts(x)  == {<<x, Of(x)[i].type>> : i \in DOMAIN Of(x)}
Public(x) == {<<x, Of(x)[i].type>> : i \in {i \in DOMAIN Of(x) : Of(x)[i].public}}

(* What values of type x lead to where everybody may look.                 *)
From(x)    == Closure({x}, UNION {Public(z) : z \in Type \ {Target}})
CanHold(x) == \E y \in From(x) : Leaf(y)

(* While the elements of a map are visited, the map already has the answer *)
(* of its keys.  If that is "no", a type that leads back to the map takes  *)
(* it for the last word: a flaw of canReach.                               *)
Misleading(y) ==
  /\ decl[y].kind = "map"
  /\ ~ CanHold(Of(y)[1].type) /\ y \in From(Of(y)[2].type)
Straight(x) == \A y \in From(x) : ~ Misleading(y)

(* What is kept is right, whatever was asked before, and although types    *)
(* that refer to each other leave each other undecided on the way: "no" is *)
(* never concluded from a visit that a cycle cut short, except from that   *)
(* of such a map.                                                          *)
CacheSound ==
  Idle =>
    \A x \in Type : /\ m[x].reach = "yes" => CanHold(x)
                    /\ m[x].reach = "no" /\ Straight(x) => ~ CanHold(x)

(* "calls the function f ... on each publicly accessible member of the     *)
(* value x and recursively on members of those", typeapply.go: a type that *)
(* was asked for and can hold a target has a traverser, and a traverser    *)
(* takes every public component that can hold one, those it shares with a  *)
(* type that is still under way included.  A file that is missed here is   *)
(* not sent.                                                               *)
NothingMissed ==
  Idle =>
    \A x \in {x \in Type \ {Target} : Straight(x)} :
      /\ x \in asked /\ CanHold(x) => m[x].trav # NoTrav
      /\ m[x].trav # NoTrav =>
           \A i \in DOMAIN Of(x) :
             Of(x)[i].public /\ CanHold(Of(x)[i].type)
             => \E k \in m[x].trav.takes : k.field = i /\ k.type = Of(x)[i].type

(* "the only way we can recurse is through a StructValue, which indirects  *)
(* through the typeInfo", typeapply.go, so that the dummy, which panics,   *)
(* is never called.  That is so as long as every pointer, slice or map q   *)
(* is met before the type s of its elements, if s leads back to q; but not *)
(* when a recursive struct is given to Do, or held, as a value.            *)
AllParts    == UNION {Parts(x) : x \in Type \ {Target}}
Avoiding(q) == Closure(asked \ {q}, {e \in AllParts : q \notin {e[1], e[2]}})

ThroughPointers ==
  \A q \in {q \in Type : decl[q].kind # "struct"} : \A i \in DOMAIN Of(q) :
    LET s == Of(q)[i].type
    IN  q \in Closure({s}, AllParts) => s # q /\ s \notin Avoiding(q)

DummyUncalled ==
  (\E x \in Type : \E k \in m[x].trav.takes : k.dummy) => ~ ThroughPointers
=============================================================================
