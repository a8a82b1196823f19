---------------------------- MODULE MCTypeApply -----------------------------
(***************************************************************************)
(* Instances of TypeApply for TLC: a struct a of two fields, a type b of   *)
(* any kind and a pointer or an interface p, referring to each other, to   *)
(* the target t and to an integer o in every way Go allows.                *)
(***************************************************************************)
EXTENDS TypeApply, TLC

CONSTANTS a, b, p, t, o

All == {a, b, p, t, o}
Shown(x)     == [type |-> x, public |-> TRUE]
Hidden(x)    == [type |-> x, public |-> FALSE]
Shape(k, of) == [kind |-> k, of |-> of]

Basic      == Shape("basic", <<>>)
Pointers   == {Shape("ptr", <<Shown(x)>>) : x \in All}
Slices     == {Shape("slice", <<Shown(x)>>) : x \in {a, b, t}}
Maps       == {Shape("map", <<Shown(k), Shown(x)>>) : k \in {p, t, o}, x \in {a, b, t, o}}
Interfaces == {Shape("interface", <<>>)}
Structs(S) == {Shape("struct", <<Shown(x), Shown(y)>>) : x \in S, y \in S}
              \cup {Shape("struct", <<Shown(x), Hidden(y)>>) : x \in S, y \in {p, t}}

(* A value of a struct type cannot hold another value of it.               *)
Legal(d) ==
  LET E == {<<x, d[x].of[i].type>> : x \in {x \in {a, b} : d[x].kind = "struct"}, i \in {1, 2}}
  IN  <<a, a>> \notin E /\ <<b, b>> \notin E /\ ~ {<<a, b>>, <<b, a>>} \subseteq E

Programs ==
  {d \in {a :> x @@ b :> y @@ p :> z @@ t :> Basic @@ o :> Basic :
            x \in Structs({b, p, t, o}),
            y \in Structs({a, p, t, o}) \cup Pointers \cup Slices \cup Maps \cup Interfaces,
            z \in Pointers \cup Interfaces} : Legal(d)}
=============================================================================
