------------------------------- MODULE MCExec -------------------------------
(***************************************************************************)
(* Instances of Exec for TLC: small trees of slaves and the requests the   *)
(* runs send down them.                                                    *)
(***************************************************************************)
EXTENDS Exec, TLC

CONSTANTS s1, s2, s3, m, c1, c2

(* One first-level slave with one slave of its own.                        *)
PairParent == s1 :> m @@ s2 :> s1
PairAbove  == s1 :> {} @@ s2 :> {s1}

(* A chain of three levels.                                                *)
ChainParent == s1 :> m @@ s2 :> s1 @@ s3 :> s2
ChainAbove  == s1 :> {} @@ s2 :> {s1} @@ s3 :> {s1, s2}

(* "./." twice over.                                                       *)
EveryoneTwice == c1 :> << <<Dot, Dot>> >> @@ c2 :> << <<Dot, Dot>> >>
(* "././."                                                                 *)
Deep == c1 :> << <<Dot, Dot, Dot>> >>
(* "1/.,1/3-1": one node reached by two groups, the range below the second *)
(* malformed.                                                              *)
SameNode == c1 :> << <<Ids({s1}), Dot>>, <<Ids({s1}), BadRange>> >>
=============================================================================
