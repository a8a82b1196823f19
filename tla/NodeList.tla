------------------------------ MODULE NodeList ------------------------------
(***************************************************************************)
(* The node lists of gproc e.  A list is the sequence of its tokens: ",",  *)
(* "/", "-" and what stands between them.                                  *)
(***************************************************************************)
EXTENDS Forth

(* strings.SplitN(l, sep, 2): one piece if sep does not occur.             *)
Cut2(l, sep) ==
  IF \E i \in DOMAIN l : l[i] = sep
  THEN LET i == CHOOSE i \in DOMAIN l : l[i] = sep /\ \A j \in 1..(i - 1) : l[j] # sep
       IN  << SubSeq(l, 1, i - 1), SubSeq(l, i + 1, Len(l)) >>
  ELSE << l >>

RECURSIVE Pieces(_, _)
Pieces(l, sep) ==
  LET c == Cut2(l, sep) IN IF Len(c) = 1 THEN c ELSE <<c[1]>> \o Pieces(c[2], sep)

Text(l) == IF l = <<>> THEN "" ELSE l[1]

(* Atoi with its error dropped.                                            *)
Bound(l) == IF Len(l) = 1 /\ IsInt(l[1]) THEN Atoi(l[1]) ELSE 0

(* Variant that leaves the end of a range out.                             *)
CountedOpen(beg, end) == [i \in 1..(end - beg) |-> Itoa(beg + i - 1)]

Counted(beg, end) == [i \in 1..(end - beg + 1) |-> Itoa(beg + i - 1)]

(* One nodeExecList.  The names of a range come after an empty one.        *)
Group(piece) ==
  LET l  == Cut2(piece, "/")
      be == Cut2(l[1], "-")
  IN  [ bad   |-> Len(be) = 2 /\ Bound(be[2]) < Bound(be[1]),
        nodes |-> IF Len(be) = 1 THEN <<Text(be[1])>>
                  ELSE <<"">> \o Counted(Bound(be[1]), Bound(be[2])),
        sub   |-> IF Len(l) = 2 THEN l[2] ELSE <<>> ]

ParseNodeList(l) == LET ps == Pieces(l, ",") IN [i \in DOMAIN ps |-> Group(ps[i])]
BadRange(groups) == \E i \in DOMAIN groups : groups[i].bad
=============================================================================
