----------------------------- MODULE Selection ------------------------------
(***************************************************************************)
(* Which daemons of a tree (Lifecycle) a node list (NodeList) selects: the *)
(* master looks its groups up in its table, and every daemon that is asked *)
(* looks the rest of its path up in its own.                               *)
(***************************************************************************)
EXTENDS Lifecycle, NodeList

CONSTANT
  Lists  \* node lists: their tokens, and the ids they go through, level by level

ServIntersect(q, names) ==
  IF Head(names) = "." THEN {table[q][i] : i \in Id} \ {None}
  ELSE UNION {Get(q, names[k]) : k \in DOMAIN names}

(* The daemons that are asked when q is given one group, and those below   *)
(* them: an R process only looks at the first group of what it is passed.  *)
RECURSIVE Asked(_, _)
Asked(q, group) ==
  LET here == ServIntersect(q, group.nodes) \ {Dead}
      rest == ParseNodeList(group.sub)
  IN  here \cup IF BadRange(rest) THEN {} ELSE UNION {Asked(d, rest[1]) : d \in here}

Selected(l) ==
  LET groups == ParseNodeList(l)
  IN  IF BadRange(groups) THEN {}
      ELSE UNION {Asked(Master, groups[i]) : i \in DOMAIN groups}
-----------------------------------------------------------------------------
(* The daemons from which connections lead up to the master.               *)
RECURSIVE Connected(_)
Connected(p) ==
  /\ phase[p] \in {"up", "listening"}
  /\ link[p] = Master \/ (link[p] \in Slave /\ Connected(link[p]))

Matches(place, path) ==
  place # <<>> /\ Len(place) <= Len(path) /\ \A i \in DOMAIN place : place[i] \in path[i]

(* A list goes down level by level: "1-3/1-3 is all of nodes 1-3 on nodes  *)
(* 1-3", common.go, and the nodes on the way run the program too.  A bound *)
(* that is no number counts as 0.  In a documented tree a list selects the *)
(* slaves whose ids, from the first level to their own, are those it goes  *)
(* through, no more and no fewer, as far as they are connected now: the    *)
(* computed ids and parents, the tables that slaves which died half-way or *)
(* came back have left, and the parsing of lists at every level agree.     *)
SelectsByLevel ==
  Documented => \A l \in Lists :
    Selected(l.tokens) =
      {p \in Slave : Connected(p) /\ \E path \in l.paths : Matches(conf.place[p], path)}
=============================================================================
