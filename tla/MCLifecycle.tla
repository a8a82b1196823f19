---------------------------- MODULE MCLifecycle -----------------------------
(***************************************************************************)
(* Instances of Lifecycle for TLC: a master, three slaves, and four ways   *)
(* to start them.                                                          *)
(***************************************************************************)
EXTENDS Selection

CONSTANTS m, s1, s2, s3

Names == {"kn", "slave", "front", "login", "-", ""}
Some  == -20..60

Triple(i, a, q) == [myId |-> i, myAddress |-> a, myParent |-> q]
Word(w)   == <<w>>
Hostname  == Word("hostname")
Hostbase  == <<"hostname", "hostbase">>
Default   == Triple(Word("0"), Hostname, Hostname)
Of(x, y1, y2, y3) == m :> x @@ s1 :> y1 @@ s2 :> y2 @@ s3 :> y3
AllSlaves(f) == Of([Default EXCEPT !.myAddress = Word("10.0.0.1")], f, f, f)

(* startkane.go: nodes in blocks of 20, the last of a block on top.        *)
InBlocks == Triple(Hostbase, Hostname,
              <<"10.0.0.1", "kn", "hostname", "hostbase", "20", "roundup", "strcat",
                "hostname", "hostbase", "20", "%", "ifelse">>)
Kane ==
  [ host  |-> Of("front", "kn20", "kn3", "kn40"),
    flags |-> AllSlaves(InBlocks),
    place |-> Of(<<>>, <<"20">>, <<"20", "3">>, <<"40">>) ]

(* README: the leaves below the node of their number mod 4; one host has   *)
(* no number.                                                              *)
Leaf == Triple(Hostbase, Hostname,
               <<"slave", "hostname", "hostbase", "4", "%", "strcat">>)
ReadMe ==
  LET top == [Leaf EXCEPT !.myParent = Word("10.0.0.1")]
  IN  [ host  |-> Of("front", "slave0", "slave4", "login"),
        flags |-> [AllSlaves(Leaf) EXCEPT ![s1] = top, ![s3] = top],
        place |-> Of(<<>>, <<"0">>, <<"0", "4">>, <<>>) ]

(* Each node below the one before it.                                      *)
Chain ==
  [ host  |-> Of("front", "kn1", "kn2", "kn3"),
    flags |-> AllSlaves(Triple(Hostbase, Hostname,
                <<"10.0.0.1", "kn", "hostname", "hostbase", "1", "-", "strcat",
                  "hostname", "hostbase", "1", "-", "ifelse">>)),
    place |-> Of(<<>>, <<"1">>, <<"1", "2">>, <<"1", "2", "3">>) ]

(* Everything on one system, with the default flags.                       *)
OneSystem ==
  [ host  |-> Of("front", "front", "front", "front"),
    flags |-> Of(Default, Default, Default, Default),
    place |-> Of(<<>>, <<>>, <<>>, <<>>) ]

Cluster ==
  LET num(n) == ToString(n)
  IN  {[flags |-> InBlocks, host |-> "kn" \o num(n), id |-> num(n),
        parent |-> IF n % 20 = 0 THEN "10.0.0.1" ELSE "kn" \o num(20 * (n \div 20 + 1))]
         : n \in 1..60}
      \cup {[flags |-> Leaf, host |-> "slave" \o num(n), id |-> num(n),
             parent |-> "slave" \o num(n % 4)] : n \in 4..60}

Ways == {Kane, ReadMe, Chain, OneSystem}

Dot    == <<".">>
Ids(S) == {ToString(n) : n \in S}
All    == Ids(0..60)
NodeLists == {
  [tokens |-> Dot, paths |-> {<<All>>}],
  [tokens |-> <<".", "/", ".">>, paths |-> {<<All, All>>}],
  [tokens |-> <<"1", "/", ".">>, paths |-> {<<{"1"}, All>>}],
  [tokens |-> <<".", "/", ".", "/", "1", "-", "3">>, paths |-> {<<All, All, Ids(1..3)>>}],
  [tokens |-> <<"1", "-", "20">>, paths |-> {<<Ids(1..20)>>}],
  [tokens |-> <<"20", "/", "3", "-", "19", ",", "40">>,
   paths |-> {<<{"20"}, Ids(3..19)>>, <<{"40"}>>}],
  [tokens |-> <<"1", "/", "2", "/", "7">>, paths |-> {<<{"1"}, {"2"}, {"7"}>>}],
  [tokens |-> <<"1", ",", "3", "-", "2">>, paths |-> {}],
  (* Names in ranges: from 0, to 0, and only 0.                            *)
  [tokens |-> <<"all", "-", "3">>, paths |-> {<<Ids(0..3)>>}],
  [tokens |-> <<"1", "-", "last">>, paths |-> {}],
  [tokens |-> <<"all", "-", "last", "/", ".">>, paths |-> {<<{"0"}, All>>}],
  [tokens |-> <<"1", "/", ".", "-", "2", ",", "0", "/", "1", "-", "last">>,
   paths |-> {<<{"1"}, Ids(0..2)>>, <<{"0"}>>}] }
=============================================================================
