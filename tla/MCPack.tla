------------------------------- MODULE MCPack -------------------------------
(***************************************************************************)
(* Instances of Pack for TLC: a program, three libraries of which two may  *)
(* import each other and one may be missing, damaged or behind links, and  *)
(* a directory of the user's with links in it.                             *)
(***************************************************************************)
EXTENDS Pack, TLC

NoRef  == [abs |-> FALSE, to |-> <<>>]
Rel(p) == [abs |-> FALSE, to |-> p]
Abs(p) == [abs |-> TRUE, to |-> p]

Plain == [kind |-> "file", entries |-> <<>>, target |-> NoRef, elf |-> "no", needs |-> <<>>]
Pipe  == [Plain EXCEPT !.kind = "other"]
LinkTo(r) == [Plain EXCEPT !.kind = "link", !.target = r]
DirOf(s)  == [Plain EXCEPT !.kind = "dir", !.entries = s]
Elf(s)    == [Plain EXCEPT !.elf = "ok", !.needs = s]
Damaged   == [Plain EXCEPT !.elf = "broken"]

a == Rel(<<"a">>)
b == Rel(<<"b">>)
c == Rel(<<"c">>)

(* A program that imports np; a link lib/a to a file that imports na; b,   *)
(* found in the second directory; and a third library.                     *)
System(np, na, nb, third) ==
  <<"bin", "prog">> :> Elf(np) @@ <<"lib", "a">> :> LinkTo(Rel(<<"a1">>))
  @@ <<"lib", "a1">> :> Elf(na) @@ <<"usr", "lib", "b">> :> Elf(nb) @@ third

Names == <<"a1", "back", "data", "gone", "lib", "pipe">>
Home ==
  <<"home">> :> DirOf(Names) @@ <<"home", "a1">> :> LinkTo(Rel(<<"data">>))
  @@ <<"home", "back">> :> LinkTo(Rel(<<"..", "home">>))
  @@ <<"home", "data">> :> Plain
  @@ <<"home", "gone">> :> LinkTo(Rel(<<"nowhere">>))
  @@ <<"home", "lib">> :> LinkTo(Abs(<<"lib", "a">>))
  @@ <<"home", "pipe">> :> Pipe

(* The third library: missing, damaged, in the first or in both places,    *)
(* behind two links of which one means another file where gproc e runs.    *)
Thirds == { <<>>,
  <<"lib", "c">> :> Damaged,
  <<"lib", "c">> :> Plain @@ <<"usr", "lib", "c">> :> Elf(<<b>>),
  <<"usr", "lib", "c">> :> LinkTo(Rel(<<"..", "lib", "c1">>)) @@ <<"lib", "c1">> :> Pipe
    @@ <<"usr", "lib", "c1">> :> LinkTo(Rel(<<"c2">>))
    @@ <<"usr", "lib", "c2">> :> Elf(<<a>>) }
Lists == {<<>>, <<a>>, <<a, b>>, <<b, c>>}

SomeDisks == {System(np, na, nb, t) @@ Home :
                np \in Lists, na \in {<<>>, <<b>>, <<b, c>>}, nb \in {<<>>, <<a>>}, t \in Thirds}

Prog == {Abs(<<"bin", "prog">>), Abs(<<"home", "data">>)}
Libs == << <<"lib">>, <<"usr", "lib">> >>
NoRoot == <<>>
AtHome == <<"home">>
TakeAlong == { <<>>, << <<"home">> >>, << <<"home", "back">> >>,
               << <<"home", "data">>, <<"lib", "a1">>, <<"home">> >> }
Nothing   == {}
=============================================================================
