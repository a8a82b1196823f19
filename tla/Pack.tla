-------------------------------- MODULE Pack --------------------------------
(***************************************************************************)
(* What gproc e takes along: the working directory itself, what -f lists,  *)
(* the program and its libraries.  Each is walked (filepath.Walk with a    *)
(* packVisitor); where the walk meets a symbolic link it starts another    *)
(* walk inside it.  The recursion is a stack of what is still to do.       *)
(***************************************************************************)
EXTENDS Ldd

CONSTANTS
  Alongs,  \* possible values of flag -f: sequences of paths
  Except   \* references the master says not to send

ASSUME AlongsAssumption == Alongs \subseteq Seq(Path)

VARIABLES
  localbin,  \* flag -localbin: the nodes have the program already
  ppc, todo, \* walks to come
  stack,     \* of the walk under way, the next thing to do first
  visited,   \* alreadyVisited
  cmds       \* the paths packed, in order
packVars == <<localbin, ppc, todo, stack, visited, cmds>>
vars == <<disk, prog, lddVars, packVars>>

Frame == [do : {"walk", "mark"}, path : Path]

TypeOK ==
  /\ LddTypeOK
  /\ localbin \in BOOLEAN
  /\ ppc \in {"along", "ldd", "libs", "done"}
  /\ todo \in Seq(Path) /\ stack \in Seq(Frame)
  /\ visited \in SUBSET Path /\ cmds \in Seq(Path)
  /\ ppc \in {"ldd", "done"} => todo = <<>> /\ stack = <<>>
  /\ ppc \in {"libs", "done"} => lpc \in {"done", "failed"}

(* The working directory goes without its contents, which the "." stands   *)
(* for.                                                                    *)
Init ==
  /\ LddInit
  /\ localbin \in BOOLEAN
  /\ ppc = "along"
  /\ \E along \in Alongs : todo = << Append(Cwd, ".") >> \o along
  /\ stack = <<>> /\ visited = {} /\ cmds = <<>>

Walk(p) == [do |-> "walk", path |-> p]
Mark(p) == [do |-> "mark", path |-> p]
Doing(what) == stack # <<>> /\ Head(stack).do = what

NextWalk ==
  /\ ppc \in {"along", "libs"}
  /\ todo # <<>> /\ stack = <<>>
  /\ stack' = <<Walk(Head(todo))>>
  /\ todo' = Tail(todo)
  /\ UNCHANGED <<disk, prog, lddVars, localbin, ppc, visited, cmds>>

Top == Head(stack).path

WalkMissing ==
  /\ Doing("walk") /\ ~ Exists(Top)
  /\ stack' = Tail(stack)
  /\ UNCHANGED <<disk, prog, lddVars, localbin, ppc, todo, visited, cmds>>

VisitAgain ==
  /\ Doing("walk") /\ Exists(Top) /\ Top \in visited
  /\ stack' = Tail(stack)
  /\ UNCHANGED <<disk, prog, lddVars, localbin, ppc, todo, visited, cmds>>

(* A directory is marked before its entries are walked.                    *)
VisitDir ==
  /\ Doing("walk") /\ Exists(Top) /\ Top \notin visited
  /\ Lstat(Top).kind = "dir"
  /\ cmds' = Append(cmds, Top)
  /\ visited' = visited \cup {Top}
  /\ LET names == Lstat(Top).entries
     IN  stack' = IF Last(Top) = "." THEN Tail(stack)
                  ELSE [i \in DOMAIN names |-> Walk(Clean(Append(Top, names[i])))] \o Tail(stack)
  /\ UNCHANGED <<disk, prog, lddVars, localbin, ppc, todo>>

VisitFileMarking(p) ==
  /\ Doing("walk") /\ Exists(Top) /\ Top \notin visited
  /\ Lstat(Top).kind \in {"file", "other"}
  /\ cmds' = Append(cmds, Top)
  /\ visited' = visited \cup p
  /\ stack' = Tail(stack)
  /\ UNCHANGED <<disk, prog, lddVars, localbin, ppc, todo>>

(* Variant that forgets to mark what it has packed.                        *)
VisitFileUnmarked == VisitFileMarking({})

VisitFile == VisitFileMarking({Top})

(* A link is marked only after what it leads to has been walked.           *)
Follow(target) ==
  /\ Doing("walk") /\ Exists(Top) /\ Top \notin visited
  /\ IsLink(Top)
  /\ cmds' = Append(cmds, Top)
  /\ stack' = <<Walk(target), Mark(Top)>> \o Tail(stack)
  /\ UNCHANGED <<disk, prog, lddVars, localbin, ppc, todo, visited>>

(* Variant that resolves a relative link against the working directory.    *)
VisitLinkInCwd ==
  Follow(Clean(IF Readlink(Top).abs THEN Readlink(Top).to ELSE Cwd \o Readlink(Top).to))

VisitLink == Follow(Resolve(Top))

LinkWalked ==
  /\ Doing("mark")
  /\ visited' = visited \cup {Top}
  /\ stack' = Tail(stack)
  /\ UNCHANGED <<disk, prog, lddVars, localbin, ppc, todo, cmds>>

LddBeginsIf(ready) ==
  /\ ppc = "along" /\ todo = <<>> /\ ready
  /\ ppc' = "ldd"
  /\ UNCHANGED <<disk, prog, lddVars, localbin, todo, stack, visited, cmds>>

(* Variant that does not wait for the walk under way.                      *)
LddBeginsEarly == LddBeginsIf(TRUE)

LddBegins == LddBeginsIf(stack = <<>>)

LddRuns ==
  /\ ppc = "ldd" /\ LddStep
  /\ UNCHANGED <<disk, prog, packVars>>

(* The name is appended to the root as a string: under a root a relative   *)
(* one names nothing, without one it stays relative, to the working        *)
(* directory and not to where the link is.                                 *)
Rooted(ref) ==
  CASE ref.abs                  -> <<Root \o ref.to>>
    [] ~ ref.abs /\ Root = <<>> -> << <<"">> \o ref.to >>
    [] OTHER                    -> <<>>

Walks(fs) ==
  LET upto[i \in 0..Len(fs)] ==
        IF i = 0 THEN <<>>
        ELSE upto[i - 1] \o IF fs[i] \in Except THEN <<>> ELSE Rooted(fs[i])
  IN  upto[Len(fs)]

(* The error of the search is dropped; an empty result is no error here.   *)
LddEnds ==
  /\ ppc = "ldd" /\ lpc \in {"done", "failed"}
  /\ todo' = IF localbin THEN <<>> ELSE Walks(files)
  /\ ppc' = "libs"
  /\ UNCHANGED <<disk, prog, lddVars, localbin, stack, visited, cmds>>

Packed ==
  /\ ppc = "libs" /\ todo = <<>> /\ stack = <<>>
  /\ ppc' = "done"
  /\ UNCHANGED <<disk, prog, lddVars, localbin, todo, stack, visited, cmds>>

Next ==
  \/ NextWalk \/ WalkMissing \/ VisitAgain \/ VisitDir \/ VisitFile \/ VisitLink
  \/ LinkWalked \/ LddBegins \/ LddRuns \/ LddEnds \/ Packed

(* One thread of one process, which goes on as long as it can.             *)
Spec == Init /\ [][Next]_vars /\ WF_vars(Next)

-----------------------------------------------------------------------------
(* Every library the program needs, directly or not, goes along when the   *)
(* search has found them all, and so does the file behind every link on    *)
(* the way to it.                                                          *)
LibrariesTravel ==
  ppc = "done" /\ lpc = "done" /\ ~ localbin =>
    \A r \in Needed(prog) : {FileOf(r), Ends(FileOf(r))} \subseteq Range(cmds)

(* Nothing that goes along is a link to something that stays behind.       *)
LinksLead ==
  ppc = "done" =>
    \A p \in Range(cmds) :
      IsLink(p) /\ Exists(Resolve(p)) => Resolve(p) \in Range(cmds)

(* Where the walk of a link or of a directory goes next.                   *)
Leads(p, q) ==
  \/ IsLink(p) /\ q = Resolve(p)
  \/ /\ Lstat(p).kind = "dir" /\ Last(p) # "."
     /\ \E k \in DOMAIN Lstat(p).entries : q = Clean(Append(p, Lstat(p).entries[k]))

(* A packed link leads back if whoever follows it, through links and       *)
(* directories that are packed, comes to it again: it is in every set of   *)
(* those that has what it leads to and what the members lead to.           *)
Onward == {p \in Range(cmds) : Lstat(p).kind \in {"link", "dir"}}
LeadsBack(l) ==
  /\ IsLink(l)
  /\ \A S \in SUBSET Onward :
       (\A p \in S \cup {l}, q \in Onward : Leads(p, q) => q \in S) => l \in S

(* No path is packed twice, through however many links, lists and walks it *)
(* is met, but for a link that leads back to itself: it is marked as       *)
(* visited only when the walk of its target is over.                       *)
PackedOnce ==
  \A i, j \in DOMAIN cmds : cmds[i] = cmds[j] => i = j \/ LeadsBack(cmds[i])

(* The search and the walks come to an end, libraries that import each     *)
(* other and links back into their own directory included.                 *)
PackingEnds == <>(ppc = "done")
=============================================================================
