-------------------------------- MODULE Ldd ---------------------------------
(***************************************************************************)
(* The search for the libraries a program needs: a work list of names, the *)
(* names already known, and the files found so far.  A path is a sequence  *)
(* of names; a name to look for (a program, a library, what a symbolic     *)
(* link says) is a reference, absolute or relative.  A path that begins    *)
(* with the name "" is relative to the working directory.                  *)
(***************************************************************************)
EXTENDS Naturals, FiniteSets, SequencesExt

CONSTANTS
  Disks,     \* the file systems considered: functions from paths to nodes
  Programs,  \* references to programs; absolute ones, which the code assumes
  Cwd,       \* the working directory
  Root,      \* flag -r: where the file system of the nodes is found
  LibPath,   \* flag -L: the directories to search, in order
  Cap        \* the capacity of the channel that holds the work list

Name == {"", ".", ".."} \cup STRING
Path == Seq(Name)
Ref  == [abs : BOOLEAN, to : Path]
Node == [kind : {"file", "dir", "link", "other"},
         entries : Seq(Name),  \* of a directory, in lexical order
         target : Ref,           \* of a link
         elf : {"no", "ok", "broken"}, needs : Seq(Ref)]

ASSUME DisksAssumption ==
  \A d \in Disks : IsFiniteSet(DOMAIN d) /\ d \in [DOMAIN d -> Node]
ASSUME CwdAssumption == Cwd \in Path
ASSUME RootAssumption == Root \in Path
ASSUME LibPathAssumption == LibPath \in Seq(Path)
ASSUME CapAssumption == Cap \in Nat \ {0}
ASSUME ProgramsAssumption == \A p \in Programs : p \in Ref /\ p.abs

VARIABLES
  disk, prog,
  lpc,     \* where the search is
  queue,   \* the work list
  lib,     \* the name being dealt with
  bin,     \* the file it was found in
  libdir,  \* the directory of LibPath that was in
  rest,    \* names the file imports that are not yet in the work list
  known,   \* names dealt with
  files    \* the result, as references
lddVars == <<lpc, queue, lib, bin, libdir, rest, known, files>>

(* path.Join: "." and ".." are resolved without looking at the disk.       *)
Joined(q, n) ==
  CASE n = "."  -> q
    [] n = ".." -> IF q = <<>> THEN q
                   ELSE IF Last(q) \in {"", ".."} THEN Append(q, n) ELSE Front(q)
    [] OTHER    -> Append(q, n)

Clean(p) ==
  LET upto[i \in 0..Len(p)] == IF i = 0 THEN <<>> ELSE Joined(upto[i - 1], p[i])
  IN  IF Range(p) \cap {".", ".."} = {} THEN p ELSE upto[Len(p)]

(* What the system finds under a path, which may be relative, and have     *)
(* names in it that path.Join would resolve.                               *)
Place == [p \in Path |-> Clean(IF p # <<>> /\ p[1] = "" THEN Cwd \o Tail(p) ELSE p)]
Exists(p) == Place[p] \in DOMAIN disk
Lstat(p)  == disk[Place[p]]
IsLink(p) == Exists(p) /\ Lstat(p).kind = "link"

Readlink(p) == Lstat(p).target
Resolve(p)  == Clean(IF Readlink(p).abs THEN Readlink(p).to
                     ELSE Front(p) \o Readlink(p).to)

(* The file an open of p comes to, or a link if it goes in circles.        *)
Behind == [p \in Path |-> IF IsLink(p) THEN Resolve(p) ELSE p]
Ends(p) ==
  LET Bound == Cardinality(DOMAIN disk)
      follow[n \in 0..Bound] == IF n = 0 THEN p ELSE Behind[follow[n - 1]]
  IN  follow[Bound]

IsElf(p) == Exists(Ends(p)) /\ Lstat(Ends(p)).kind = "file" /\ Lstat(Ends(p)).elf # "no"

(* Where a name is looked for, and the first of those places that has it.  *)
Dirs(ref)     == IF ref.abs THEN << <<>> >> ELSE LibPath
At(ref, i)    == Clean(Root \o Dirs(ref)[i] \o ref.to)
Found(ref)    == \E i \in DOMAIN Dirs(ref) : IsElf(At(ref, i))
FirstHit(ref) == CHOOSE i \in DOMAIN Dirs(ref) :
                   IsElf(At(ref, i)) /\ \A j \in 1..(i - 1) : ~ IsElf(At(ref, j))
FileOf(ref)   == At(ref, FirstHit(ref))
Imports(ref)  == Lstat(Ends(FileOf(ref))).needs

LddTypeOK ==
  /\ disk \in Disks /\ prog \in Programs
  /\ lpc \in {"start", "take", "push", "links", "done", "failed"}
  /\ queue \in Seq(Ref) /\ Len(queue) <= Cap
  /\ lib \in Ref /\ bin \in Path /\ libdir \in Path
  /\ rest \in Seq(Ref) /\ known \in SUBSET Ref /\ files \in Seq(Ref)

LddInit ==
  /\ disk \in Disks /\ prog \in Programs
  /\ lpc = "start" /\ queue = <<>> /\ lib = prog /\ bin = <<>> /\ libdir = <<>>
  /\ rest = <<>> /\ known = {} /\ files = <<>>

LddOpens ==
  /\ lpc = "start" /\ IsElf(At(prog, 1))
  /\ queue' = <<prog>>
  /\ lpc' = "take"
  /\ UNCHANGED <<lib, bin, libdir, rest, known, files>>

(* Nothing there, or a script: the result is empty, with an error.         *)
LddNotElf ==
  /\ lpc = "start" /\ ~ IsElf(At(prog, 1))
  /\ lpc' = "failed"
  /\ UNCHANGED <<queue, lib, bin, libdir, rest, known, files>>

LddKnown ==
  /\ lpc = "take" /\ queue # <<>> /\ Head(queue) \in known
  /\ queue' = Tail(queue)
  /\ UNCHANGED <<lpc, lib, bin, libdir, rest, known, files>>

FoundWith(imports) ==
  /\ lpc = "take" /\ queue # <<>> /\ Head(queue) \notin known
  /\ LET l == Head(queue)
     IN  /\ Found(l) /\ Lstat(Ends(FileOf(l))).elf = "ok"
         /\ lib' = l
         /\ bin' = FileOf(l)
         /\ libdir' = Dirs(l)[FirstHit(l)]
  /\ rest' = imports
  /\ queue' = Tail(queue)
  /\ lpc' = "push"
  /\ UNCHANGED <<known, files>>

(* Variant that looks only at what the program itself imports.             *)
LddFoundShallow == FoundWith(IF Head(queue) = prog THEN Imports(prog) ELSE <<>>)

LddFound == FoundWith(Imports(Head(queue)))

(* One library that is missing or damaged empties the whole result.        *)
LddMissing ==
  /\ lpc = "take" /\ queue # <<>> /\ Head(queue) \notin known
  /\ Found(Head(queue)) => Lstat(Ends(FileOf(Head(queue)))).elf = "broken"
  /\ queue' = Tail(queue)
  /\ files' = <<>>
  /\ lpc' = "failed"
  /\ UNCHANGED <<lib, bin, libdir, rest, known>>

PushUpTo(limit) ==
  /\ lpc = "push" /\ rest # <<>> /\ Len(queue) < limit
  /\ queue' = Append(queue, Head(rest))
  /\ rest' = Tail(rest)
  /\ UNCHANGED <<lpc, lib, bin, libdir, known, files>>

(* Variant that takes the channel to be full one element too early.        *)
LddPushShort == PushUpTo(Cap - 1)

(* The only reader of the channel is its writer: when the channel is full  *)
(* this step blocks, and with it the program.                              *)
LddPush == PushUpTo(Cap)

LddAdd ==
  /\ lpc = "push" /\ rest = <<>>
  /\ known' = known \cup {lib}
  /\ files' = Append(files, [abs |-> TRUE, to |-> bin])
  /\ lpc' = "links"
  /\ UNCHANGED <<queue, lib, bin, libdir, rest>>

(* What a link says is part of the result as it stands, and is then looked *)
(* for in the directory the search had come to.                            *)
LddLink ==
  /\ lpc = "links" /\ IsLink(bin)
  /\ files' = Append(files, Readlink(bin))
  /\ bin' = Clean(Root \o libdir \o Readlink(bin).to)
  /\ known' = known \cup {Readlink(bin)}
  /\ UNCHANGED <<lpc, queue, lib, libdir, rest>>

LddNext ==
  /\ lpc = "links" /\ ~ IsLink(bin)
  /\ lpc' = "take"
  /\ UNCHANGED <<queue, lib, bin, libdir, rest, known, files>>

LddDone ==
  /\ lpc = "take" /\ queue = <<>>
  /\ lpc' = "done"
  /\ UNCHANGED <<queue, lib, bin, libdir, rest, known, files>>

LddStep ==
  \/ LddOpens \/ LddNotElf \/ LddKnown \/ LddFound \/ LddMissing
  \/ LddPush \/ LddAdd \/ LddLink \/ LddNext \/ LddDone

(* For reference: the names a program needs, directly or through others,   *)
(* which is the least set that has it and all that its members import.     *)
Needed(r) ==
  LET names == {r} \cup UNION {Range(disk[p].needs) : p \in DOMAIN disk}
      Complete(S) == r \in S /\ \A k \in S : Found(k) => Range(Imports(k)) \subseteq S
  IN  {n \in names : \A S \in SUBSET names : Complete(S) => n \in S}
=============================================================================
