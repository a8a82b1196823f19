---------------------------- MODULE FileMarshal -----------------------------
(***************************************************************************)
(* How the files of a request travel down the tree.  On every connection   *)
(* the encoder writes the value, then the list of the distinct file names  *)
(* in it, then the contents of the regular files among them in the order   *)
(* of that list, each cut into chunks and closed by an empty one; the      *)
(* decoder replays the list against the files it finds in its own value.   *)
(* A node passes on the copies it has received, once it has received all.  *)
(***************************************************************************)
EXTENDS Naturals, Sequences

CONSTANTS
  Hops,      \* connection h leads from node h - 1 to node h; node 0 is the master
  Manifest,  \* the files in the value, in the order the encoder's walk meets them
  Seen,      \* those in the decoder's value, in the order of its walk
  Content,   \* Content[n]: what the master has under name n
  Old,       \* Old[h][n]: what node h has under that name before
  Chunk,     \* pieces of regular files; a regular file is a sequence of them
  Absent, Dir, Link,
  Versions,  \* what somebody may write in place of a regular file of the master
  Faults     \* subset of {"vanish", "change", "read", "cut"}

Node == 0..Hops
Conn == 1..Hops
Name == DOMAIN Content
File == [name : Name, ftype : {"file", "dir", "link"}]

(* What a name may stand for on a disk.                                    *)
Stored == Seq(Chunk) \cup {Absent, Dir, Link}

Is(x, ftype) == CASE ftype = "file" -> x \in Seq(Chunk)
                  [] ftype = "dir"  -> x = Dir
                  [] ftype = "link" -> x = Link

ASSUME HopsAssumption == Hops \in Nat \ {0}
ASSUME ManifestAssumption ==
  /\ Content \in [Name -> Stored]
  /\ Manifest \in Seq(File) /\ Seen \in Seq(File)
  /\ \A i \in DOMAIN Manifest : Is(Content[Manifest[i].name], Manifest[i].ftype)
  /\ \A j \in DOMAIN Seen : Is(Content[Seen[j].name], Seen[j].ftype)
(* gproc sends files with a StartReq only, and receives into one: the walk *)
(* of the decoder meets the names that the walk of the encoder met.        *)
ASSUME ValueAssumption ==
  {Manifest[i].name : i \in DOMAIN Manifest} = {Seen[j].name : j \in DOMAIN Seen}
ASSUME MarkAssumption ==
  Absent # Dir /\ Absent # Link /\ Dir # Link /\ {Absent, Dir, Link} \cap Seq(Chunk) = {}
ASSUME OldAssumption == Old \in [Conn -> [Name -> Seq(Chunk) \cup {Absent, Dir}]]
ASSUME FaultsAssumption ==
  Versions \subseteq Seq(Chunk) /\ Faults \subseteq {"vanish", "change", "read", "cut"}

(* The list of names has every name once, at its first occurrence; the     *)
(* decoder takes the first of its files of that name.                      *)
Listed(i)  == \A j \in 1..(i - 1) : Manifest[j].name # Manifest[i].name
Same(i)    == {j \in DOMAIN Seen : Seen[j].name = Manifest[i].name}
SeenAs(i)  == Seen[CHOOSE j \in Same(i) : \A k \in Same(i) : j <= k]

VARIABLES
  disk,   \* disk[h][n]: what node h has under name n
  enc,    \* phase of the encoder of connection h
  ei,     \* the manifest entry it is at
  fd,     \* the file it reads: what is in it now
  sent,   \* sent[h][n]: what it has read of n, and written; the code has the length of it
  torn,   \* history: the names that the sender of h has, or has sent, other than whole
  chan,   \* the bytes on the connection, as the values gob wrote
  dec,    \* phase of the decoder
  di,     \* the entry of the received list it is at
  pos     \* chunks of that file already written

encVars == <<enc, ei, fd, sent, torn>>
decVars == <<dec, di, pos>>
vars    == <<disk, encVars, chan, decVars>>

Msg == [kind : {"value", "names", "end"}] \cup [kind : {"data"}, data : Chunk]

TypeOK ==
  /\ disk \in [Node -> [Name -> Stored]]
  /\ enc \in [Conn -> {"idle", "names", "next", "read", "done", "error", "gone"}]
  /\ ei \in [Conn -> 1..(Len(Manifest) + 1)]
  /\ fd \in [Conn -> Seq(Chunk)]
  /\ sent \in [Conn -> [Name -> Seq(Chunk)]]
  /\ torn \in [Conn -> SUBSET Name]
  /\ chan \in [Conn -> Seq(Msg)]
  /\ dec \in [Conn -> {"value", "names", "next", "chunks", "done", "failed"}]
  /\ di \in [Conn -> 1..(Len(Manifest) + 1)]
  /\ pos \in [Conn -> Nat]

Init ==
  /\ disk = [h \in Node |-> IF h = 0 THEN Content ELSE Old[h]]
  /\ enc = [h \in Conn |-> "idle"]
  /\ ei = [h \in Conn |-> 1]
  /\ fd = [h \in Conn |-> <<>>]
  /\ sent = [h \in Conn |-> [n \in Name |-> <<>>]]
  /\ torn = [h \in Conn |-> {}]
  /\ chan = [h \in Conn |-> <<>>]
  /\ dec = [h \in Conn |-> "value"]
  /\ di = [h \in Conn |-> 1]
  /\ pos = [h \in Conn |-> 0]

Put(h, m) == chan' = [chan EXCEPT ![h] = Append(@, m)]
Get(h)    == chan' = [chan EXCEPT ![h] = Tail(@)]

-----------------------------------------------------------------------------
(* encoder.Encode.                                                         *)

(* A node below the master delegates after its own Recv has returned.      *)
EncValue(h) ==
  /\ enc[h] = "idle"
  /\ h > 1 => dec[h - 1] = "done"
  /\ enc' = [enc EXCEPT ![h] = "names"]
  /\ torn' = IF h = 1 THEN torn ELSE [torn EXCEPT ![h] = torn[h - 1]]
  /\ Put(h, [kind |-> "value"])
  /\ UNCHANGED <<disk, ei, fd, sent, decVars>>

EncNames(h) ==
  /\ enc[h] = "names"
  /\ enc' = [enc EXCEPT ![h] = "next"]
  /\ Put(h, [kind |-> "names"])
  /\ UNCHANGED <<disk, ei, fd, sent, torn, decVars>>

(* Directories and links have no contents.                                 *)
EncSkip(h) ==
  /\ enc[h] = "next"
  /\ ei[h] <= Len(Manifest)
  /\ ~ Listed(ei[h]) \/ Manifest[ei[h]].ftype # "file"
  /\ ei' = [ei EXCEPT ![h] = @ + 1]
  /\ UNCHANGED <<disk, enc, fd, sent, torn, chan, decVars>>

AtName(h) == Manifest[ei[h]].name
Off(h)    == Len(sent[h][AtName(h)])

OpenExcept(h, closed) ==
  /\ enc[h] = "next"
  /\ ei[h] <= Len(Manifest)
  /\ Listed(ei[h]) /\ Manifest[ei[h]].ftype = "file"
  /\ LET file == disk[h - 1][AtName(h)]
     IN  \/ /\ file \notin closed
            /\ enc' = [enc EXCEPT ![h] = "read"]
            /\ fd' = [fd EXCEPT ![h] = file]
            /\ sent' = [sent EXCEPT ![h][AtName(h)] = <<>>]
         \/ /\ file \in closed
            /\ enc' = [enc EXCEPT ![h] = "error"]
            /\ UNCHANGED <<fd, sent>>
  /\ UNCHANGED <<disk, ei, torn, chan, decVars>>

(* Variant that reads before it looks at the error of the open.            *)
EncOpenUnchecked(h) == OpenExcept(h, {})

(* A file that cannot be opened ends Encode.  Send only logs the error, so *)
(* the connection stays as it is until the process ends (Cut).             *)
EncOpen(h) == OpenExcept(h, {Absent})

(* A read that gives something; if it also fails, the error is lost in the *)
(* err of Encode, and the loop reads on.                                   *)
EncChunk(h) ==
  /\ enc[h] = "read"
  /\ Off(h) < Len(fd[h])
  /\ sent' = [sent EXCEPT ![h][AtName(h)] = Append(@, fd[h][Off(h) + 1])]
  /\ Put(h, [kind |-> "data", data |-> fd[h][Off(h) + 1]])
  /\ UNCHANGED <<disk, enc, ei, fd, torn, decVars>>

(* A read that gives nothing closes the file: at its end, which somebody   *)
(* may have moved meanwhile, and just so where the read has failed.        *)
Close(h, with) ==
  /\ enc[h] = "read"
  /\ Off(h) >= Len(fd[h]) \/ "read" \in Faults
  /\ torn' = IF Off(h) >= Len(fd[h]) THEN torn ELSE [torn EXCEPT ![h] = @ \cup {AtName(h)}]
  /\ enc' = [enc EXCEPT ![h] = "next"]
  /\ ei' = [ei EXCEPT ![h] = @ + 1]
  /\ chan' = [chan EXCEPT ![h] = @ \o with]
  /\ UNCHANGED <<disk, fd, sent, decVars>>

End == [kind |-> "end"]

(* Variant that closes only files that had something in them.              *)
EncEndIfAny(h) == Close(h, IF Off(h) > 0 THEN <<End>> ELSE <<>>)

(* Variant that also writes the empty read at the end of the file.         *)
EncEndTwice(h) == Close(h, <<End, End>>)

EncEnd(h) == Close(h, <<End>>)

EncDone(h) ==
  /\ enc[h] = "next"
  /\ ei[h] = Len(Manifest) + 1
  /\ enc' = [enc EXCEPT ![h] = "done"]
  /\ UNCHANGED <<disk, ei, fd, sent, torn, chan, decVars>>

-----------------------------------------------------------------------------
(* decoder.Decode.                                                         *)

Ready(h, kind) == chan[h] # <<>> /\ Head(chan[h]).kind = kind

DecValue(h) ==
  /\ dec[h] = "value"
  /\ Ready(h, "value") /\ Get(h)
  /\ dec' = [dec EXCEPT ![h] = "names"]
  /\ UNCHANGED <<disk, encVars, di, pos>>

DecNames(h) ==
  /\ dec[h] = "names"
  /\ Ready(h, "names") /\ Get(h)
  /\ dec' = [dec EXCEPT ![h] = "next"]
  /\ UNCHANGED <<disk, encVars, di, pos>>

Entry(h) == Manifest[di[h]].name
Wanted(h) == Listed(di[h]) /\ Same(di[h]) # {}

(* The next name of the list is not among the decoder's own files.         *)
DecSkip(h) ==
  /\ dec[h] = "next"
  /\ di[h] <= Len(Manifest) /\ ~ Wanted(h)
  /\ di' = [di EXCEPT ![h] = @ + 1]
  /\ UNCHANGED <<disk, encVars, chan, dec, pos>>

(* Directories and links are made; if something is there already that is   *)
(* an error nobody looks at.                                               *)
DecMake(h) ==
  /\ dec[h] = "next"
  /\ di[h] <= Len(Manifest) /\ Wanted(h)
  /\ SeenAs(di[h]).ftype \in {"dir", "link"}
  /\ disk' = [disk EXCEPT ![h][Entry(h)] =
                IF @ # Absent THEN @ ELSE IF SeenAs(di[h]).ftype = "dir" THEN Dir ELSE Link]
  /\ di' = [di EXCEPT ![h] = @ + 1]
  /\ UNCHANGED <<encVars, chan, dec, pos>>

(* A regular file is opened, and not emptied; a directory cannot be opened *)
(* for writing.                                                            *)
DecOpen(h) ==
  /\ dec[h] = "next"
  /\ di[h] <= Len(Manifest) /\ Wanted(h)
  /\ SeenAs(di[h]).ftype = "file"
  /\ \/ /\ disk[h][Entry(h)] # Dir
        /\ disk' = [disk EXCEPT ![h][Entry(h)] = IF @ = Absent THEN <<>> ELSE @]
        /\ dec' = [dec EXCEPT ![h] = "chunks"]
        /\ pos' = [pos EXCEPT ![h] = 0]
     \/ /\ disk[h][Entry(h)] = Dir
        /\ dec' = [dec EXCEPT ![h] = "failed"]
        /\ UNCHANGED <<disk, pos>>
  /\ UNCHANGED <<encVars, chan, di>>

DecChunk(h) ==
  /\ dec[h] = "chunks"
  /\ Ready(h, "data") /\ Get(h)
  /\ LET d == Head(chan[h]).data
     IN  disk' = [disk EXCEPT ![h][Entry(h)] =
                    IF pos[h] < Len(@) THEN [@ EXCEPT ![pos[h] + 1] = d] ELSE Append(@, d)]
  /\ pos' = [pos EXCEPT ![h] = @ + 1]
  /\ UNCHANGED <<encVars, dec, di>>

DecEnd(h) ==
  /\ dec[h] = "chunks"
  /\ Ready(h, "end") /\ Get(h)
  /\ dec' = [dec EXCEPT ![h] = "next"]
  /\ di' = [di EXCEPT ![h] = @ + 1]
  /\ UNCHANGED <<disk, encVars, pos>>

DecDone(h) ==
  /\ dec[h] = "next"
  /\ di[h] = Len(Manifest) + 1
  /\ dec' = [dec EXCEPT ![h] = "done"]
  /\ UNCHANGED <<disk, encVars, chan, di, pos>>

FailsAt(h, phases) ==
  /\ dec[h] \in phases
  /\ chan[h] = <<>> /\ enc[h] = "gone"
  /\ dec' = [dec EXCEPT ![h] = "failed"]
  /\ UNCHANGED <<disk, encVars, chan, di, pos>>

(* Variant that tries again when a chunk cannot be read.                   *)
DecFailsInHeader(h) == FailsAt(h, {"value", "names"})

(* Variant that takes the end of the stream for the end of the last file.  *)
DecFailsBeforeFiles(h) ==
  \/ FailsAt(h, {"value", "names"})
  \/ /\ dec[h] = "chunks"
     /\ chan[h] = <<>> /\ enc[h] = "gone"
     /\ dec' = [dec EXCEPT ![h] = "done"]
     /\ UNCHANGED <<disk, encVars, chan, di, pos>>

(* The stream ends early: Decode returns an error.                         *)
DecFails(h) == FailsAt(h, {"value", "names", "chunks"})

-----------------------------------------------------------------------------
(* Faults.                                                                 *)

(* After mexec has listed the files of the master somebody removes one, or *)
(* writes it anew, in place.  Only regular files are read, and once one    *)
(* has been read it makes no difference what becomes of it.                *)
ToRead(n) ==
  /\ disk[0][n] \in Seq(Chunk)
  /\ enc[1] \in {"idle", "names", "next", "read"}
  /\ \E i \in ei[1]..Len(Manifest) :
       Manifest[i].name = n /\ Listed(i) /\ Manifest[i].ftype = "file"

Vanish(n) ==
  /\ "vanish" \in Faults
  /\ ToRead(n)
  /\ disk' = [disk EXCEPT ![0][n] = Absent]
  /\ UNCHANGED <<encVars, chan, decVars>>

Change(n) ==
  /\ "change" \in Faults
  /\ ToRead(n)
  /\ \E v \in Versions :
       /\ disk' = [disk EXCEPT ![0][n] = v]
       /\ fd' = IF enc[1] = "read" /\ AtName(1) = n THEN [fd EXCEPT ![1] = v] ELSE fd
  /\ torn' = [torn EXCEPT ![1] = @ \cup {n}]
  /\ UNCHANGED <<enc, ei, sent, chan, decVars>>

(* The sending process ends, or the collector closes a connection nobody   *)
(* holds any more; what is on its way may be lost from some point on.      *)
Cut(h) ==
  /\ "cut" \in Faults
  /\ enc[h] \notin {"idle", "gone"}
  /\ enc' = [enc EXCEPT ![h] = "gone"]
  /\ \E k \in 0..Len(chan[h]) : chan' = [chan EXCEPT ![h] = SubSeq(@, 1, k)]
  /\ UNCHANGED <<disk, ei, fd, sent, torn, decVars>>

-----------------------------------------------------------------------------
EncStep(h) ==
  \/ EncValue(h) \/ EncNames(h) \/ EncSkip(h) \/ EncOpen(h)
  \/ EncChunk(h) \/ EncEnd(h) \/ EncDone(h)
DecStep(h) ==
  \/ DecValue(h) \/ DecNames(h) \/ DecSkip(h) \/ DecMake(h) \/ DecOpen(h)
  \/ DecChunk(h) \/ DecEnd(h) \/ DecDone(h) \/ DecFails(h)

Next ==
  \/ \E h \in Conn : EncStep(h) \/ DecStep(h) \/ Cut(h)
  \/ \E n \in Name : Vanish(n) \/ Change(n)

(* Both ends of every connection go on as long as they can.                *)
Fairness == \A h \in Conn : WF_vars(EncStep(h)) /\ WF_vars(DecStep(h))

Spec     == Init /\ [][Next]_vars
FairSpec == Spec /\ Fairness

-----------------------------------------------------------------------------
(* Nothing that a node had before is longer than the file that comes under *)
(* its name, or of another type: what is longer keeps its tail, and what   *)
(* is of another type is left as it is.  The instance for TLC assumes it.  *)
Harmless ==
  \A h \in Conn, i \in DOMAIN Manifest :
    LET o == Old[h][Manifest[i].name]
    IN  CASE Manifest[i].ftype = "file" ->
               o \in Seq(Chunk) => Len(o) <= Len(Content[Manifest[i].name])
          [] Manifest[i].ftype = "dir"  -> o \in {Absent, Dir}
          [] Manifest[i].ftype = "link" -> o = Absent

(* A Decode that succeeds has left every file of its value on the disk as  *)
(* the master had it, however many nodes it came through, if Harmless; all *)
(* but those that were written anew before they were read, or that a node  *)
(* above, or the sender itself, could not read to the end: of these it has *)
(* what its sender did read.                                               *)
Intact ==
  \A h \in Conn : dec[h] = "done" =>
    \A j \in DOMAIN Seen :
      LET n == Seen[j].name
      IN  /\ n \notin torn[h] => disk[h][n] = Content[n]
          /\ n \in torn[h] => \A k \in 1..Len(sent[h][n]) : disk[h][n][k] = sent[h][n][k]

(* What NewDecoder says: a file that has been decoded holds the same data. *)
(* No part of it is missing unless Decode says so.                         *)
SameData ==
  \A h \in Conn : dec[h] = "done" =>
    \A j \in DOMAIN Seen : disk[h][Seen[j].name] = Content[Seen[j].name]

(* For the nodes, all those messages amount to a transfer: the files come  *)
(* down the chain in order, whole or not at all but for the torn ones,     *)
(* which stay torn below; and what a node has, no later step takes away or *)
(* overwrites.  A node that has been told it succeeded, and of whose other *)
(* files one is not the master's, would be in no state of Transfer.        *)
Whole(h) ==
  \A j \in DOMAIN Seen :
    Seen[j].name \notin torn[h] => disk[h][Seen[j].name] = Content[Seen[j].name]

StateOf(h) ==
  CASE dec[h] = "failed" -> "failed"
    [] dec[h] = "done" /\ Whole(h) -> "with"
    [] dec[h] = "done" /\ ~ Whole(h) -> "damaged"
    [] OTHER -> "without"

TornOf(h) == IF dec[h] = "done" THEN torn[h] ELSE {}

Down == INSTANCE Transfer
          WITH node <- [h \in Conn |-> StateOf(h)], torn <- [h \in Conn |-> TornOf(h)]

KeepsTransfer == Down!Spec

(* The decoder has then read all that the encoder wrote and nothing else,  *)
(* so that the next value on the connection starts where it is expected.   *)
InStep ==
  \A h \in Conn : enc[h] = "done" /\ dec[h] = "done" => chan[h] = <<>>

(* A receiver whose sender is gone does not wait for the rest.             *)
CutIsNoticed == \A h \in Conn : enc[h] = "gone" ~> dec[h] \in {"done", "failed"}

(* Unless something fails, the files reach the last node.                  *)
Arrives ==
  <>(dec[Hops] = "done" \/ \E h \in Conn : enc[h] \in {"error", "gone"})
=============================================================================
