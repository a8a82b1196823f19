--------------------------- MODULE MCFileMarshal ----------------------------
(***************************************************************************)
(* Instances of FileMarshal for TLC.                                       *)
(***************************************************************************)
EXTENDS FileMarshal, TLC

CONSTANTS x, y

Regular(n)   == [name |-> n, ftype |-> "file"]
Directory(n) == [name |-> n, ftype |-> "dir"]
Symlink(n)   == [name |-> n, ftype |-> "link"]

(* A file of two chunks, an empty one, a directory and a link, at the      *)
(* master.                                                                 *)
AtMaster == "prog" :> <<x, y>> @@ "empty" :> <<>> @@ "dir" :> Dir @@ "ln" :> Link

(* The program is met twice.                                               *)
Sent == <<Directory("dir"), Symlink("ln"), Regular("prog"), Regular("empty"),
          Regular("prog")>>
(* The same files as fields in another order.                              *)
Reordered == <<Regular("empty"), Symlink("ln"), Regular("prog"), Directory("dir"),
               Regular("prog")>>
(* Nothing at the first node; at the second what an earlier request left.  *)
Empty  == [n \in DOMAIN AtMaster |-> Absent]
Before == <<Empty, [Empty EXCEPT !["prog"] = <<y>>, !["dir"] = Dir]>>

(* The program gets shorter by it, the empty file longer.                  *)
Rewritten == {<<y>>}

ASSUME BeforeIsHarmless == Harmless
=============================================================================
