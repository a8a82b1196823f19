------------------------- MODULE FileMarshalProofs --------------------------
(***************************************************************************)
(* Proofs about FileMarshal, for chains of any length, any files, any      *)
(* chunks, anything an earlier request has left, and all faults.           *)
(***************************************************************************)
EXTENDS FileMarshal, SequenceTheorems, WellFoundedInduction, TLAPS

-----------------------------------------------------------------------------
(* Names and files.                                                        *)

LEMMA NotLess ==
  ASSUME NEW i \in Nat, NEW j \in Nat, <<j, i>> \notin OpToRel(<, Nat)
  PROVE  i <= j
BY DEF OpToRel

(* Of any set of positions one is the first.                               *)
LEMMA FirstOf ==
  ASSUME NEW T \in SUBSET Nat, T # {}
  PROVE  \E i \in T : \A j \in T : i <= j
<1>1. PICK i \in T : \A j \in T : <<j, i>> \notin OpToRel(<, Nat)
  BY NatLessThanWellFounded, WFMin
<1>2. \A j \in T : i <= j
  BY <1>1, NotLess
<1> QED BY <1>2

LEMMA ManifestParts ==
  /\ Len(Manifest) \in Nat /\ DOMAIN Manifest = 1..Len(Manifest)
  /\ \A i \in DOMAIN Manifest :
       /\ Manifest[i].name \in Name
       /\ Manifest[i].ftype \in {"file", "dir", "link"}
<1>1. Manifest \in Seq(File)
  BY ManifestAssumption
<1>2. \A i \in DOMAIN Manifest : Manifest[i] \in File
  BY <1>1
<1> QED BY <1>1, <1>2 DEF File

LEMMA SeenParts ==
  /\ DOMAIN Seen \subseteq Nat
  /\ \A j \in DOMAIN Seen :
       /\ Seen[j].name \in Name
       /\ Seen[j].ftype \in {"file", "dir", "link"}
<1>1. Seen \in Seq(File)
  BY ManifestAssumption
<1>2. \A j \in DOMAIN Seen : Seen[j] \in File
  BY <1>1
<1> QED BY <1>1, <1>2 DEF File

(* Every name is listed, where the walk meets it first.                    *)
LEMMA FirstListed ==
  ASSUME NEW i \in DOMAIN Manifest
  PROVE  \E j \in DOMAIN Manifest : Listed(j) /\ Manifest[j].name = Manifest[i].name
<1> DEFINE T == {j \in DOMAIN Manifest : Manifest[j].name = Manifest[i].name}
<1>1. T \in SUBSET Nat /\ i \in T
  BY ManifestParts
<1>2. PICK j \in T : \A k \in T : j <= k
  BY <1>1, FirstOf
<1>3. \A k \in 1..(j - 1) : Manifest[k].name # Manifest[j].name
  <2>1. j \in 1..Len(Manifest)
    BY ManifestParts
  <2>2. SUFFICES ASSUME NEW k \in 1..(j - 1), Manifest[k].name = Manifest[j].name
                 PROVE  FALSE
    OBVIOUS
  <2>3. k \in T
    BY <2>1, <2>2, ManifestParts
  <2> QED BY <1>2, <2>1, <2>3
<1> QED BY <1>3 DEF Listed

(* What stands under a name has one type.                                  *)
LEMMA OneType ==
  ASSUME NEW x, NEW s \in {"file", "dir", "link"}, NEW t \in {"file", "dir", "link"},
         Is(x, s), Is(x, t)
  PROVE  s = t
<1>1. CASE s = "file"
  BY <1>1, MarkAssumption DEF Is
<1>2. CASE s = "dir"
  BY <1>2, MarkAssumption DEF Is
<1>3. CASE s = "link"
  BY <1>3, MarkAssumption DEF Is
<1> QED BY <1>1, <1>2, <1>3

(* The decoder has every file of the list, as what it is for the encoder.  *)
LEMMA SameFile ==
  ASSUME NEW i \in DOMAIN Manifest
  PROVE  Same(i) # {} /\ SeenAs(i).ftype = Manifest[i].ftype
<1>1. Same(i) # {} /\ Same(i) \in SUBSET Nat
  BY ValueAssumption, SeenParts DEF Same
<1>2. \E f \in Same(i) : \A k \in Same(i) : f <= k
  BY <1>1, FirstOf
<1> DEFINE s == CHOOSE j \in Same(i) : \A k \in Same(i) : j <= k
<1>3. s \in Same(i)
  BY <1>2
<1>4. Seen[s].name = Manifest[i].name /\ s \in DOMAIN Seen
  BY <1>3 DEF Same
<1>5. /\ Is(Content[Manifest[i].name], Manifest[i].ftype)
      /\ Is(Content[Manifest[i].name], Seen[s].ftype)
  BY <1>4, ManifestAssumption
<1>6. Seen[s].ftype = Manifest[i].ftype
  BY <1>4, <1>5, ManifestParts, SeenParts, OneType
<1> QED BY <1>1, <1>6 DEF SeenAs

-----------------------------------------------------------------------------
(* What belongs on a connection.  Position <<0, 1>> is that of the value,  *)
(* <<0, 2>> that of the names, and <<i, k>> that of chunk k of the file at *)
(* entry i, or of the end that follows its last chunk.  The chunks are S,  *)
(* as far as the sender has read: an end is there only for files before    *)
(* the one at entry e.                                                     *)

Sends(i) ==
  i = 0 \/ (i \in DOMAIN Manifest /\ Listed(i) /\ Manifest[i].ftype = "file")

Sending(i) ==
  {j \in i..(Len(Manifest) + 1) : j = Len(Manifest) + 1 \/ Sends(j)}

FirstSent(i) == CHOOSE j \in Sending(i) : \A k \in Sending(i) : j <= k

(* Where the stream really is when an end of it has come to <<i, k>>.      *)
At(i, k) == IF k = 1 THEN <<FirstSent(i), 1>> ELSE <<i, k>>

Body(S, i) == S[Manifest[i].name]
Last(S, i) == IF i = 0 THEN 2 ELSE Len(Body(S, i)) + 1

Place(S, e, q) ==
  /\ Sends(q[1]) /\ q[2] \in 1..Last(S, q[1])
  /\ q[1] # 0 /\ q[2] = Last(S, q[1]) => q[1] < e

After(S, q) ==
  IF q[2] < Last(S, q[1]) THEN At(q[1], q[2] + 1) ELSE At(q[1] + 1, 1)

MsgAt(S, q) ==
  IF q[1] = 0 THEN IF q[2] = 1 THEN [kind |-> "value"] ELSE [kind |-> "names"]
  ELSE IF q[2] = Last(S, q[1]) THEN End
  ELSE [kind |-> "data", data |-> Body(S, q[1])[q[2]]]

(* The messages w are those from position p[1] up to p[Len(w) + 1].        *)
Stretch(S, e, w, p) ==
  /\ p \in [1..(Len(w) + 1) -> Nat \X Nat]
  /\ \A j \in 1..Len(w) :
       Place(S, e, p[j]) /\ w[j] = MsgAt(S, p[j]) /\ p[j + 1] = After(S, p[j])

(* S has chunks of all regular files.                                      *)
Filled(S) == \A i \in DOMAIN Manifest : Sends(i) => Body(S, i) \in Seq(Chunk)

(* From S, e to T, f the sender has gone on.                               *)
Growth(S, e, T, f) ==
  /\ e <= f
  /\ \A i \in DOMAIN Manifest : Sends(i) =>
       /\ i < e => Body(T, i) = Body(S, i)
       /\ Len(Body(S, i)) <= Len(Body(T, i))
       /\ \A k \in 1..Len(Body(S, i)) : Body(T, i)[k] = Body(S, i)[k]

LEMMA FirstSentIsFirst ==
  ASSUME NEW i \in 0..(Len(Manifest) + 1)
  PROVE  FirstSent(i) \in Sending(i) /\ \A k \in Sending(i) : FirstSent(i) <= k
<1>1. Len(Manifest) + 1 \in Sending(i) /\ Sending(i) \in SUBSET Nat
  BY ManifestParts DEF Sending
<1>2. \E j \in Sending(i) : \A k \in Sending(i) : j <= k
  BY <1>1, FirstOf
<1> QED BY <1>2 DEF FirstSent

LEMMA FirstSentType ==
  ASSUME NEW i \in 0..(Len(Manifest) + 1)
  PROVE  FirstSent(i) \in i..(Len(Manifest) + 1)
BY FirstSentIsFirst, ManifestParts DEF Sending

(* A file that is sent is the next one sent; the others take no room.      *)
LEMMA AtSent ==
  ASSUME NEW i \in 0..Len(Manifest), Sends(i)
  PROVE  FirstSent(i) = i
<1>1. i \in Sending(i)
  BY ManifestParts DEF Sending
<1> QED BY <1>1, FirstSentIsFirst, FirstSentType, ManifestParts

LEMMA AtSkipped ==
  ASSUME NEW i \in 0..Len(Manifest), ~ Sends(i)
  PROVE  FirstSent(i) = FirstSent(i + 1)
<1>1. Sending(i) = Sending(i + 1)
  BY ManifestParts DEF Sending
<1> QED BY <1>1 DEF FirstSent

LEMMA AtEnd == FirstSent(Len(Manifest) + 1) = Len(Manifest) + 1
BY FirstSentType, ManifestParts

LEMMA AtType ==
  ASSUME NEW i \in 0..(Len(Manifest) + 1), NEW k \in Nat
  PROVE  At(i, k) \in Nat \X Nat
BY FirstSentType, ManifestParts DEF At

LEMMA SendsParts ==
  ASSUME NEW i, Sends(i)
  PROVE  i \in 0..Len(Manifest)
BY ManifestParts DEF Sends

LEMMA LastType ==
  ASSUME NEW S, Filled(S), NEW i, Sends(i)
  PROVE  Last(S, i) \in Nat /\ Last(S, i) > 0
BY DEF Last, Filled, Sends

LEMMA AfterType ==
  ASSUME NEW S, Filled(S), NEW e, NEW q \in Nat \X Nat, Place(S, e, q)
  PROVE  After(S, q) \in Nat \X Nat
<1>1. q[1] \in 0..Len(Manifest) /\ q[2] \in Nat
  BY SendsParts DEF Place
<1>2. /\ q[1] \in 0..(Len(Manifest) + 1) /\ q[1] + 1 \in 0..(Len(Manifest) + 1)
      /\ q[2] + 1 \in Nat
  BY <1>1, ManifestParts
<1>3. At(q[1], q[2] + 1) \in Nat \X Nat
  BY <1>2, AtType
<1>4. At(q[1] + 1, 1) \in Nat \X Nat
  BY <1>2, AtType
<1> QED BY <1>3, <1>4 DEF After

LEMMA MsgType ==
  ASSUME NEW S, Filled(S), NEW e, NEW q \in Nat \X Nat, Place(S, e, q)
  PROVE  MsgAt(S, q) \in Msg
<1>1. CASE q[1] = 0
  BY <1>1 DEF MsgAt, Msg
<1>2. CASE q[1] # 0 /\ q[2] = Last(S, q[1])
  BY <1>2 DEF MsgAt, Msg, End
<1>3. CASE q[1] # 0 /\ q[2] # Last(S, q[1])
  <2>1. q[1] \in DOMAIN Manifest /\ Body(S, q[1]) \in Seq(Chunk)
    BY <1>3 DEF Place, Sends, Filled
  <2>2. q[2] \in 1..Len(Body(S, q[1]))
    BY <1>3, <2>1 DEF Place, Last
  <2>3. Body(S, q[1])[q[2]] \in Chunk
    BY <2>1, <2>2
  <2> QED BY <1>3, <2>3 DEF MsgAt, Msg
<1> QED BY <1>1, <1>2, <1>3

(* The encoder adds a message.                                             *)
LEMMA Push ==
  ASSUME NEW S, Filled(S), NEW e, NEW w \in Seq(Msg), NEW p, Stretch(S, e, w, p),
         Place(S, e, p[Len(w) + 1]), NEW m, m = MsgAt(S, p[Len(w) + 1])
  PROVE  \E r : /\ Stretch(S, e, Append(w, m), r)
                /\ r[1] = p[1]
                /\ r[Len(Append(w, m)) + 1] = After(S, p[Len(w) + 1])
<1> DEFINE q == After(S, p[Len(w) + 1])
           r == [j \in 1..(Len(w) + 2) |-> IF j = Len(w) + 2 THEN q ELSE p[j]]
<1>1. Len(w) \in Nat /\ p \in [1..(Len(w) + 1) -> Nat \X Nat]
  BY DEF Stretch
<1>2. q \in Nat \X Nat
  BY <1>1, AfterType
<1>3. m \in Msg
  BY <1>1, MsgType
<1>4. Append(w, m) \in Seq(Msg) /\ Len(Append(w, m)) = Len(w) + 1
  BY <1>3
<1>5. \A j \in 1..(Len(w) + 1) :
        Append(w, m)[j] = IF j = Len(w) + 1 THEN m ELSE w[j]
  BY <1>1, <1>3
<1>6. r \in [1..(Len(w) + 2) -> Nat \X Nat]
  BY <1>1, <1>2
<1>7. /\ r[1] = p[1] /\ r[Len(w) + 2] = q
      /\ \A j \in 1..(Len(w) + 1) : r[j] = p[j]
  BY <1>1
<1> HIDE DEF r
<1>8. ASSUME NEW j \in 1..(Len(w) + 1)
      PROVE  /\ Place(S, e, r[j]) /\ Append(w, m)[j] = MsgAt(S, r[j])
             /\ r[j + 1] = After(S, r[j])
  <2>1. CASE j = Len(w) + 1
    BY <1>1, <1>5, <1>7, <2>1
  <2>2. CASE j \in 1..Len(w)
    <3>1. r[j] = p[j] /\ r[j + 1] = p[j + 1] /\ Append(w, m)[j] = w[j]
      BY <1>1, <1>5, <1>7, <2>2
    <3> QED BY <2>2, <3>1 DEF Stretch
  <2> QED BY <1>1, <2>1, <2>2
<1>9. Stretch(S, e, Append(w, m), r)
  BY <1>1, <1>4, <1>6, <1>8 DEF Stretch
<1> QED BY <1>1, <1>4, <1>7, <1>9

(* The decoder takes the first one.                                        *)
LEMMA Pop ==
  ASSUME NEW S, NEW e, NEW w \in Seq(Msg), w # <<>>, NEW p, Stretch(S, e, w, p)
  PROVE  /\ Place(S, e, p[1]) /\ p[1] \in Nat \X Nat /\ Head(w) = MsgAt(S, p[1])
         /\ Tail(w) \in Seq(Msg)
         /\ \E r : /\ Stretch(S, e, Tail(w), r)
                   /\ r[1] = After(S, p[1])
                   /\ r[Len(Tail(w)) + 1] = p[Len(w) + 1]
<1> DEFINE r == [j \in 1..Len(w) |-> p[j + 1]]
<1>1. /\ Len(w) \in Nat \ {0} /\ p \in [1..(Len(w) + 1) -> Nat \X Nat]
      /\ Tail(w) \in Seq(Msg) /\ Len(Tail(w)) = Len(w) - 1
      /\ \A j \in 1..Len(Tail(w)) : Tail(w)[j] = w[j + 1]
      /\ Head(w) = w[1]
  BY DEF Stretch
<1>2. r \in [1..Len(w) -> Nat \X Nat] /\ \A j \in 1..Len(w) : r[j] = p[j + 1]
  BY <1>1
<1> HIDE DEF r
<1>3. /\ Place(S, e, p[1]) /\ p[1] \in Nat \X Nat /\ w[1] = MsgAt(S, p[1])
      /\ p[2] = After(S, p[1])
  BY <1>1 DEF Stretch
<1>4. ASSUME NEW j \in 1..Len(Tail(w))
      PROVE  /\ Place(S, e, r[j]) /\ Tail(w)[j] = MsgAt(S, r[j])
             /\ r[j + 1] = After(S, r[j])
  <2>1. j + 1 \in 1..Len(w) /\ r[j] = p[j + 1] /\ r[j + 1] = p[(j + 1) + 1]
    BY <1>1, <1>2
  <2> QED BY <1>1, <2>1 DEF Stretch
<1>5. Stretch(S, e, Tail(w), r)
  BY <1>1, <1>2, <1>4 DEF Stretch
<1>6. r[1] = p[2] /\ r[Len(Tail(w)) + 1] = p[Len(w) + 1]
  BY <1>1, <1>2
<1> QED BY <1>1, <1>3, <1>5, <1>6

(* What is lost is lost from some message on.                              *)
LEMMA Cutoff ==
  ASSUME NEW S, NEW e, NEW w \in Seq(Msg), NEW p, Stretch(S, e, w, p), NEW k \in 0..Len(w)
  PROVE  /\ SubSeq(w, 1, k) \in Seq(Msg)
         /\ \E r : Stretch(S, e, SubSeq(w, 1, k), r) /\ r[1] = p[1]
<1> DEFINE r == [j \in 1..(k + 1) |-> p[j]]
<1>1. /\ Len(w) \in Nat /\ p \in [1..(Len(w) + 1) -> Nat \X Nat]
      /\ SubSeq(w, 1, k) \in Seq(Msg) /\ Len(SubSeq(w, 1, k)) = k
      /\ \A j \in 1..k : SubSeq(w, 1, k)[j] = w[j]
  BY DEF Stretch
<1>2. r \in [1..(k + 1) -> Nat \X Nat] /\ \A j \in 1..(k + 1) : r[j] = p[j]
  BY <1>1
<1> HIDE DEF r
<1>3. ASSUME NEW j \in 1..k
      PROVE  /\ Place(S, e, r[j]) /\ SubSeq(w, 1, k)[j] = MsgAt(S, r[j])
             /\ r[j + 1] = After(S, r[j])
  <2>1. j \in 1..Len(w) /\ r[j] = p[j] /\ r[j + 1] = p[j + 1]
    <3>1. j \in 1..Len(w) /\ j \in 1..(k + 1) /\ j + 1 \in 1..(k + 1)
      BY <1>1
    <3> QED BY <1>2, <3>1
  <2> QED BY <1>1, <2>1 DEF Stretch
<1>4. Stretch(S, e, SubSeq(w, 1, k), r)
  BY <1>1, <1>2, <1>3 DEF Stretch
<1> QED BY <1>1, <1>2, <1>4

(* What has been written stays what it was while the sender goes on.       *)
LEMMA GrownAt ==
  ASSUME NEW S, NEW T, Filled(S), Filled(T), NEW e \in Nat, NEW f \in Nat,
         Growth(S, e, T, f), NEW q \in Nat \X Nat, Place(S, e, q)
  PROVE  Place(T, f, q) /\ MsgAt(T, q) = MsgAt(S, q) /\ After(T, q) = After(S, q)
<1>1. CASE q[1] = 0
  BY <1>1 DEF Place, Last, MsgAt, After
<1>2. CASE q[1] # 0
  <2> DEFINE i == q[1]
             a == Body(S, i)
             b == Body(T, i)
  <2>1. i \in DOMAIN Manifest /\ Sends(i) /\ i \in Nat /\ q[2] \in Nat
    BY <1>2 DEF Place, Sends
  <2>2. a \in Seq(Chunk) /\ b \in Seq(Chunk)
    BY <2>1 DEF Filled
  <2>3. /\ i < e => b = a
        /\ Len(a) <= Len(b) /\ \A k \in 1..Len(a) : b[k] = a[k]
        /\ e <= f
    BY <2>1 DEF Growth
  <2>4. Last(S, i) = Len(a) + 1 /\ Last(T, i) = Len(b) + 1
    BY <1>2 DEF Last
  <2>5. q[2] \in 1..(Len(a) + 1) /\ (q[2] = Len(a) + 1 => i < e)
    BY <1>2, <2>4 DEF Place
  <2> HIDE DEF a, b
  <2>6. CASE q[2] = Len(a) + 1
    <3>1. b = a /\ i < f
      BY <2>1, <2>3, <2>5, <2>6
    <3>2. Last(T, i) = Last(S, i)
      BY <2>4, <3>1
    <3> QED BY <1>2, <2>1, <2>4, <2>5, <2>6, <3>1, <3>2 DEF Place, MsgAt, After
  <2>7. CASE q[2] # Len(a) + 1
    <3>1. q[2] \in 1..Len(a) /\ Len(a) \in Nat /\ Len(b) \in Nat
      BY <2>2, <2>5, <2>7
    <3>2. q[2] < Last(S, i) /\ q[2] < Last(T, i) /\ q[2] \in 1..Last(T, i)
      BY <2>3, <2>4, <3>1
    <3>3. Body(T, i)[q[2]] = Body(S, i)[q[2]]
      BY <2>3, <3>1 DEF a, b
    <3>4. MsgAt(T, q) = MsgAt(S, q)
      BY <1>2, <3>1, <3>2, <3>3, <2>4 DEF MsgAt
    <3>5. Place(T, f, q) /\ After(T, q) = After(S, q)
      BY <2>1, <2>4, <3>1, <3>2 DEF Place, After
    <3> QED BY <3>4, <3>5
  <2> QED BY <2>6, <2>7
<1> QED BY <1>1, <1>2

LEMMA Grown ==
  ASSUME NEW S, NEW T, Filled(S), Filled(T), NEW e \in Nat, NEW f \in Nat,
         Growth(S, e, T, f), NEW w \in Seq(Msg), NEW p, Stretch(S, e, w, p)
  PROVE  Stretch(T, f, w, p)
<1>1. Len(w) \in Nat /\ p \in [1..(Len(w) + 1) -> Nat \X Nat]
  BY DEF Stretch
<1>2. ASSUME NEW j \in 1..Len(w)
      PROVE  Place(T, f, p[j]) /\ w[j] = MsgAt(T, p[j]) /\ p[j + 1] = After(T, p[j])
  <2>1. p[j] \in Nat \X Nat
    BY <1>1
  <2>2. Place(S, e, p[j]) /\ w[j] = MsgAt(S, p[j]) /\ p[j + 1] = After(S, p[j])
    BY DEF Stretch
  <2> QED BY <2>1, <2>2, GrownAt
<1> QED BY <1>1, <1>2 DEF Stretch

-----------------------------------------------------------------------------
(* The inductive invariant.                                                *)

(* What the encoder of a connection should read: the files of the master,  *)
(* or the copies of the node above.                                        *)
Source(h) == IF h = 1 THEN Content ELSE disk[h - 1]

EncAt(h) == CASE enc[h] = "idle"  -> At(0, 1)
              [] enc[h] = "names" -> At(0, 2)
              [] enc[h] = "read"  -> At(ei[h], Off(h) + 1)
              [] OTHER            -> At(ei[h], 1)

DecAt(h) == CASE dec[h] = "value"  -> At(0, 1)
              [] dec[h] = "names"  -> At(0, 2)
              [] dec[h] = "chunks" -> At(di[h], pos[h] + 1)
              [] OTHER             -> At(di[h], 1)

(* The messages on a connection lead from where the decoder is to where    *)
(* the encoder is, unless either has given up.                             *)
Framed(h) ==
  \E p : /\ Stretch(sent[h], ei[h], chan[h], p)
         /\ dec[h] # "failed" => p[1] = DecAt(h)
         /\ enc[h] # "gone" => p[Len(chan[h]) + 1] = EncAt(h)

(* Which phases go together, and that the decoder closes no file before    *)
(* the encoder does.                                                       *)
Phases(h) ==
  /\ enc[h] = "idle" => chan[h] = <<>> /\ dec[h] = "value"
  /\ enc[h] \in {"idle", "names"} => ei[h] = 1
  /\ enc[h] = "read" => ei[h] \in DOMAIN Manifest /\ Sends(ei[h])
  /\ enc[h] = "done" => ei[h] = Len(Manifest) + 1
  /\ dec[h] \in {"value", "names"} => di[h] = 1
  /\ dec[h] = "chunks" => /\ di[h] \in DOMAIN Manifest /\ Sends(di[h])
                          /\ pos[h] <= Len(Body(sent[h], di[h]))
  /\ dec[h] = "done" => di[h] = Len(Manifest) + 1
  /\ \A i \in 1..(di[h] - 1) : Sends(i) => i < ei[h]

(* The first k chunks of b laid over what was there before.                *)
Laid(f, b, k, o) ==
  LET old == IF o \in Seq(Chunk) THEN o ELSE <<>>
  IN  /\ f \in Seq(Chunk)
      /\ Len(f) = IF k < Len(old) THEN Len(old) ELSE k
      /\ \A j \in 1..Len(f) : f[j] = IF j <= k THEN b[j] ELSE old[j]

Made(f, b, o, ftype) ==
  CASE ftype = "file" -> Laid(f, b, Len(b), o)
    [] ftype = "dir"  -> f = IF o # Absent THEN o ELSE Dir
    [] ftype = "link" -> f = IF o # Absent THEN o ELSE Link

(* Node h has what it has been sent, laid over what it had.                *)
Copied(h) ==
  /\ \A i \in 1..(di[h] - 1) : Listed(i) =>
       Made(disk[h][Manifest[i].name], Body(sent[h], i),
            Old[h][Manifest[i].name], Manifest[i].ftype)
  /\ dec[h] = "chunks" =>
       Laid(disk[h][Entry(h)], Body(sent[h], di[h]), pos[h], Old[h][Entry(h)])
  /\ \A n \in Name :
       /\ dec[h] # "failed"
       /\ \A i \in 1..(di[h] - 1) : Manifest[i].name # n
       /\ dec[h] = "chunks" => Entry(h) # n
       => disk[h][n] = Old[h][n]

(* Of the files it has not come to, the encoder has read nothing.          *)
Begun(h, i) == i < ei[h] \/ (i = ei[h] /\ enc[h] = "read")

Fresh(h) ==
  enc[h] \in {"idle", "names", "next", "read"} =>
    \A i \in DOMAIN Manifest : Sends(i) /\ ~ Begun(h, i) => Body(sent[h], i) = <<>>

(* Of the others, unless they are torn, it has read what it should: all of *)
(* those it has closed, and of the one at hand as much as it has come to.  *)
Faithful(h) ==
  \A i \in DOMAIN Manifest : Sends(i) /\ Manifest[i].name \notin torn[h] =>
    /\ i < ei[h] => Body(sent[h], i) = Body(Source(h), i)
    /\ i = ei[h] /\ enc[h] = "read" =>
         /\ fd[h] = Body(Source(h), i)
         /\ Len(Body(sent[h], i)) <= Len(fd[h])
         /\ \A k \in 1..Len(Body(sent[h], i)) : Body(sent[h], i)[k] = fd[h][k]

ConnInv(h) == Phases(h) /\ Framed(h) /\ Copied(h) /\ Fresh(h) /\ Faithful(h)

(* A node sends what it has received, when it has received all of it, and  *)
(* a file that was torn above is torn below.                               *)
Follows ==
  \A h \in Conn : h > 1 /\ enc[h] # "idle" =>
    dec[h - 1] = "done" /\ torn[h - 1] \subseteq torn[h]

(* The master's files are what they were, or gone, or written anew.        *)
MasterHas ==
  \A n \in Name : IF n \in torn[1] THEN disk[0][n] \in Seq(Chunk) \cup {Absent}
                   ELSE disk[0][n] \in {Content[n], Absent}

(* Only regular files are torn.                                            *)
TornFiles == \A h \in Conn : \A n \in torn[h] : Content[n] \in Seq(Chunk)

IInv == TypeOK /\ Follows /\ MasterHas /\ TornFiles /\ \A h \in Conn : ConnInv(h)

(* What a node sends is, but for the torn files, what the master has.      *)
Exact ==
  \A h \in Conn : enc[h] # "idle" =>
    \A i \in DOMAIN Manifest : Manifest[i].name \notin torn[h] =>
      Body(Source(h), i) = Content[Manifest[i].name]

-----------------------------------------------------------------------------
(* Connections do not disturb each other.                                  *)

LEMMA ConnParts ==
  /\ Hops \in Nat \ {0} /\ Conn \subseteq Nat \ {0} /\ Conn \subseteq Node
  /\ 1 \in Conn /\ 0 \in Node /\ 0 \notin Conn
  /\ \A h \in Conn : h - 1 \in Node /\ (h > 1 => h - 1 \in Conn)
BY HopsAssumption DEF Conn, Node

(* All that a step at connection h may leave as it is, it does.            *)
Only(h) ==
  /\ \A g \in Conn \ {h} :
       /\ enc'[g] = enc[g] /\ ei'[g] = ei[g] /\ fd'[g] = fd[g] /\ sent'[g] = sent[g]
       /\ torn'[g] = torn[g] /\ chan'[g] = chan[g]
       /\ dec'[g] = dec[g] /\ di'[g] = di[g] /\ pos'[g] = pos[g]
  /\ \A n \in Node \ {h} : disk'[n] = disk[n]
  /\ disk'[h] = disk[h] \/ dec[h] # "done"

(* Where the encoder has nothing to read, it does not matter what is there.*)
LEMMA FaithfulSame ==
  ASSUME IInv, NEW g \in Conn,
         enc'[g] = enc[g], ei'[g] = ei[g], fd'[g] = fd[g], sent'[g] = sent[g],
         torn'[g] = torn[g], enc[g] = "idle" \/ Source(g)' = Source(g)
  PROVE  Faithful(g)'
<1>1. Faithful(g) /\ Phases(g)
  BY DEF IInv, ConnInv
<1>2. CASE enc[g] = "idle"
  <2>1. ei[g] = 1 /\ \A i \in DOMAIN Manifest : ~ (i < 1)
    BY <1>1, <1>2, ManifestParts DEF Phases
  <2> QED BY <1>2, <2>1 DEF Faithful
<1>3. CASE Source(g)' = Source(g)
  BY <1>1, <1>3 DEF Faithful, Body
<1> QED BY <1>2, <1>3

LEMMA Frame ==
  ASSUME IInv, NEW g \in Conn,
         enc'[g] = enc[g], ei'[g] = ei[g], fd'[g] = fd[g], sent'[g] = sent[g],
         torn'[g] = torn[g], chan'[g] = chan[g],
         dec'[g] = dec[g], di'[g] = di[g], pos'[g] = pos[g], disk'[g] = disk[g],
         enc[g] = "idle" \/ Source(g)' = Source(g)
  PROVE  ConnInv(g)'
<1>1. ConnInv(g)
  BY DEF IInv
<1>2. Phases(g)'
  BY <1>1 DEF ConnInv, Phases, Body
<1>3. Framed(g)'
  <2>1. DecAt(g)' = DecAt(g) /\ EncAt(g)' = EncAt(g)
    BY DEF DecAt, EncAt, Off, AtName
  <2> QED BY <1>1, <2>1 DEF ConnInv, Framed
<1>4. Copied(g)'
  BY <1>1 DEF ConnInv, Copied, Entry, Body
<1>5. Fresh(g)'
  BY <1>1 DEF ConnInv, Fresh, Begun, Body
<1>6. Faithful(g)'
  BY FaithfulSame
<1> QED BY <1>2, <1>3, <1>4, <1>5, <1>6 DEF ConnInv

LEMMA Others ==
  ASSUME IInv, NEW h \in Conn, Only(h)
  PROVE  \A g \in Conn \ {h} : ConnInv(g)'
<1> SUFFICES ASSUME NEW g \in Conn \ {h} PROVE ConnInv(g)'
  OBVIOUS
<1>1. disk'[g] = disk[g]
  BY ConnParts DEF Only
<1>2. enc[g] = "idle" \/ Source(g)' = Source(g)
  <2>1. CASE g = 1 \/ g - 1 # h
    BY <2>1, ConnParts DEF Source, Only
  <2>2. CASE g # 1 /\ g - 1 = h /\ enc[g] # "idle"
    <3>1. dec[h] = "done"
      BY <2>2, ConnParts DEF IInv, Follows
    <3> QED BY <2>2, <3>1 DEF Source, Only
  <2> QED BY <2>1, <2>2
<1> QED BY <1>1, <1>2, Frame DEF Only

LEMMA AllFilled ==
  ASSUME NEW S \in [Name -> Seq(Chunk)]
  PROVE  Filled(S)
BY ManifestParts DEF Filled, Body

LEMMA SentFilled ==
  ASSUME TypeOK, NEW h \in Conn
  PROVE  Filled(sent[h]) /\ \A i \in DOMAIN Manifest : Body(sent[h], i) \in Seq(Chunk)
BY ManifestParts DEF TypeOK, Filled, Body

LEMMA Busy ==
  ASSUME IInv, NEW h \in Conn, dec[h] # "value"
  PROVE  enc[h] # "idle"
BY DEF IInv, ConnInv, Phases

(* Once all has been received no file is open at the other end, or to be.  *)
LEMMA AllClosed ==
  ASSUME IInv, NEW h \in Conn, dec[h] = "done"
  PROVE  /\ enc[h] \notin {"idle", "read"}
         /\ \A i \in DOMAIN Manifest : Sends(i) => i < ei[h]
<1>1. Phases(h) /\ ei[h] \in Nat
  BY DEF IInv, ConnInv, TypeOK
<1>2. \A i \in DOMAIN Manifest : Sends(i) => i < ei[h]
  BY <1>1, ManifestParts DEF Phases
<1> QED BY <1>1, <1>2 DEF Phases

-----------------------------------------------------------------------------
(* What a step does to the messages of its connection.                     *)

LEMMA GrowthNone ==
  ASSUME NEW S, NEW e \in Nat, NEW f \in Nat, e <= f, Filled(S)
  PROVE  Growth(S, e, S, f)
BY DEF Growth, Filled

(* The encoder adds a message, which belongs where it has come to.         *)
LEMMA Sent ==
  ASSUME IInv, TypeOK', NEW h \in Conn, Growth(sent[h], ei[h], sent'[h], ei'[h]),
         Place(sent'[h], ei'[h], EncAt(h)),
         NEW m, m = MsgAt(sent'[h], EncAt(h)), Put(h, m),
         dec'[h] = dec[h], DecAt(h)' = DecAt(h),
         enc[h] # "gone", EncAt(h)' = After(sent'[h], EncAt(h))
  PROVE  Framed(h)'
<1>1. chan[h] \in Seq(Msg) /\ chan'[h] = Append(chan[h], m)
  BY DEF IInv, TypeOK, Put
<1>2. PICK p : /\ Stretch(sent[h], ei[h], chan[h], p)
               /\ dec[h] # "failed" => p[1] = DecAt(h)
               /\ p[Len(chan[h]) + 1] = EncAt(h)
  BY DEF IInv, ConnInv, Framed
<1>3. /\ Filled(sent[h]) /\ Filled(sent'[h])
      /\ ei[h] \in Nat /\ ei'[h] \in Nat
  <2>1. /\ sent[h] \in [Name -> Seq(Chunk)] /\ sent'[h] \in [Name -> Seq(Chunk)]
        /\ ei[h] \in 1..(Len(Manifest) + 1) /\ ei'[h] \in 1..(Len(Manifest) + 1)
    BY DEF IInv, TypeOK
  <2> QED BY <2>1, AllFilled, ManifestParts
<1>4. Stretch(sent'[h], ei'[h], chan[h], p)
  BY <1>1, <1>2, <1>3, Grown
<1>5. PICK r : /\ Stretch(sent'[h], ei'[h], Append(chan[h], m), r)
               /\ r[1] = p[1]
               /\ r[Len(Append(chan[h], m)) + 1] = After(sent'[h], EncAt(h))
  BY <1>1, <1>2, <1>3, <1>4, Push
<1> QED BY <1>1, <1>2, <1>5 DEF Framed

LEMMA Unsent ==
  ASSUME IInv, TypeOK', NEW h \in Conn, Growth(sent[h], ei[h], sent'[h], ei'[h]),
         chan'[h] = chan[h],
         enc'[h] # "gone" => enc[h] # "gone" /\ EncAt(h)' = EncAt(h),
         dec'[h] # "failed" => dec[h] # "failed" /\ DecAt(h)' = DecAt(h)
  PROVE  Framed(h)'
<1>1. PICK p : /\ Stretch(sent[h], ei[h], chan[h], p)
               /\ dec[h] # "failed" => p[1] = DecAt(h)
               /\ enc[h] # "gone" => p[Len(chan[h]) + 1] = EncAt(h)
  BY DEF IInv, ConnInv, Framed
<1>2. /\ Filled(sent[h]) /\ Filled(sent'[h]) /\ chan[h] \in Seq(Msg)
      /\ ei[h] \in Nat /\ ei'[h] \in Nat
  <2>1. /\ sent[h] \in [Name -> Seq(Chunk)] /\ sent'[h] \in [Name -> Seq(Chunk)]
        /\ ei[h] \in 1..(Len(Manifest) + 1) /\ ei'[h] \in 1..(Len(Manifest) + 1)
        /\ chan[h] \in Seq(Msg)
    BY DEF IInv, TypeOK
  <2> QED BY <2>1, AllFilled, ManifestParts
<1>3. Stretch(sent'[h], ei'[h], chan[h], p)
  BY <1>1, <1>2, Grown
<1> QED BY <1>1, <1>3 DEF Framed

LEMMA NextMsg ==
  ASSUME IInv, NEW h \in Conn, chan[h] # <<>>, dec[h] # "failed"
  PROVE  /\ Place(sent[h], ei[h], DecAt(h)) /\ DecAt(h) \in Nat \X Nat
         /\ Head(chan[h]) = MsgAt(sent[h], DecAt(h))
<1>1. chan[h] \in Seq(Msg)
  BY DEF IInv, TypeOK
<1>2. PICK p : Stretch(sent[h], ei[h], chan[h], p) /\ p[1] = DecAt(h)
  BY DEF IInv, ConnInv, Framed
<1> QED BY <1>1, <1>2, Pop

LEMMA Received ==
  ASSUME IInv, NEW h \in Conn, sent'[h] = sent[h], ei'[h] = ei[h], chan[h] # <<>>, Get(h),
         enc'[h] = enc[h], EncAt(h)' = EncAt(h),
         dec[h] # "failed", DecAt(h)' = After(sent[h], DecAt(h))
  PROVE  Framed(h)'
<1>1. chan[h] \in Seq(Msg) /\ chan'[h] = Tail(chan[h])
  BY DEF IInv, TypeOK, Get
<1>2. PICK p : /\ Stretch(sent[h], ei[h], chan[h], p)
               /\ p[1] = DecAt(h)
               /\ enc[h] # "gone" => p[Len(chan[h]) + 1] = EncAt(h)
  BY DEF IInv, ConnInv, Framed
<1>3. PICK r : /\ Stretch(sent[h], ei[h], Tail(chan[h]), r)
               /\ r[1] = After(sent[h], p[1])
               /\ r[Len(Tail(chan[h])) + 1] = p[Len(chan[h]) + 1]
  <2> DEFINE S == sent[h]
             e == ei[h]
             w == chan[h]
  <2>1. w \in Seq(Msg) /\ w # <<>> /\ Stretch(S, e, w, p)
    BY <1>1, <1>2
  <2> HIDE DEF S, e, w
  <2>2. \E r : /\ Stretch(S, e, Tail(w), r) /\ r[1] = After(S, p[1])
               /\ r[Len(Tail(w)) + 1] = p[Len(w) + 1]
    BY <2>1, Pop
  <2> QED BY <2>2 DEF S, e, w
<1>4. Stretch(sent'[h], ei'[h], chan'[h], r)
  BY <1>1, <1>3
<1>5. r[1] = DecAt(h)'
  BY <1>2, <1>3
<1>6. enc'[h] # "gone" => r[Len(chan'[h]) + 1] = EncAt(h)'
  BY <1>1, <1>2, <1>3
<1> QED BY <1>4, <1>5, <1>6 DEF Framed

-----------------------------------------------------------------------------
(* The encoder.                                                            *)

LEMMA EncLocal ==
  ASSUME IInv, NEW h \in Conn, EncStep(h)
  PROVE  Only(h) /\ UNCHANGED <<disk, decVars>>
<1>1. CASE EncValue(h)
  BY <1>1 DEF IInv, TypeOK, Only, EncValue, Put, decVars
<1>2. CASE EncNames(h)
  BY <1>2 DEF IInv, TypeOK, Only, EncNames, Put, decVars
<1>3. CASE EncSkip(h)
  BY <1>3 DEF IInv, TypeOK, Only, EncSkip, decVars
<1>4. CASE EncOpen(h)
  BY <1>4 DEF IInv, TypeOK, Only, EncOpen, OpenExcept, decVars
<1>5. CASE EncChunk(h)
  BY <1>5 DEF IInv, TypeOK, Only, EncChunk, Put, decVars
<1>6. CASE EncEnd(h)
  BY <1>6 DEF IInv, TypeOK, Only, EncEnd, Close, decVars
<1>7. CASE EncDone(h)
  BY <1>7 DEF IInv, TypeOK, Only, EncDone, decVars
<1> QED BY <1>1, <1>2, <1>3, <1>4, <1>5, <1>6, <1>7 DEF EncStep

(* The list has a name once.                                               *)
LEMMA OneListed ==
  ASSUME NEW i \in DOMAIN Manifest, NEW j \in DOMAIN Manifest,
         Sends(i), Sends(j), Manifest[i].name = Manifest[j].name
  PROVE  i = j
<1>1. i \in 1..Len(Manifest) /\ j \in 1..Len(Manifest) /\ Listed(i) /\ Listed(j)
  BY ManifestParts DEF Sends
<1>2. ~ (i < j) /\ ~ (j < i)
  BY <1>1 DEF Listed
<1> QED BY <1>1, <1>2

LEMMA LaidGrown ==
  ASSUME NEW f, NEW b \in Seq(Chunk), NEW c \in Seq(Chunk), NEW o, NEW k \in Nat,
         k <= Len(b), Len(b) <= Len(c), \A j \in 1..Len(b) : c[j] = b[j], Laid(f, b, k, o)
  PROVE  Laid(f, c, k, o)
<1>1. \A j \in 1..k : c[j] = b[j]
  OBVIOUS
<1>2. f \in Seq(Chunk) => \A j \in 1..Len(f) : j <= k => j \in 1..k
  OBVIOUS
<1> QED BY <1>1, <1>2 DEF Laid

(* The encoder may read on: the copies at the other end are of what it has *)
(* read before.                                                            *)
LEMMA EncKeeps ==
  ASSUME IInv, TypeOK', NEW h \in Conn, UNCHANGED <<disk, decVars>>,
         Growth(sent[h], ei[h], sent'[h], ei'[h])
  PROVE  /\ Source(h)' = Source(h) /\ dec'[h] = dec[h] /\ di'[h] = di[h]
         /\ pos'[h] = pos[h] /\ DecAt(h)' = DecAt(h) /\ Copied(h)'
         /\ dec[h] = "chunks" => pos[h] <= Len(Body(sent'[h], di[h]))
         /\ \A i \in 1..(di[h] - 1) : Sends(i) => i < ei'[h]
<1> DEFINE S == sent[h]
           T == sent'[h]
<1>1. Copied(h) /\ Phases(h) /\ TypeOK
  BY DEF IInv, ConnInv
<1>2. /\ Source(h)' = Source(h) /\ dec'[h] = dec[h] /\ di'[h] = di[h]
      /\ pos'[h] = pos[h] /\ DecAt(h)' = DecAt(h) /\ disk'[h] = disk[h]
      /\ Entry(h)' = Entry(h)
  BY DEF decVars, Source, DecAt, Entry
<1>3. /\ di[h] \in 1..(Len(Manifest) + 1) /\ pos[h] \in Nat
      /\ ei[h] \in Nat /\ ei'[h] \in Nat
  BY ManifestParts DEF IInv, TypeOK
<1>4. \A i \in DOMAIN Manifest : Body(S, i) \in Seq(Chunk) /\ Body(T, i) \in Seq(Chunk)
  BY <1>1, ManifestParts DEF TypeOK, Body
<1>5. \A i \in DOMAIN Manifest : Sends(i) =>
        /\ i < ei[h] => Body(T, i) = Body(S, i)
        /\ Len(Body(S, i)) <= Len(Body(T, i))
        /\ \A k \in 1..Len(Body(S, i)) : Body(T, i)[k] = Body(S, i)[k]
  BY DEF Growth
<1>6. \A i \in 1..(di[h] - 1) : Sends(i) => i < ei[h] /\ i < ei'[h]
  <2>1. ei[h] <= ei'[h]
    BY DEF Growth
  <2> QED BY <1>1, <1>3, <2>1, ManifestParts DEF Phases
<1> HIDE DEF S, T
<1>7. ASSUME NEW i \in 1..(di[h] - 1), Listed(i)
      PROVE  Made(disk[h][Manifest[i].name], Body(T, i),
                  Old[h][Manifest[i].name], Manifest[i].ftype)
  <2>1. Made(disk[h][Manifest[i].name], Body(S, i),
             Old[h][Manifest[i].name], Manifest[i].ftype)
    BY <1>1, <1>7 DEF Copied, S
  <2>2. i \in DOMAIN Manifest
    BY <1>3, ManifestParts
  <2>3. CASE Manifest[i].ftype = "file"
    <3>1. Sends(i)
      BY <1>7, <2>2, <2>3 DEF Sends
    <3>2. Body(T, i) = Body(S, i)
      BY <1>5, <1>6, <2>2, <3>1
    <3> QED BY <2>1, <3>2
  <2>4. CASE Manifest[i].ftype # "file"
    BY <2>1, <2>2, <2>4, ManifestParts DEF Made
  <2> QED BY <2>3, <2>4
<1>8. ASSUME dec[h] = "chunks"
      PROVE  /\ pos[h] <= Len(Body(T, di[h]))
             /\ Laid(disk[h][Entry(h)], Body(T, di[h]), pos[h], Old[h][Entry(h)])
  <2>1. di[h] \in DOMAIN Manifest /\ Sends(di[h]) /\ pos[h] <= Len(Body(S, di[h]))
    BY <1>1, <1>8 DEF Phases, S
  <2>2. Laid(disk[h][Entry(h)], Body(S, di[h]), pos[h], Old[h][Entry(h)])
    BY <1>1, <1>8 DEF Copied, S
  <2>3. /\ Len(Body(S, di[h])) <= Len(Body(T, di[h]))
        /\ \A k \in 1..Len(Body(S, di[h])) : Body(T, di[h])[k] = Body(S, di[h])[k]
    BY <1>5, <2>1
  <2>4. Laid(disk[h][Entry(h)], Body(T, di[h]), pos[h], Old[h][Entry(h)])
    BY <1>3, <1>4, <2>1, <2>2, <2>3, LaidGrown
  <2>5. Len(Body(S, di[h])) \in Nat /\ Len(Body(T, di[h])) \in Nat
    BY <1>4, <2>1
  <2> QED BY <1>3, <2>1, <2>3, <2>4, <2>5
<1>9. Copied(h)'
  <2>1. \A i \in 1..(di'[h] - 1) : Listed(i) =>
          Made(disk'[h][Manifest[i].name], Body(sent'[h], i),
               Old[h][Manifest[i].name], Manifest[i].ftype)
    BY <1>2, <1>7 DEF T
  <2>2. dec'[h] = "chunks" =>
          Laid(disk'[h][Entry(h)'], Body(sent'[h], di'[h]), pos'[h], Old[h][Entry(h)'])
    BY <1>2, <1>8 DEF T
  <2>3. \A n \in Name :
          /\ dec'[h] # "failed"
          /\ \A i \in 1..(di'[h] - 1) : Manifest[i].name # n
          /\ dec'[h] = "chunks" => Entry(h)' # n
          => disk'[h][n] = Old[h][n]
    BY <1>1, <1>2 DEF Copied
  <2> QED BY <2>1, <2>2, <2>3 DEF Copied, Body
<1> QED BY <1>2, <1>6, <1>8, <1>9 DEF T

(* What an encoder opens is a regular file, and the right one unless it is *)
(* torn already.  Nothing of it has been read.                             *)
LEMMA Opened ==
  ASSUME IInv, NEW h \in Conn, EncOpen(h), enc'[h] = "read"
  PROVE  /\ Sends(ei[h]) /\ ei[h] \in DOMAIN Manifest
         /\ fd'[h] \in Seq(Chunk)
         /\ Manifest[ei[h]].name \notin torn[h] => fd'[h] = Body(Source(h), ei[h])
         /\ Body(sent[h], ei[h]) = <<>> /\ sent' = sent
<1> DEFINE i == ei[h]
           n == Manifest[i].name
           file == disk[h - 1][n]
<1>1. enc[h] = "next" /\ i \in 1..Len(Manifest) /\ Listed(i) /\ Manifest[i].ftype = "file"
  BY ManifestParts DEF IInv, TypeOK, EncOpen, OpenExcept
<1>2. Sends(i) /\ i \in DOMAIN Manifest /\ n \in Name
  BY <1>1, ManifestParts DEF Sends
<1>3. /\ fd'[h] = file /\ file # Absent
      /\ sent' = [sent EXCEPT ![h] = [@ EXCEPT ![n] = <<>>]]
  BY <1>1 DEF IInv, TypeOK, EncOpen, OpenExcept, AtName
<1>4. sent[h][n] = <<>> /\ Body(sent[h], i) = <<>>
  BY <1>1, <1>2 DEF IInv, ConnInv, Fresh, Begun, Body
<1>5. sent' = sent
  <2>1. sent \in [Conn -> [Name -> Seq(Chunk)]]
    BY DEF IInv, TypeOK
  <2> QED BY <1>2, <1>3, <1>4, <2>1
<1>6. CASE h = 1
  <2>1. IF n \in torn[1] THEN file \in Seq(Chunk) \cup {Absent}
                         ELSE file \in {Content[n], Absent}
    BY <1>2, <1>6 DEF IInv, MasterHas
  <2>2. Content[n] \in Seq(Chunk)
    BY <1>1, <1>2, ManifestAssumption DEF Is
  <2> QED BY <1>2, <1>3, <1>4, <1>5, <1>6, <2>1, <2>2 DEF Source, Body
<1>7. CASE h # 1
  <2>1. h - 1 \in Conn /\ dec[h - 1] = "done"
    <3>1. h > 1 /\ h - 1 \in Conn
      BY <1>7, ConnParts
    <3>2. Follows /\ enc[h] # "idle"
      BY <1>1 DEF IInv
    <3> QED BY <3>1, <3>2 DEF Follows
  <2>2. Phases(h - 1) /\ Copied(h - 1)
    BY <2>1 DEF IInv, ConnInv
  <2>3. i \in 1..(di[h - 1] - 1)
    BY <1>1, <2>1, <2>2, ManifestParts DEF Phases
  <2>4. Made(file, Body(sent[h - 1], i), Old[h - 1][n], Manifest[i].ftype)
    BY <1>1, <2>2, <2>3 DEF Copied
  <2>5. file \in Seq(Chunk)
    BY <1>1, <2>4 DEF Made, Laid
  <2> QED BY <1>2, <1>3, <1>4, <1>5, <1>7, <2>5 DEF Source, Body
<1> QED BY <1>6, <1>7

(* What a read adds.                                                       *)
LEMMA Reading ==
  ASSUME IInv, NEW h \in Conn, EncChunk(h)
  PROVE  /\ enc[h] = "read" /\ UNCHANGED <<disk, enc, ei, fd, torn, decVars>>
         /\ Sends(ei[h]) /\ ei[h] \in DOMAIN Manifest /\ ei[h] \in 1..Len(Manifest)
         /\ fd[h] \in Seq(Chunk) /\ Body(sent[h], ei[h]) \in Seq(Chunk)
         /\ Len(Body(sent[h], ei[h])) < Len(fd[h])
         /\ sent' \in [Conn -> [Name -> Seq(Chunk)]]
         /\ \A g \in Conn \ {h} : sent'[g] = sent[g]
         /\ Put(h, [kind |-> "data", data |-> fd[h][Len(Body(sent[h], ei[h])) + 1]])
         /\ Body(sent'[h], ei[h])
              = Append(Body(sent[h], ei[h]), fd[h][Len(Body(sent[h], ei[h])) + 1])
         /\ \A i \in DOMAIN Manifest : Sends(i) /\ i # ei[h] =>
              Body(sent'[h], i) = Body(sent[h], i)
<1> DEFINE n == Manifest[ei[h]].name
           b == sent[h][n]
           c == fd[h][Len(b) + 1]
<1>1. /\ enc[h] = "read" /\ UNCHANGED <<disk, enc, ei, fd, torn, decVars>>
      /\ Len(b) < Len(fd[h])
      /\ sent' = [sent EXCEPT ![h][n] = Append(@, c)]
      /\ Put(h, [kind |-> "data", data |-> c])
  BY DEF EncChunk, Off, AtName
<1>2. Sends(ei[h]) /\ ei[h] \in DOMAIN Manifest /\ ei[h] \in 1..Len(Manifest) /\ n \in Name
  BY <1>1, ManifestParts DEF IInv, ConnInv, Phases
<1>3. fd[h] \in Seq(Chunk) /\ sent \in [Conn -> [Name -> Seq(Chunk)]]
  BY DEF IInv, TypeOK
<1>4. b \in Seq(Chunk) /\ Len(b) \in Nat
  BY <1>2, <1>3
<1> HIDE DEF b
<1>5. Len(b) + 1 \in 1..Len(fd[h])
  BY <1>1, <1>3, <1>4
<1>6. c \in Chunk
  BY <1>3, <1>5
<1> HIDE DEF c
<1>7. Append(b, c) \in Seq(Chunk)
  BY <1>4, <1>6
<1>8. sent' = [sent EXCEPT ![h] = [@ EXCEPT ![n] = Append(b, c)]]
  BY <1>1, <1>2, <1>3 DEF b
<1> HIDE DEF n
<1>9. /\ sent' \in [Conn -> [Name -> Seq(Chunk)]]
      /\ \A g \in Conn \ {h} : sent'[g] = sent[g]
      /\ sent'[h][n] = Append(b, c)
      /\ \A m \in Name \ {n} : sent'[h][m] = sent[h][m]
  BY <1>2, <1>3, <1>7, <1>8
<1>10. \A i \in DOMAIN Manifest : Sends(i) /\ i # ei[h] =>
         Body(sent'[h], i) = Body(sent[h], i)
  BY <1>2, <1>9, OneListed, ManifestParts DEF Body, n
<1>11. Body(sent[h], ei[h]) = b /\ Body(sent'[h], ei[h]) = sent'[h][n]
  BY DEF Body, b, n
<1> QED BY <1>1, <1>2, <1>3, <1>4, <1>9, <1>10, <1>11 DEF c

(* What closing a file leaves as it is.                                    *)
LEMMA Closing ==
  ASSUME IInv, NEW h \in Conn, EncEnd(h)
  PROVE  /\ enc[h] = "read" /\ UNCHANGED <<disk, fd, sent, decVars>>
         /\ enc' = [enc EXCEPT ![h] = "next"] /\ ei' = [ei EXCEPT ![h] = @ + 1]
         /\ Put(h, End) /\ End \in Msg
         /\ Sends(ei[h]) /\ ei[h] \in DOMAIN Manifest /\ ei[h] \in 1..Len(Manifest)
         /\ torn' \in [Conn -> SUBSET Name] /\ torn[h] \subseteq torn'[h]
         /\ torn'[h] \subseteq torn[h] \cup {Manifest[ei[h]].name}
         /\ \A g \in Conn \ {h} : torn'[g] = torn[g]
         /\ Manifest[ei[h]].name \notin torn'[h] => Len(Body(sent[h], ei[h])) >= Len(fd[h])
<1> DEFINE n == Manifest[ei[h]].name
<1>1. /\ enc[h] = "read" /\ UNCHANGED <<disk, fd, sent, decVars>>
      /\ enc' = [enc EXCEPT ![h] = "next"] /\ ei' = [ei EXCEPT ![h] = @ + 1]
      /\ chan' = [chan EXCEPT ![h] = @ \o <<End>>]
      /\ torn' = IF Len(sent[h][n]) >= Len(fd[h]) THEN torn
                 ELSE [torn EXCEPT ![h] = @ \cup {n}]
  BY DEF EncEnd, Close, Off, AtName
<1>2. Sends(ei[h]) /\ ei[h] \in DOMAIN Manifest /\ ei[h] \in 1..Len(Manifest) /\ n \in Name
  BY <1>1, ManifestParts DEF IInv, ConnInv, Phases
<1>3. End \in Msg
  BY DEF Msg, End
<1>4. Put(h, End)
  <2>1. chan[h] \o <<End>> = Append(chan[h], End)
    BY <1>3 DEF IInv, TypeOK
  <2> QED BY <1>1, <2>1 DEF IInv, TypeOK, Put
<1>5. torn \in [Conn -> SUBSET Name]
  BY DEF IInv, TypeOK
<1>6. /\ torn' \in [Conn -> SUBSET Name] /\ torn[h] \subseteq torn'[h]
      /\ torn'[h] \subseteq torn[h] \cup {n}
      /\ \A g \in Conn \ {h} : torn'[g] = torn[g]
      /\ n \notin torn'[h] => Len(sent[h][n]) >= Len(fd[h])
  BY <1>1, <1>2, <1>5
<1> QED BY <1>1, <1>2, <1>3, <1>4, <1>6 DEF Body

LEMMA EncTypes ==
  ASSUME IInv, NEW h \in Conn, EncStep(h)
  PROVE  TypeOK'
<1>1. CASE EncValue(h)
  <2>1. [kind |-> "value"] \in Msg
    BY DEF Msg
  <2>2. torn' \in [Conn -> SUBSET Name]
    <3>1. torn \in [Conn -> SUBSET Name]
      BY DEF IInv, TypeOK
    <3>2. torn' = IF h = 1 THEN torn ELSE [torn EXCEPT ![h] = torn[h - 1]]
      BY <1>1 DEF EncValue
    <3>3. h # 1 => h - 1 \in Conn
      BY ConnParts
    <3> QED BY <3>1, <3>2, <3>3
  <2> QED BY <1>1, <2>1, <2>2 DEF IInv, TypeOK, EncValue, Put, decVars
<1>2. CASE EncNames(h)
  <2>1. [kind |-> "names"] \in Msg
    BY DEF Msg
  <2> QED BY <1>2, <2>1 DEF IInv, TypeOK, EncNames, Put, decVars
<1>3. CASE EncSkip(h)
  BY <1>3, ManifestParts DEF IInv, TypeOK, EncSkip, decVars
<1>4. CASE EncOpen(h)
  <2>1. enc'[h] \in {"read", "error"}
    BY <1>4 DEF IInv, TypeOK, EncOpen, OpenExcept
  <2>2. CASE enc'[h] = "read"
    <3>1. fd'[h] \in Seq(Chunk) /\ sent' = sent
      BY <1>4, <2>2, Opened
    <3>2. /\ enc' = [enc EXCEPT ![h] = "read"] /\ fd' = [fd EXCEPT ![h] = fd'[h]]
          /\ UNCHANGED <<disk, ei, torn, chan, decVars>>
      BY <1>4, <2>2 DEF IInv, TypeOK, EncOpen, OpenExcept
    <3> QED BY <3>1, <3>2 DEF IInv, TypeOK, decVars
  <2>3. CASE enc'[h] = "error"
    BY <1>4, <2>3 DEF IInv, TypeOK, EncOpen, OpenExcept, decVars
  <2> QED BY <2>1, <2>2, <2>3
<1>5. CASE EncChunk(h)
  <2> DEFINE c == fd[h][Len(Body(sent[h], ei[h])) + 1]
  <2>1. c \in Chunk
    <3>1. /\ fd[h] \in Seq(Chunk) /\ Body(sent[h], ei[h]) \in Seq(Chunk)
          /\ Len(Body(sent[h], ei[h])) < Len(fd[h])
      BY <1>5, Reading
    <3>2. Len(Body(sent[h], ei[h])) + 1 \in 1..Len(fd[h])
      BY <3>1
    <3> QED BY <3>1, <3>2
  <2>2. [kind |-> "data", data |-> c] \in Msg
    BY <2>1 DEF Msg
  <2>3. /\ sent' \in [Conn -> [Name -> Seq(Chunk)]]
        /\ chan' = [chan EXCEPT ![h] = Append(@, [kind |-> "data", data |-> c])]
        /\ UNCHANGED <<disk, enc, ei, fd, torn, decVars>>
    BY <1>5, Reading DEF Put
  <2> QED BY <2>2, <2>3 DEF IInv, TypeOK, decVars
<1>6. CASE EncEnd(h)
  <2>1. /\ enc' = [enc EXCEPT ![h] = "next"] /\ ei' = [ei EXCEPT ![h] = @ + 1]
        /\ chan' = [chan EXCEPT ![h] = Append(@, End)] /\ End \in Msg
        /\ torn' \in [Conn -> SUBSET Name]
        /\ UNCHANGED <<disk, fd, sent, decVars>>
    BY <1>6, Closing DEF Put
  <2>2. ei[h] + 1 \in 1..(Len(Manifest) + 1)
    BY <1>6, Closing, ManifestParts
  <2> QED BY <2>1, <2>2 DEF IInv, TypeOK, decVars
<1>7. CASE EncDone(h)
  BY <1>7 DEF IInv, TypeOK, EncDone, decVars
<1> QED BY <1>1, <1>2, <1>3, <1>4, <1>5, <1>6, <1>7 DEF EncStep

(* What a step of the encoder other than EncChunk and EncEnd comes to.     *)
LEMMA Elsewhere ==
  ASSUME IInv, TypeOK', NEW h \in Conn, UNCHANGED <<disk, decVars>>,
         sent'[h] = sent[h], ei[h] <= ei'[h]
  PROVE  /\ Growth(sent[h], ei[h], sent'[h], ei'[h])
         /\ Source(h)' = Source(h) /\ dec'[h] = dec[h] /\ di'[h] = di[h]
         /\ pos'[h] = pos[h] /\ DecAt(h)' = DecAt(h) /\ Copied(h)'
         /\ dec[h] = "chunks" => pos'[h] <= Len(Body(sent'[h], di[h]))
         /\ \A i \in 1..(di[h] - 1) : Sends(i) => i < ei'[h]
<1>1. Filled(sent[h]) /\ ei[h] \in Nat /\ ei'[h] \in Nat
  BY SentFilled, ManifestParts DEF IInv, TypeOK
<1>2. Growth(sent[h], ei[h], sent'[h], ei'[h])
  BY <1>1, GrowthNone
<1> QED BY <1>2, EncKeeps

LEMMA EncConn ==
  ASSUME IInv, NEW h \in Conn, EncStep(h)
  PROVE  ConnInv(h)'
<1> USE DEF IInv
<1>1. TypeOK' /\ Only(h) /\ UNCHANGED <<disk, decVars>>
  BY EncLocal, EncTypes
<1>2. /\ Phases(h) /\ Fresh(h) /\ Faithful(h)
      /\ Len(Manifest) \in Nat /\ DOMAIN Manifest = 1..Len(Manifest)
      /\ ei[h] \in Nat /\ Filled(sent[h])
  BY ManifestParts, SentFilled DEF ConnInv, TypeOK
<1>3. CASE EncValue(h)
  <2>1. /\ enc[h] = "idle" /\ enc'[h] = "names" /\ Put(h, [kind |-> "value"])
        /\ ei'[h] = ei[h] /\ sent' = sent /\ ei[h] = 1
    BY <1>2, <1>3 DEF TypeOK, EncValue, Phases
  <2>2. /\ Growth(sent[h], ei[h], sent'[h], ei'[h])
        /\ dec'[h] = dec[h] /\ di'[h] = di[h] /\ DecAt(h)' = DecAt(h) /\ Copied(h)'
        /\ dec[h] = "chunks" => pos'[h] <= Len(Body(sent'[h], di[h]))
        /\ \A i \in 1..(di[h] - 1) : Sends(i) => i < ei'[h]
    BY <1>1, <1>2, <2>1, Elsewhere
  <2>3. Sends(0) /\ FirstSent(0) = 0
    BY AtSent, ManifestParts DEF Sends
  <2>4. EncAt(h) = <<0, 1>> /\ EncAt(h)' = At(0, 2)
    BY <2>1, <2>3 DEF EncAt, At
  <2>5. /\ Place(sent'[h], ei'[h], EncAt(h))
        /\ [kind |-> "value"] = MsgAt(sent'[h], EncAt(h))
        /\ EncAt(h)' = After(sent'[h], EncAt(h))
    BY <2>3, <2>4 DEF Place, Last, MsgAt, After
  <2>6. Framed(h)'
    BY <1>1, <2>1, <2>2, <2>5, Sent
  <2>7. Phases(h)'
    BY <1>2, <2>1, <2>2 DEF Phases, Body
  <2>8. Fresh(h)'
    BY <1>2, <2>1 DEF Fresh, Begun, Body
  <2>9. Faithful(h)'
    BY <1>2, <2>1 DEF Faithful
  <2> QED BY <2>2, <2>6, <2>7, <2>8, <2>9 DEF ConnInv
<1>4. CASE EncNames(h)
  <2>1. /\ enc[h] = "names" /\ enc'[h] = "next" /\ Put(h, [kind |-> "names"])
        /\ ei'[h] = ei[h] /\ sent' = sent /\ fd' = fd /\ torn' = torn /\ ei[h] = 1
    BY <1>2, <1>4 DEF TypeOK, EncNames, Phases
  <2>2. /\ Growth(sent[h], ei[h], sent'[h], ei'[h])
        /\ dec'[h] = dec[h] /\ di'[h] = di[h] /\ DecAt(h)' = DecAt(h) /\ Copied(h)'
        /\ dec[h] = "chunks" => pos'[h] <= Len(Body(sent'[h], di[h]))
        /\ \A i \in 1..(di[h] - 1) : Sends(i) => i < ei'[h]
    BY <1>1, <1>2, <2>1, Elsewhere
  <2>3. Sends(0)
    BY DEF Sends
  <2>4. EncAt(h) = <<0, 2>> /\ EncAt(h)' = At(1, 1)
    BY <2>1 DEF EncAt, At
  <2>5. /\ Place(sent'[h], ei'[h], EncAt(h))
        /\ [kind |-> "names"] = MsgAt(sent'[h], EncAt(h))
        /\ EncAt(h)' = After(sent'[h], EncAt(h))
    BY <2>3, <2>4 DEF Place, Last, MsgAt, After
  <2>6. Framed(h)'
    BY <1>1, <2>1, <2>2, <2>5, Sent
  <2>7. Phases(h)'
    BY <1>2, <2>1, <2>2 DEF Phases, Body
  <2>8. Fresh(h)'
    BY <1>2, <2>1 DEF Fresh, Begun, Body
  <2>9. Faithful(h)'
    BY <1>2, <2>1 DEF Faithful
  <2> QED BY <2>2, <2>6, <2>7, <2>8, <2>9 DEF ConnInv
<1>5. CASE EncSkip(h)
  <2>1. /\ enc[h] = "next" /\ enc'[h] = "next" /\ chan'[h] = chan[h]
        /\ ei[h] \in 1..Len(Manifest) /\ ei'[h] = ei[h] + 1
        /\ sent' = sent /\ fd' = fd /\ torn' = torn /\ ~ Sends(ei[h])
    BY <1>2, <1>5 DEF TypeOK, EncSkip, Sends
  <2>2. /\ Growth(sent[h], ei[h], sent'[h], ei'[h]) /\ Source(h)' = Source(h)
        /\ dec'[h] = dec[h] /\ di'[h] = di[h] /\ DecAt(h)' = DecAt(h) /\ Copied(h)'
        /\ dec[h] = "chunks" => pos'[h] <= Len(Body(sent'[h], di[h]))
        /\ \A i \in 1..(di[h] - 1) : Sends(i) => i < ei'[h]
    BY <1>1, <1>2, <2>1, Elsewhere
  <2>3. EncAt(h)' = EncAt(h)
    BY <2>1, AtSkipped, ManifestParts DEF EncAt, At
  <2>4. Framed(h)'
    BY <1>1, <2>1, <2>2, <2>3, Unsent
  <2>5. Phases(h)'
    BY <1>2, <2>1, <2>2 DEF Phases, Body
  <2>6. Fresh(h)'
    BY <1>2, <2>1 DEF Fresh, Begun, Body
  <2>7. Faithful(h)'
    <3>1. \A i \in DOMAIN Manifest : Sends(i) /\ i < ei'[h] => i < ei[h]
      BY <1>2, <2>1
    <3> QED BY <1>2, <2>1, <2>2, <3>1 DEF Faithful, Body
  <2> QED BY <2>2, <2>4, <2>5, <2>6, <2>7 DEF ConnInv
<1>6. CASE EncOpen(h)
  <2>1. /\ enc[h] = "next" /\ enc'[h] \in {"read", "error"} /\ chan'[h] = chan[h]
        /\ ei'[h] = ei[h] /\ torn' = torn
        /\ enc'[h] = "error" => sent' = sent
    BY <1>6 DEF TypeOK, EncOpen, OpenExcept
  <2>2. /\ sent' = sent
        /\ enc'[h] = "read" =>
             /\ Sends(ei[h]) /\ ei[h] \in DOMAIN Manifest /\ Body(sent[h], ei[h]) = <<>>
             /\ fd'[h] \in Seq(Chunk)
             /\ Manifest[ei[h]].name \notin torn[h] => fd'[h] = Body(Source(h), ei[h])
    BY <1>6, <2>1, Opened
  <2>3. /\ Growth(sent[h], ei[h], sent'[h], ei'[h]) /\ Source(h)' = Source(h)
        /\ dec'[h] = dec[h] /\ di'[h] = di[h] /\ DecAt(h)' = DecAt(h) /\ Copied(h)'
        /\ dec[h] = "chunks" => pos'[h] <= Len(Body(sent'[h], di[h]))
        /\ \A i \in 1..(di[h] - 1) : Sends(i) => i < ei'[h]
    BY <1>1, <1>2, <2>1, <2>2, Elsewhere
  <2>4. EncAt(h)' = EncAt(h)
    <3>1. CASE enc'[h] = "read"
      <4>1. sent'[h][Manifest[ei[h]].name] = <<>>
        BY <2>2, <3>1 DEF Body
      <4> QED BY <2>1, <3>1, <4>1 DEF EncAt, Off, AtName
    <3>2. CASE enc'[h] = "error"
      BY <2>1, <3>2 DEF EncAt
    <3> QED BY <2>1, <3>1, <3>2
  <2>5. Framed(h)'
    BY <1>1, <2>1, <2>3, <2>4, Unsent
  <2>6. Phases(h)'
    BY <1>2, <2>1, <2>2, <2>3 DEF Phases, Body
  <2>7. Fresh(h)'
    BY <1>2, <2>1, <2>2 DEF Fresh, Begun, Body
  <2>8. Faithful(h)'
    <3>1. ASSUME NEW i \in DOMAIN Manifest, Sends(i), Manifest[i].name \notin torn[h]
          PROVE  /\ i < ei[h] => Body(sent[h], i) = Body(Source(h), i)
                 /\ i = ei[h] /\ enc'[h] = "read" =>
                      /\ fd'[h] = Body(Source(h), i)
                      /\ Len(Body(sent[h], i)) <= Len(fd'[h])
                      /\ \A k \in 1..Len(Body(sent[h], i)) :
                           Body(sent[h], i)[k] = fd'[h][k]
      <4>1. i < ei[h] => Body(sent[h], i) = Body(Source(h), i)
        BY <1>2, <3>1 DEF Faithful
      <4>2. ASSUME i = ei[h], enc'[h] = "read"
            PROVE  /\ fd'[h] = Body(Source(h), i)
                   /\ Body(sent[h], i) = <<>> /\ Len(fd'[h]) \in Nat
        BY <2>2, <3>1, <4>2
      <4>3. Len(<<>>) = 0
        OBVIOUS
      <4> QED BY <4>1, <4>2, <4>3
    <3> QED BY <2>1, <2>2, <2>3, <3>1 DEF Faithful, Body
  <2> QED BY <2>3, <2>5, <2>6, <2>7, <2>8 DEF ConnInv
<1>7. CASE EncChunk(h)
  <2> DEFINE b == Body(sent[h], ei[h])
             c == fd[h][Len(b) + 1]
  <2>1. /\ enc[h] = "read" /\ UNCHANGED <<disk, enc, ei, fd, torn, decVars>>
        /\ Sends(ei[h]) /\ ei[h] \in DOMAIN Manifest /\ ei[h] \in 1..Len(Manifest)
        /\ fd[h] \in Seq(Chunk) /\ b \in Seq(Chunk) /\ Len(b) < Len(fd[h])
        /\ Put(h, [kind |-> "data", data |-> c])
        /\ Body(sent'[h], ei[h]) = Append(b, c)
        /\ \A i \in DOMAIN Manifest : Sends(i) /\ i # ei[h] =>
             Body(sent'[h], i) = Body(sent[h], i)
    BY <1>7, Reading
  <2>2. c \in Chunk
    <3>1. Len(b) + 1 \in 1..Len(fd[h])
      BY <2>1
    <3> QED BY <2>1, <3>1
  <2> HIDE DEF c
  <2>3. /\ Len(b) \in Nat /\ Len(Append(b, c)) = Len(b) + 1 /\ Append(b, c)[Len(b) + 1] = c
        /\ \A k \in 1..Len(b) : Append(b, c)[k] = b[k]
    BY <2>1, <2>2
  <2>4. Growth(sent[h], ei[h], sent'[h], ei'[h])
    <3>1. ASSUME NEW i \in DOMAIN Manifest, Sends(i)
          PROVE  /\ i < ei[h] => Body(sent'[h], i) = Body(sent[h], i)
                 /\ Len(Body(sent[h], i)) <= Len(Body(sent'[h], i))
                 /\ \A k \in 1..Len(Body(sent[h], i)) :
                      Body(sent'[h], i)[k] = Body(sent[h], i)[k]
      <4>1. CASE i = ei[h]
        <5>1. ~ (i < ei[h]) /\ Body(sent[h], i) = b /\ Body(sent'[h], i) = Append(b, c)
          BY <1>2, <2>1, <4>1
        <5> HIDE DEF b
        <5> QED BY <2>3, <5>1
      <4>2. CASE i # ei[h]
        <5>1. Body(sent'[h], i) = Body(sent[h], i) /\ Len(Body(sent[h], i)) \in Nat
          BY <1>2, <2>1, <3>1, <4>2 DEF Filled
        <5> QED BY <5>1
      <4> QED BY <4>1, <4>2
    <3> QED BY <1>2, <2>1, <3>1 DEF Growth
  <2>5. /\ Source(h)' = Source(h) /\ dec'[h] = dec[h] /\ di'[h] = di[h]
        /\ pos'[h] = pos[h] /\ DecAt(h)' = DecAt(h) /\ Copied(h)'
        /\ dec[h] = "chunks" => pos[h] <= Len(Body(sent'[h], di[h]))
        /\ \A i \in 1..(di[h] - 1) : Sends(i) => i < ei'[h]
    BY <1>1, <2>4, EncKeeps
  <2>6. FirstSent(ei[h]) = ei[h] /\ ei[h] # 0
    BY <1>2, <2>1, AtSent
  <2>7. Off(h) = Len(b) /\ Off(h)' = Len(b) + 1
    BY <2>1, <2>3 DEF Off, AtName, Body
  <2>8. EncAt(h) = <<ei[h], Len(b) + 1>> /\ EncAt(h)' = <<ei[h], Len(b) + 2>>
    BY <2>1, <2>3, <2>6, <2>7 DEF EncAt, At
  <2>9. Last(sent'[h], ei[h]) = Len(b) + 2
    BY <2>1, <2>3, <2>6 DEF Last
  <2>10. Body(sent'[h], ei[h])[Len(b) + 1] = c
    BY <2>1, <2>3
  <2> HIDE DEF b
  <2>11. /\ Place(sent'[h], ei'[h], EncAt(h))
         /\ [kind |-> "data", data |-> c] = MsgAt(sent'[h], EncAt(h))
         /\ EncAt(h)' = After(sent'[h], EncAt(h))
    BY <2>1, <2>3, <2>6, <2>8, <2>9, <2>10 DEF Place, MsgAt, After, At
  <2>12. Framed(h)'
    BY <1>1, <2>1, <2>4, <2>5, <2>11, Sent
  <2>13. Phases(h)'
    BY <1>2, <2>1, <2>5 DEF Phases, Body
  <2>14. Fresh(h)'
    BY <1>2, <2>1 DEF Fresh, Begun, Body
  <2>15. Faithful(h)'
    <3>1. ASSUME NEW i \in DOMAIN Manifest, Sends(i), Manifest[i].name \notin torn[h]
          PROVE  /\ i < ei[h] => Body(sent'[h], i) = Body(Source(h), i)
                 /\ i = ei[h] =>
                      /\ fd[h] = Body(Source(h), i)
                      /\ Len(Body(sent'[h], i)) <= Len(fd[h])
                      /\ \A k \in 1..Len(Body(sent'[h], i)) :
                           Body(sent'[h], i)[k] = fd[h][k]
      <4>1. i < ei[h] => Body(sent'[h], i) = Body(Source(h), i)
        <5> SUFFICES ASSUME i < ei[h] PROVE Body(sent'[h], i) = Body(Source(h), i)
          OBVIOUS
        <5>1. Body(sent'[h], i) = Body(sent[h], i)
          BY <1>2, <2>1, <3>1
        <5> QED BY <1>2, <3>1, <5>1 DEF Faithful
      <4>2. ASSUME i = ei[h]
            PROVE  /\ fd[h] = Body(Source(h), i)
                   /\ Len(Append(b, c)) <= Len(fd[h])
                   /\ \A k \in 1..Len(Append(b, c)) : Append(b, c)[k] = fd[h][k]
        <5>1. /\ fd[h] = Body(Source(h), i)
              /\ \A k \in 1..Len(b) : b[k] = fd[h][k]
          BY <1>2, <2>1, <3>1, <4>2 DEF Faithful, b
        <5>2. \A k \in 1..(Len(b) + 1) : Append(b, c)[k] = fd[h][k]
          BY <2>1, <2>3, <5>1 DEF c
        <5> QED BY <2>1, <2>3, <5>1, <5>2
      <4> QED BY <2>1, <4>1, <4>2
    <3> QED BY <2>1, <2>5, <3>1 DEF Faithful, Body
  <2> QED BY <2>5, <2>12, <2>13, <2>14, <2>15 DEF ConnInv
<1>8. CASE EncEnd(h)
  <2> DEFINE b == Body(sent[h], ei[h])
  <2>1. /\ enc[h] = "read" /\ enc'[h] = "next" /\ ei'[h] = ei[h] + 1
        /\ Put(h, End) /\ sent' = sent /\ fd' = fd
        /\ Sends(ei[h]) /\ ei[h] \in DOMAIN Manifest /\ ei[h] \in 1..Len(Manifest)
        /\ torn[h] \subseteq torn'[h]
        /\ Manifest[ei[h]].name \notin torn'[h] => Len(b) >= Len(fd[h])
    BY <1>8, Closing DEF TypeOK
  <2>2. /\ Growth(sent[h], ei[h], sent'[h], ei'[h]) /\ Source(h)' = Source(h)
        /\ dec'[h] = dec[h] /\ di'[h] = di[h] /\ DecAt(h)' = DecAt(h) /\ Copied(h)'
        /\ dec[h] = "chunks" => pos'[h] <= Len(Body(sent'[h], di[h]))
        /\ \A i \in 1..(di[h] - 1) : Sends(i) => i < ei'[h]
    BY <1>1, <1>2, <2>1, Elsewhere
  <2>3. FirstSent(ei[h]) = ei[h] /\ ei[h] # 0 /\ b \in Seq(Chunk) /\ fd[h] \in Seq(Chunk)
    BY <1>2, <2>1, AtSent, SentFilled DEF TypeOK
  <2>4. Off(h) = Len(b)
    BY DEF Off, AtName, Body
  <2>5. EncAt(h) = <<ei[h], Len(b) + 1>> /\ EncAt(h)' = At(ei[h] + 1, 1)
    BY <2>1, <2>3, <2>4 DEF EncAt, At
  <2>6. Last(sent'[h], ei[h]) = Len(b) + 1
    BY <2>1, <2>3 DEF Last
  <2> HIDE DEF b
  <2>7. /\ Place(sent'[h], ei'[h], EncAt(h)) /\ End = MsgAt(sent'[h], EncAt(h))
        /\ EncAt(h)' = After(sent'[h], EncAt(h))
    BY <1>2, <2>1, <2>3, <2>5, <2>6 DEF Place, MsgAt, After
  <2>8. Framed(h)'
    BY <1>1, <2>1, <2>2, <2>7, Sent
  <2>9. Phases(h)'
    BY <1>2, <2>1, <2>2 DEF Phases, Body
  <2>10. Fresh(h)'
    BY <1>2, <2>1 DEF Fresh, Begun, Body
  <2>11. Faithful(h)'
    <3>1. ASSUME NEW i \in DOMAIN Manifest, Sends(i), Manifest[i].name \notin torn'[h],
                 i < ei'[h]
          PROVE  Body(sent[h], i) = Body(Source(h), i)
      <4>1. Manifest[i].name \notin torn[h]
        BY <2>1, <3>1
      <4>2. CASE i = ei[h]
        <5>1. /\ fd[h] = Body(Source(h), i) /\ Len(b) <= Len(fd[h])
              /\ \A k \in 1..Len(b) : b[k] = fd[h][k]
          BY <1>2, <2>1, <3>1, <4>1, <4>2 DEF Faithful, b
        <5>2. Len(b) = Len(fd[h])
          BY <2>1, <2>3, <3>1, <4>2, <5>1
        <5>3. b = fd[h]
          BY <2>3, <5>1, <5>2, SeqEqual
        <5> QED BY <4>2, <5>1, <5>3 DEF b
      <4>3. CASE i # ei[h]
        <5>1. i < ei[h]
          BY <1>2, <2>1, <3>1, <4>3
        <5> QED BY <1>2, <3>1, <4>1, <5>1 DEF Faithful
      <4> QED BY <4>2, <4>3
    <3> QED BY <2>1, <2>2, <3>1 DEF Faithful, Body
  <2> QED BY <2>2, <2>8, <2>9, <2>10, <2>11 DEF ConnInv
<1>9. CASE EncDone(h)
  <2>1. /\ enc[h] = "next" /\ enc'[h] = "done" /\ ei'[h] = ei[h] /\ chan'[h] = chan[h]
        /\ ei[h] = Len(Manifest) + 1 /\ sent' = sent /\ fd' = fd /\ torn' = torn
    BY <1>9 DEF TypeOK, EncDone
  <2>2. /\ Growth(sent[h], ei[h], sent'[h], ei'[h]) /\ Source(h)' = Source(h)
        /\ dec'[h] = dec[h] /\ di'[h] = di[h] /\ DecAt(h)' = DecAt(h) /\ Copied(h)'
        /\ dec[h] = "chunks" => pos'[h] <= Len(Body(sent'[h], di[h]))
        /\ \A i \in 1..(di[h] - 1) : Sends(i) => i < ei'[h]
    BY <1>1, <1>2, <2>1, Elsewhere
  <2>3. EncAt(h)' = EncAt(h)
    BY <2>1 DEF EncAt
  <2>4. Framed(h)'
    BY <1>1, <2>1, <2>2, <2>3, Unsent
  <2>5. Phases(h)'
    BY <1>2, <2>1, <2>2 DEF Phases, Body
  <2>6. Fresh(h)'
    BY <2>1 DEF Fresh
  <2>7. Faithful(h)'
    BY <1>2, <2>1, <2>2 DEF Faithful, Body
  <2> QED BY <2>2, <2>4, <2>5, <2>6, <2>7 DEF ConnInv
<1> QED BY <1>3, <1>4, <1>5, <1>6, <1>7, <1>8, <1>9 DEF EncStep

-----------------------------------------------------------------------------
(* The decoder.                                                            *)

LEMMA LaidStart ==
  ASSUME NEW b, NEW o \in Seq(Chunk) \cup {Absent},
         NEW f, f = IF o = Absent THEN <<>> ELSE o
  PROVE  Laid(f, b, 0, o)
<1>1. CASE o = Absent
  BY <1>1, MarkAssumption DEF Laid
<1>2. CASE o \in Seq(Chunk)
  BY <1>2, MarkAssumption DEF Laid
<1> QED BY <1>1, <1>2

LEMMA LaidNext ==
  ASSUME NEW b \in Seq(Chunk), NEW o, NEW k \in Nat, k < Len(b), NEW f, Laid(f, b, k, o),
         NEW g, g = IF k < Len(f) THEN [f EXCEPT ![k + 1] = b[k + 1]] ELSE Append(f, b[k + 1])
  PROVE  Laid(g, b, k + 1, o)
<1> DEFINE old == IF o \in Seq(Chunk) THEN o ELSE <<>>
<1>1. old \in Seq(Chunk) /\ f \in Seq(Chunk) /\ b[k + 1] \in Chunk
  BY DEF Laid
<1>2. /\ Len(f) = IF k < Len(old) THEN Len(old) ELSE k
      /\ \A j \in 1..Len(f) : f[j] = IF j <= k THEN b[j] ELSE old[j]
  BY DEF Laid
<1> HIDE DEF old
<1>3. CASE k < Len(f)
  <2>1. g = [f EXCEPT ![k + 1] = b[k + 1]] /\ k + 1 \in 1..Len(f)
    BY <1>1, <1>3
  <2>2. g \in Seq(Chunk) /\ Len(g) = Len(f)
    BY <1>1, <2>1
  <2>3. \A j \in 1..Len(g) : g[j] = IF j <= k + 1 THEN b[j] ELSE old[j]
    BY <1>1, <1>2, <2>1, <2>2
  <2>4. Len(g) = IF k + 1 < Len(old) THEN Len(old) ELSE k + 1
    BY <1>1, <1>2, <1>3, <2>2
  <2> QED BY <2>2, <2>3, <2>4 DEF Laid, old
<1>4. CASE ~ (k < Len(f))
  <2>1. g = Append(f, b[k + 1]) /\ Len(f) = k /\ ~ (k < Len(old))
    BY <1>1, <1>2, <1>4
  <2>2. g \in Seq(Chunk) /\ Len(g) = k + 1
    BY <1>1, <2>1
  <2>3. \A j \in 1..Len(g) : g[j] = IF j <= k + 1 THEN b[j] ELSE old[j]
    BY <1>1, <1>2, <2>1, <2>2
  <2>4. Len(g) = IF k + 1 < Len(old) THEN Len(old) ELSE k + 1
    BY <1>1, <2>1, <2>2
  <2> QED BY <2>2, <2>3, <2>4 DEF Laid, old
<1> QED BY <1>3, <1>4

(* One name changes, at one node.                                          *)
Store(h, n, v) == disk' = [disk EXCEPT ![h] = [@ EXCEPT ![n] = v]]

LEMMA Write ==
  ASSUME TypeOK, NEW h \in Conn, NEW n \in Name, NEW v \in Stored,
         Store(h, n, v)
  PROVE  /\ disk' \in [Node -> [Name -> Stored]]
         /\ disk'[h][n] = v
         /\ \A m \in Name \ {n} : disk'[h][m] = disk[h][m]
         /\ \A k \in Node \ {h} : disk'[k] = disk[k]
BY ConnParts DEF TypeOK, Store

(* The file the decoder is at.                                             *)
LEMMA AtEntry ==
  ASSUME IInv, NEW h \in Conn, di[h] <= Len(Manifest)
  PROVE  /\ di[h] \in 1..Len(Manifest) /\ di[h] \in DOMAIN Manifest
         /\ Entry(h) \in Name /\ Entry(h) = Manifest[di[h]].name
         /\ Wanted(h) <=> Listed(di[h])
         /\ SeenAs(di[h]).ftype = Manifest[di[h]].ftype
         /\ disk[h][Entry(h)] \in Stored
<1>1. di[h] \in 1..Len(Manifest) /\ di[h] \in DOMAIN Manifest
  BY ManifestParts DEF IInv, TypeOK
<1>2. Entry(h) \in Name /\ Entry(h) = Manifest[di[h]].name
  BY <1>1, ManifestParts DEF Entry
<1>3. Wanted(h) <=> Listed(di[h])
  BY <1>1, SameFile DEF Wanted
<1>4. SeenAs(di[h]).ftype = Manifest[di[h]].ftype
  BY <1>1, SameFile
<1>5. disk[h][Entry(h)] \in Stored
  BY <1>2, ConnParts DEF IInv, TypeOK
<1> QED BY <1>1, <1>2, <1>3, <1>4, <1>5

(* A name the list has for the first time has not been touched.            *)
LEMMA Untouched ==
  ASSUME IInv, NEW h \in Conn, dec[h] = "next", di[h] <= Len(Manifest), Listed(di[h])
  PROVE  /\ disk[h][Entry(h)] = Old[h][Entry(h)]
         /\ Old[h][Entry(h)] \in Seq(Chunk) \cup {Absent, Dir}
<1>1. Entry(h) \in Name /\ Entry(h) = Manifest[di[h]].name
  BY AtEntry
<1>2. \A i \in 1..(di[h] - 1) : Manifest[i].name # Entry(h)
  BY <1>1 DEF Listed
<1>3. disk[h][Entry(h)] = Old[h][Entry(h)]
  BY <1>1, <1>2 DEF IInv, ConnInv, Copied
<1> QED BY <1>1, <1>3, OldAssumption

LEMMA DecLocal ==
  ASSUME IInv, NEW h \in Conn, DecStep(h)
  PROVE  Only(h) /\ UNCHANGED encVars
<1>1. CASE DecValue(h)
  BY <1>1 DEF IInv, TypeOK, Only, DecValue, Get, encVars
<1>2. CASE DecNames(h)
  BY <1>2 DEF IInv, TypeOK, Only, DecNames, Get, encVars
<1>3. CASE DecSkip(h)
  BY <1>3 DEF IInv, TypeOK, Only, DecSkip, encVars
<1>4. CASE DecMake(h)
  BY <1>4 DEF IInv, TypeOK, Only, DecMake, encVars
<1>5. CASE DecOpen(h)
  BY <1>5 DEF IInv, TypeOK, Only, DecOpen, encVars
<1>6. CASE DecChunk(h)
  BY <1>6 DEF IInv, TypeOK, Only, DecChunk, Get, encVars
<1>7. CASE DecEnd(h)
  BY <1>7 DEF IInv, TypeOK, Only, DecEnd, Get, encVars
<1>8. CASE DecDone(h)
  BY <1>8 DEF IInv, TypeOK, Only, DecDone, encVars
<1>9. CASE DecFails(h)
  BY <1>9 DEF IInv, TypeOK, Only, DecFails, FailsAt, encVars
<1> QED BY <1>1, <1>2, <1>3, <1>4, <1>5, <1>6, <1>7, <1>8, <1>9 DEF DecStep

LEMMA DecKeeps ==
  ASSUME IInv, NEW h \in Conn, Only(h), UNCHANGED encVars
  PROVE  /\ enc'[h] = enc[h] /\ ei'[h] = ei[h] /\ sent'[h] = sent[h]
         /\ EncAt(h)' = EncAt(h) /\ Fresh(h)' /\ Faithful(h)'
         /\ Growth(sent[h], ei[h], sent'[h], ei'[h])
<1>1. Source(h)' = Source(h)
  <2>1. h - 1 \in Node \ {h}
    BY ConnParts
  <2> QED BY <2>1 DEF Source, Only
<1>2. /\ enc' = enc /\ ei' = ei /\ fd' = fd /\ sent' = sent /\ torn' = torn
  BY DEF encVars
<1>3. EncAt(h)' = EncAt(h)
  BY <1>2 DEF EncAt, Off, AtName
<1>4. Fresh(h)'
  BY <1>2 DEF IInv, ConnInv, Fresh, Begun, Body
<1>5. Faithful(h)'
  BY <1>1, <1>2, FaithfulSame
<1>6. Growth(sent[h], ei[h], sent'[h], ei'[h])
  <2>1. Filled(sent[h]) /\ ei[h] \in Nat /\ ei[h] <= ei[h]
    BY SentFilled, ManifestParts DEF IInv, TypeOK
  <2> QED BY <1>2, <2>1, GrowthNone
<1> QED BY <1>2, <1>3, <1>4, <1>5, <1>6

(* Making a directory or a link.                                           *)
LEMMA Making ==
  ASSUME IInv, NEW h \in Conn, DecMake(h)
  PROVE  /\ dec[h] = "next" /\ dec' = dec /\ di' = [di EXCEPT ![h] = @ + 1]
         /\ di[h] \in 1..Len(Manifest) /\ Listed(di[h]) /\ ~ Sends(di[h])
         /\ UNCHANGED <<encVars, chan, pos>>
         /\ \E v \in Stored :
              /\ Store(h, Entry(h), v)
              /\ \A b : Made(v, b, Old[h][Entry(h)], Manifest[di[h]].ftype)
<1> DEFINE o == disk[h][Entry(h)]
           v == IF o # Absent THEN o ELSE IF SeenAs(di[h]).ftype = "dir" THEN Dir ELSE Link
<1>1. /\ dec[h] = "next" /\ dec' = dec /\ di' = [di EXCEPT ![h] = @ + 1]
      /\ di[h] <= Len(Manifest) /\ Wanted(h) /\ SeenAs(di[h]).ftype \in {"dir", "link"}
      /\ UNCHANGED <<encVars, chan, pos>>
  BY DEF DecMake
<1>2. Store(h, Entry(h), v)
  BY ConnParts DEF DecMake, IInv, TypeOK, Store
<1>3. /\ di[h] \in 1..Len(Manifest) /\ Listed(di[h])
      /\ SeenAs(di[h]).ftype = Manifest[di[h]].ftype /\ o \in Stored
  BY <1>1, AtEntry
<1>4. ~ Sends(di[h])
  BY <1>1, <1>3 DEF Sends
<1>5. o = Old[h][Entry(h)]
  BY <1>1, <1>3, Untouched
<1>6. v \in Stored
  BY <1>3 DEF Stored
<1>7. \A b : Made(v, b, Old[h][Entry(h)], Manifest[di[h]].ftype)
  BY <1>1, <1>3, <1>5 DEF Made
<1> QED BY <1>1, <1>2, <1>3, <1>4, <1>6, <1>7

(* Opening a file for writing.                                             *)
LEMMA Opening ==
  ASSUME IInv, NEW h \in Conn, DecOpen(h)
  PROVE  /\ dec[h] = "next" /\ UNCHANGED <<encVars, chan, di>>
         /\ di[h] \in DOMAIN Manifest /\ Listed(di[h]) /\ Sends(di[h])
         /\ \/ /\ dec' = [dec EXCEPT ![h] = "failed"] /\ UNCHANGED <<disk, pos>>
            \/ /\ dec' = [dec EXCEPT ![h] = "chunks"] /\ pos' = [pos EXCEPT ![h] = 0]
               /\ \E v \in Stored :
                    /\ Store(h, Entry(h), v)
                    /\ \A b : Laid(v, b, 0, Old[h][Entry(h)])
<1> DEFINE o == disk[h][Entry(h)]
           v == IF o = Absent THEN <<>> ELSE o
<1>1. /\ dec[h] = "next" /\ UNCHANGED <<encVars, chan, di>>
      /\ di[h] <= Len(Manifest) /\ Wanted(h) /\ SeenAs(di[h]).ftype = "file"
  BY DEF DecOpen
<1>2. /\ di[h] \in DOMAIN Manifest /\ Listed(di[h]) /\ o \in Stored
      /\ Manifest[di[h]].ftype = "file"
  BY <1>1, AtEntry
<1>3. Sends(di[h])
  BY <1>2 DEF Sends
<1>4. o = Old[h][Entry(h)] /\ o \in Seq(Chunk) \cup {Absent, Dir}
  BY <1>1, <1>2, Untouched
<1>5. CASE o = Dir
  BY <1>1, <1>2, <1>3, <1>5 DEF DecOpen
<1>6. CASE o # Dir
  <2>1. dec' = [dec EXCEPT ![h] = "chunks"] /\ pos' = [pos EXCEPT ![h] = 0]
    BY <1>6 DEF DecOpen
  <2>2. Store(h, Entry(h), v)
    BY <1>6, ConnParts DEF DecOpen, IInv, TypeOK, Store
  <2>3. v \in Stored
    BY <1>2 DEF Stored
  <2>4. \A b : Laid(v, b, 0, Old[h][Entry(h)])
    <3>1. SUFFICES ASSUME NEW b PROVE Laid(v, b, 0, o)
      BY <1>4
    <3> QED BY <1>4, <1>6, LaidStart
  <2> QED BY <1>1, <1>2, <1>3, <2>1, <2>2, <2>3, <2>4
<1> QED BY <1>5, <1>6

(* A chunk is the next one of the file, and put where it belongs.          *)
LEMMA Writing ==
  ASSUME IInv, NEW h \in Conn, DecChunk(h)
  PROVE  /\ dec[h] = "chunks" /\ UNCHANGED <<encVars, dec, di>>
         /\ pos' = [pos EXCEPT ![h] = @ + 1]
         /\ chan[h] # <<>> /\ Get(h)
         /\ di[h] \in DOMAIN Manifest /\ Sends(di[h]) /\ Listed(di[h])
         /\ DecAt(h) = <<di[h], pos[h] + 1>>
         /\ pos[h] + 1 < Last(sent[h], di[h])
         /\ pos[h] + 1 <= Len(Body(sent[h], di[h]))
         /\ \E v \in Seq(Chunk) :
              /\ Store(h, Entry(h), v)
              /\ Laid(v, Body(sent[h], di[h]), pos[h] + 1, Old[h][Entry(h)])
<1> DEFINE f == disk[h][Entry(h)]
           b == Body(sent[h], di[h])
           d == Head(chan[h]).data
           v == IF pos[h] < Len(f) THEN [f EXCEPT ![pos[h] + 1] = d] ELSE Append(f, d)
<1>1. /\ dec[h] = "chunks" /\ UNCHANGED <<encVars, dec, di>>
      /\ pos' = [pos EXCEPT ![h] = @ + 1] /\ pos[h] \in Nat
      /\ chan[h] # <<>> /\ Get(h) /\ Head(chan[h]).kind = "data"
  BY DEF DecChunk, Ready, IInv, TypeOK
<1>2. /\ di[h] \in DOMAIN Manifest /\ Sends(di[h]) /\ di[h] # 0
      /\ Listed(di[h]) /\ di[h] \in 0..Len(Manifest)
  BY <1>1, ManifestParts DEF IInv, ConnInv, Phases, Sends
<1>3. b \in Seq(Chunk) /\ Last(sent[h], di[h]) = Len(b) + 1
  BY <1>1, <1>2, SentFilled DEF IInv, Last
<1>4. DecAt(h) = <<di[h], pos[h] + 1>>
  BY <1>1, <1>2, AtSent DEF DecAt, At
<1>5. /\ pos[h] + 1 \in 1..(Len(b) + 1)
      /\ Head(chan[h]) = MsgAt(sent[h], <<di[h], pos[h] + 1>>)
  <2>1. /\ Place(sent[h], ei[h], <<di[h], pos[h] + 1>>)
        /\ Head(chan[h]) = MsgAt(sent[h], <<di[h], pos[h] + 1>>)
    BY <1>1, <1>4, NextMsg
  <2> HIDE DEF b
  <2> QED BY <1>3, <2>1 DEF Place
<1>6. pos[h] + 1 # Len(b) + 1 /\ d = b[pos[h] + 1]
  <2>1. MsgAt(sent[h], <<di[h], pos[h] + 1>>)
          = IF pos[h] + 1 = Len(b) + 1 THEN End
            ELSE [kind |-> "data", data |-> b[pos[h] + 1]]
    BY <1>2, <1>3 DEF MsgAt
  <2>2. End.kind # "data"
    BY DEF End
  <2> HIDE DEF b
  <2> QED BY <1>1, <1>5, <2>1, <2>2
<1>7. Laid(f, b, pos[h], Old[h][Entry(h)])
  BY <1>1 DEF IInv, ConnInv, Copied
<1>8. Laid(v, b, pos[h] + 1, Old[h][Entry(h)])
  <2>1. pos[h] < Len(b)
    BY <1>1, <1>3, <1>5, <1>6
  <2>2. v = IF pos[h] < Len(f) THEN [f EXCEPT ![pos[h] + 1] = b[pos[h] + 1]]
            ELSE Append(f, b[pos[h] + 1])
    BY <1>6
  <2> HIDE DEF v, f, b
  <2> QED BY <1>1, <1>3, <1>7, <2>1, <2>2, LaidNext
<1>9. v \in Seq(Chunk)
  BY <1>8 DEF Laid
<1>10. Store(h, Entry(h), v)
  BY ConnParts DEF DecChunk, IInv, TypeOK, Store
<1>11. pos[h] + 1 < Last(sent[h], di[h]) /\ pos[h] + 1 <= Len(b)
  BY <1>1, <1>3, <1>5, <1>6
<1> QED BY <1>1, <1>2, <1>4, <1>8, <1>9, <1>10, <1>11

(* The end comes after all chunks.                                         *)
LEMMA Ending ==
  ASSUME IInv, NEW h \in Conn, DecEnd(h)
  PROVE  /\ dec[h] = "chunks" /\ UNCHANGED <<disk, encVars, pos>>
         /\ dec' = [dec EXCEPT ![h] = "next"] /\ di' = [di EXCEPT ![h] = @ + 1]
         /\ chan[h] # <<>> /\ Get(h)
         /\ di[h] \in 1..Len(Manifest) /\ Sends(di[h]) /\ Listed(di[h])
         /\ Manifest[di[h]].ftype = "file"
         /\ DecAt(h) = <<di[h], pos[h] + 1>>
         /\ pos[h] + 1 = Last(sent[h], di[h])
         /\ pos[h] = Len(Body(sent[h], di[h])) /\ di[h] < ei[h]
<1> DEFINE b == Body(sent[h], di[h])
<1>1. /\ dec[h] = "chunks" /\ UNCHANGED <<disk, encVars, pos>>
      /\ dec' = [dec EXCEPT ![h] = "next"] /\ di' = [di EXCEPT ![h] = @ + 1]
      /\ pos[h] \in Nat
      /\ chan[h] # <<>> /\ Get(h) /\ Head(chan[h]).kind = "end"
  BY DEF DecEnd, Ready, IInv, TypeOK
<1>2. /\ di[h] \in DOMAIN Manifest /\ Sends(di[h]) /\ di[h] # 0
      /\ Listed(di[h]) /\ di[h] \in 1..Len(Manifest) /\ Manifest[di[h]].ftype = "file"
  BY <1>1, ManifestParts DEF IInv, ConnInv, Phases, Sends
<1>3. b \in Seq(Chunk) /\ Last(sent[h], di[h]) = Len(b) + 1
  BY <1>1, <1>2, SentFilled DEF IInv, Last
<1>4. DecAt(h) = <<di[h], pos[h] + 1>>
  BY <1>1, <1>2, AtSent DEF DecAt, At
<1>5. /\ Place(sent[h], ei[h], <<di[h], pos[h] + 1>>)
      /\ Head(chan[h]) = MsgAt(sent[h], <<di[h], pos[h] + 1>>)
  BY <1>1, <1>4, NextMsg
<1>6. pos[h] + 1 = Len(b) + 1
  BY <1>1, <1>2, <1>3, <1>5 DEF MsgAt
<1>7. pos[h] = Len(b)
  BY <1>1, <1>3, <1>6
<1>8. di[h] < ei[h]
  BY <1>2, <1>3, <1>5, <1>6 DEF Place
<1> QED BY <1>1, <1>2, <1>3, <1>4, <1>6, <1>7, <1>8

LEMMA DecTypes ==
  ASSUME IInv, NEW h \in Conn, DecStep(h)
  PROVE  TypeOK'
<1>1. CASE DecValue(h)
  <2>1. Tail(chan[h]) \in Seq(Msg)
    BY <1>1 DEF IInv, TypeOK, DecValue, Ready
  <2> QED BY <1>1, <2>1 DEF IInv, TypeOK, DecValue, Get, encVars
<1>2. CASE DecNames(h)
  <2>1. Tail(chan[h]) \in Seq(Msg)
    BY <1>2 DEF IInv, TypeOK, DecNames, Ready
  <2> QED BY <1>2, <2>1 DEF IInv, TypeOK, DecNames, Get, encVars
<1>3. CASE DecSkip(h)
  BY <1>3, ManifestParts DEF IInv, TypeOK, DecSkip, encVars
<1>4. CASE DecMake(h)
  <2>1. /\ dec' = dec /\ di' = [di EXCEPT ![h] = @ + 1]
        /\ di[h] \in 1..Len(Manifest) /\ UNCHANGED <<encVars, chan, pos>>
        /\ \E v \in Stored : Store(h, Entry(h), v)
    BY <1>4, Making
  <2>2. di[h] <= Len(Manifest) /\ di[h] + 1 \in 1..(Len(Manifest) + 1)
    BY <2>1, ManifestParts
  <2>3. Entry(h) \in Name
    BY <2>2, AtEntry
  <2>4. disk' \in [Node -> [Name -> Stored]]
    BY <2>1, <2>3, Write DEF IInv
  <2>5. di' \in [Conn -> 1..(Len(Manifest) + 1)]
    BY <2>1, <2>2 DEF IInv, TypeOK
  <2> QED BY <2>1, <2>4, <2>5 DEF IInv, TypeOK, encVars
<1>5. CASE DecOpen(h)
  <2>1. /\ UNCHANGED <<encVars, chan, di>> /\ Entry(h) \in Name
        /\ \/ dec' = [dec EXCEPT ![h] = "failed"] /\ UNCHANGED <<disk, pos>>
           \/ /\ dec' = [dec EXCEPT ![h] = "chunks"] /\ pos' = [pos EXCEPT ![h] = 0]
              /\ \E v \in Stored : Store(h, Entry(h), v)
    BY <1>5, Opening, ManifestParts DEF Entry
  <2>2. disk' \in [Node -> [Name -> Stored]]
    <3>1. CASE UNCHANGED disk
      BY <3>1 DEF IInv, TypeOK
    <3>2. CASE \E v \in Stored : Store(h, Entry(h), v)
      BY <2>1, <3>2, Write DEF IInv
    <3> QED BY <2>1, <3>1, <3>2
  <2>3. dec' \in [Conn -> {"value", "names", "next", "chunks", "done", "failed"}]
    BY <2>1 DEF IInv, TypeOK
  <2>4. pos' \in [Conn -> Nat]
    <3>1. UNCHANGED pos \/ pos' = [pos EXCEPT ![h] = 0]
      BY <2>1
    <3>2. pos \in [Conn -> Nat]
      BY DEF IInv, TypeOK
    <3> QED BY <3>1, <3>2
  <2> QED BY <2>1, <2>2, <2>3, <2>4 DEF IInv, TypeOK, encVars
<1>6. CASE DecChunk(h)
  <2>1. Entry(h) \in Name
    BY <1>6, Writing, AtEntry, ManifestParts
  <2>2. disk' \in [Node -> [Name -> Stored]]
    BY <1>6, <2>1, Writing, Write DEF IInv, Stored
  <2>3. Tail(chan[h]) \in Seq(Msg)
    BY <1>6, Writing DEF IInv, TypeOK
  <2>4. /\ UNCHANGED <<encVars, dec, di>> /\ pos' = [pos EXCEPT ![h] = @ + 1]
        /\ chan' = [chan EXCEPT ![h] = Tail(@)]
    BY <1>6, Writing DEF Get
  <2> QED BY <2>2, <2>3, <2>4 DEF IInv, TypeOK, encVars
<1>7. CASE DecEnd(h)
  <2>1. Tail(chan[h]) \in Seq(Msg)
    BY <1>7, Ending DEF IInv, TypeOK
  <2>2. di[h] + 1 \in 1..(Len(Manifest) + 1)
    BY <1>7, Ending, ManifestParts
  <2>3. /\ UNCHANGED <<disk, encVars, pos>> /\ dec' = [dec EXCEPT ![h] = "next"]
        /\ di' = [di EXCEPT ![h] = @ + 1] /\ chan' = [chan EXCEPT ![h] = Tail(@)]
    BY <1>7, Ending DEF Get
  <2> QED BY <2>1, <2>2, <2>3 DEF IInv, TypeOK, encVars
<1>8. CASE DecDone(h)
  BY <1>8 DEF IInv, TypeOK, DecDone, encVars
<1>9. CASE DecFails(h)
  BY <1>9 DEF IInv, TypeOK, DecFails, FailsAt, encVars
<1> QED BY <1>1, <1>2, <1>3, <1>4, <1>5, <1>6, <1>7, <1>8, <1>9 DEF DecStep

(* One more entry of the list is done with.                                *)
LEMMA CopiedOneMore ==
  ASSUME IInv, NEW h \in Conn, dec[h] \in {"next", "chunks"}, dec'[h] = "next",
         di[h] \in 1..Len(Manifest), di'[h] = di[h] + 1, sent'[h] = sent[h],
         \A m \in Name \ {Entry(h)} : disk'[h][m] = disk[h][m],
         Listed(di[h]) =>
           Made(disk'[h][Entry(h)], Body(sent[h], di[h]),
                Old[h][Entry(h)], Manifest[di[h]].ftype),
         dec[h] = "chunks" => Listed(di[h]),
         ~ Listed(di[h]) => disk'[h] = disk[h]
  PROVE  Copied(h)'
<1>1. Copied(h) /\ DOMAIN Manifest = 1..Len(Manifest) /\ Entry(h) = Manifest[di[h]].name
  BY ManifestParts DEF IInv, ConnInv, Entry
<1>2. ASSUME NEW i \in 1..(di'[h] - 1), Listed(i)
      PROVE  Made(disk'[h][Manifest[i].name], Body(sent[h], i),
                  Old[h][Manifest[i].name], Manifest[i].ftype)
  <2>1. CASE i = di[h]
    BY <1>1, <1>2, <2>1
  <2>2. CASE i \in 1..(di[h] - 1)
    <3>1. Made(disk[h][Manifest[i].name], Body(sent[h], i),
               Old[h][Manifest[i].name], Manifest[i].ftype)
      BY <1>1, <1>2, <2>2 DEF Copied
    <3>2. disk'[h][Manifest[i].name] = disk[h][Manifest[i].name]
      <4>1. CASE Listed(di[h])
        <5>1. Manifest[i].name # Entry(h) /\ Manifest[i].name \in Name
          BY <1>1, <2>2, <4>1, ManifestParts DEF Listed
        <5> QED BY <5>1
      <4> QED BY <4>1
    <3> QED BY <3>1, <3>2
  <2> QED BY <2>1, <2>2
<1>3. ASSUME NEW n \in Name, \A i \in 1..(di'[h] - 1) : Manifest[i].name # n
      PROVE  disk'[h][n] = Old[h][n]
  <2>1. n # Entry(h) /\ \A i \in 1..(di[h] - 1) : Manifest[i].name # n
    BY <1>1, <1>3
  <2>2. disk[h][n] = Old[h][n]
    BY <1>1, <2>1 DEF Copied
  <2> QED BY <2>1, <2>2
<1> QED BY <1>2, <1>3 DEF Copied

(* The file at hand is on the disk as far as it has come.                  *)
LEMMA CopiedSoFar ==
  ASSUME IInv, NEW h \in Conn, dec[h] \in {"next", "chunks"}, dec'[h] = "chunks",
         di[h] \in 1..Len(Manifest), di'[h] = di[h], sent'[h] = sent[h], Listed(di[h]),
         \A m \in Name \ {Entry(h)} : disk'[h][m] = disk[h][m],
         Laid(disk'[h][Entry(h)], Body(sent[h], di[h]), pos'[h], Old[h][Entry(h)])
  PROVE  Copied(h)'
<1>1. Copied(h) /\ DOMAIN Manifest = 1..Len(Manifest) /\ Entry(h) = Manifest[di[h]].name
      /\ Entry(h)' = Entry(h)
  BY ManifestParts DEF IInv, ConnInv, Entry
<1>2. ASSUME NEW i \in 1..(di[h] - 1), Listed(i)
      PROVE  Made(disk'[h][Manifest[i].name], Body(sent[h], i),
                  Old[h][Manifest[i].name], Manifest[i].ftype)
  <2>1. Made(disk[h][Manifest[i].name], Body(sent[h], i),
             Old[h][Manifest[i].name], Manifest[i].ftype)
    BY <1>1, <1>2 DEF Copied
  <2>2. Manifest[i].name # Entry(h) /\ Manifest[i].name \in Name
    BY <1>1, ManifestParts DEF Listed
  <2> QED BY <2>1, <2>2
<1>3. ASSUME NEW n \in Name, \A i \in 1..(di[h] - 1) : Manifest[i].name # n, Entry(h) # n
      PROVE  disk'[h][n] = Old[h][n]
  BY <1>1, <1>3 DEF Copied
<1> QED BY <1>1, <1>2, <1>3 DEF Copied

LEMMA CopiedSame ==
  ASSUME IInv, NEW h \in Conn, sent'[h] = sent[h], disk'[h] = disk[h],
         di'[h] = di[h], dec'[h] # "chunks",
         dec[h] \notin {"chunks", "failed"} \/ dec'[h] = "failed"
  PROVE  Copied(h)'
<1>1. Copied(h)
  BY DEF IInv, ConnInv
<1> QED BY <1>1 DEF Copied, Entry

LEMMA DecConn ==
  ASSUME IInv, NEW h \in Conn, DecStep(h)
  PROVE  ConnInv(h)'
<1> USE DEF IInv
<1>1. /\ Only(h) /\ UNCHANGED encVars /\ TypeOK'
      /\ enc'[h] = enc[h] /\ ei'[h] = ei[h] /\ sent'[h] = sent[h]
      /\ EncAt(h)' = EncAt(h) /\ Fresh(h)' /\ Faithful(h)'
      /\ Growth(sent[h], ei[h], sent'[h], ei'[h])
  BY DecLocal, DecKeeps, DecTypes
<1>2. TypeOK /\ Phases(h) /\ Len(Manifest) \in Nat /\ DOMAIN Manifest = 1..Len(Manifest)
  BY ManifestParts DEF ConnInv
<1>3. CASE DecValue(h)
  <2>1. /\ dec[h] = "value" /\ dec'[h] = "names" /\ chan[h] # <<>> /\ Get(h)
        /\ di'[h] = di[h] /\ disk'[h] = disk[h]
    BY <1>3 DEF TypeOK, DecValue, Ready
  <2>2. Sends(0) /\ FirstSent(0) = 0 /\ enc[h] # "idle"
    BY <1>2, <2>1, AtSent, ManifestParts DEF Sends, Phases
  <2>3. DecAt(h) = <<0, 1>> /\ DecAt(h)' = At(0, 2)
    BY <2>1, <2>2 DEF DecAt, At
  <2>4. DecAt(h)' = After(sent[h], DecAt(h))
    BY <2>3 DEF After, Last
  <2>5. Framed(h)'
    BY <1>1, <2>1, <2>4, Received
  <2>6. Phases(h)'
    BY <1>1, <1>2, <2>1, <2>2 DEF Phases
  <2> QED BY <1>1, <2>1, <2>5, <2>6, CopiedSame DEF ConnInv
<1>4. CASE DecNames(h)
  <2>1. /\ dec[h] = "names" /\ dec'[h] = "next" /\ chan[h] # <<>> /\ Get(h)
        /\ di'[h] = di[h] /\ di[h] = 1 /\ disk'[h] = disk[h] /\ enc[h] # "idle"
    BY <1>2, <1>4 DEF TypeOK, DecNames, Ready, Phases
  <2>2. DecAt(h) = <<0, 2>> /\ DecAt(h)' = At(1, 1)
    BY <2>1 DEF DecAt, At
  <2>3. DecAt(h)' = After(sent[h], DecAt(h))
    BY <2>2 DEF After, Last
  <2>4. Framed(h)'
    BY <1>1, <2>1, <2>3, Received
  <2>5. Phases(h)'
    BY <1>1, <1>2, <2>1 DEF Phases, Body
  <2> QED BY <1>1, <2>1, <2>4, <2>5, CopiedSame DEF ConnInv
<1>5. CASE DecSkip(h)
  <2>1. /\ dec[h] = "next" /\ dec'[h] = "next" /\ chan'[h] = chan[h]
        /\ di[h] <= Len(Manifest) /\ di'[h] = di[h] + 1 /\ disk' = disk
        /\ ~ Wanted(h) /\ enc[h] # "idle"
    BY <1>2, <1>5 DEF TypeOK, DecSkip, Phases
  <2>2. ~ Listed(di[h]) /\ di[h] \in 1..Len(Manifest) /\ ~ Sends(di[h])
    BY <2>1, AtEntry DEF Sends
  <2>3. DecAt(h)' = DecAt(h)
    BY <2>1, <2>2, AtSkipped, ManifestParts DEF DecAt, At
  <2>4. Framed(h)'
    BY <1>1, <2>1, <2>3, Unsent
  <2>5. Phases(h)'
    <3>1. \A i \in 1..(di'[h] - 1) : i \in 1..(di[h] - 1) \/ i = di[h]
      BY <2>1, <2>2
    <3> QED BY <1>1, <1>2, <2>1, <2>2, <3>1 DEF Phases, Body
  <2>6. Copied(h)'
    BY <1>1, <2>1, <2>2, CopiedOneMore
  <2> QED BY <1>1, <2>4, <2>5, <2>6 DEF ConnInv
<1>6. CASE DecMake(h)
  <2>1. /\ dec[h] = "next" /\ dec'[h] = "next" /\ chan'[h] = chan[h]
        /\ di[h] \in 1..Len(Manifest) /\ di'[h] = di[h] + 1
        /\ Listed(di[h]) /\ ~ Sends(di[h]) /\ enc[h] # "idle"
    BY <1>2, <1>6, Making DEF TypeOK, Phases
  <2>2. PICK v \in Stored :
          /\ Store(h, Entry(h), v)
          /\ \A b : Made(v, b, Old[h][Entry(h)], Manifest[di[h]].ftype)
    BY <1>6, Making
  <2>8. Entry(h) \in Name
    BY <1>2, <2>1, ManifestParts DEF Entry
  <2>3. /\ disk'[h][Entry(h)] = v
        /\ \A m \in Name \ {Entry(h)} : disk'[h][m] = disk[h][m]
    BY <1>2, <2>2, <2>8, Write
  <2>4. DecAt(h)' = DecAt(h)
    BY <2>1, AtSkipped, ManifestParts DEF DecAt, At
  <2>5. Framed(h)'
    BY <1>1, <2>1, <2>4, Unsent
  <2>6. Phases(h)'
    BY <1>1, <1>2, <2>1 DEF Phases, Body
  <2>7. Copied(h)'
    BY <1>1, <2>1, <2>2, <2>3, CopiedOneMore
  <2> QED BY <1>1, <2>5, <2>6, <2>7 DEF ConnInv
<1>7. CASE DecOpen(h)
  <2>1. /\ dec[h] = "next" /\ chan'[h] = chan[h] /\ di'[h] = di[h]
        /\ di[h] \in 1..Len(Manifest) /\ di[h] \in DOMAIN Manifest
        /\ Listed(di[h]) /\ Sends(di[h])
        /\ dec'[h] \in {"failed", "chunks"} /\ enc[h] # "idle"
    BY <1>2, <1>7, Opening DEF TypeOK, Phases
  <2>2. CASE dec'[h] = "failed"
    <3>1. disk'[h] = disk[h]
      BY <1>7, <2>1, <2>2, Opening DEF TypeOK
    <3>2. Framed(h)'
      BY <1>1, <2>1, <2>2, Unsent
    <3>3. Phases(h)'
      BY <1>1, <1>2, <2>1, <2>2 DEF Phases
    <3> QED BY <1>1, <2>1, <2>2, <3>1, <3>2, <3>3, CopiedSame DEF ConnInv
  <2>3. CASE dec'[h] = "chunks"
    <3>1. pos'[h] = 0 /\ \E v \in Stored :
            /\ Store(h, Entry(h), v)
            /\ \A b : Laid(v, b, 0, Old[h][Entry(h)])
      BY <1>7, <2>1, <2>3, Opening DEF TypeOK
    <3>2. PICK v \in Stored :
            /\ Store(h, Entry(h), v)
            /\ \A b : Laid(v, b, 0, Old[h][Entry(h)])
      BY <3>1
    <3>9. Entry(h) \in Name
      BY <2>1, ManifestParts DEF Entry
    <3>3. /\ disk'[h][Entry(h)] = v
          /\ \A m \in Name \ {Entry(h)} : disk'[h][m] = disk[h][m]
      BY <1>2, <3>2, <3>9, Write
    <3>4. FirstSent(di[h]) = di[h]
      BY <1>2, <2>1, AtSent
    <3>5. DecAt(h)' = DecAt(h)
      BY <2>1, <2>3, <3>1, <3>4 DEF DecAt, At
    <3>6. Framed(h)'
      BY <1>1, <2>1, <2>3, <3>5, Unsent
    <3>7. Phases(h)'
      <4>1. pos'[h] <= Len(Body(sent[h], di[h]))
        <5>1. Body(sent[h], di[h]) \in Seq(Chunk)
          BY <1>2, <2>1, SentFilled
        <5> QED BY <3>1, <5>1
      <4> QED BY <1>1, <1>2, <2>1, <2>3, <4>1 DEF Phases, Body
    <3>8. Copied(h)'
      BY <1>1, <2>1, <2>3, <3>1, <3>2, <3>3, CopiedSoFar
    <3> QED BY <1>1, <3>6, <3>7, <3>8 DEF ConnInv
  <2> QED BY <2>1, <2>2, <2>3
<1>8. CASE DecChunk(h)
  <2>1. /\ dec[h] = "chunks" /\ dec'[h] = "chunks" /\ di'[h] = di[h]
        /\ pos'[h] = pos[h] + 1 /\ pos[h] \in Nat /\ chan[h] # <<>> /\ Get(h)
        /\ di[h] \in DOMAIN Manifest /\ Sends(di[h]) /\ Listed(di[h])
        /\ DecAt(h) = <<di[h], pos[h] + 1>>
        /\ pos[h] + 1 < Last(sent[h], di[h]) /\ enc[h] # "idle"
        /\ pos[h] + 1 <= Len(Body(sent[h], di[h]))
    BY <1>2, <1>8, Writing DEF TypeOK, Phases
  <2>2. PICK v \in Seq(Chunk) :
          /\ Store(h, Entry(h), v)
          /\ Laid(v, Body(sent[h], di[h]), pos[h] + 1, Old[h][Entry(h)])
    BY <1>8, Writing
  <2>8. Entry(h) \in Name /\ v \in Stored
    BY <1>2, <2>1, ManifestParts DEF Entry, Stored
  <2>3. /\ disk'[h][Entry(h)] = v
        /\ \A m \in Name \ {Entry(h)} : disk'[h][m] = disk[h][m]
    BY <1>2, <2>2, <2>8, Write
  <2>4. DecAt(h)' = After(sent[h], DecAt(h))
    BY <2>1 DEF DecAt, After, At
  <2>5. Framed(h)'
    BY <1>1, <2>1, <2>4, Received
  <2>6. Phases(h)'
    BY <1>1, <1>2, <2>1 DEF Phases, Body
  <2>7. Copied(h)'
    BY <1>1, <1>2, <2>1, <2>2, <2>3, CopiedSoFar
  <2> QED BY <1>1, <2>5, <2>6, <2>7 DEF ConnInv
<1>9. CASE DecEnd(h)
  <2>1. /\ dec[h] = "chunks" /\ dec'[h] = "next" /\ disk'[h] = disk[h]
        /\ di'[h] = di[h] + 1 /\ chan[h] # <<>> /\ Get(h)
        /\ di[h] \in 1..Len(Manifest) /\ Listed(di[h]) /\ Manifest[di[h]].ftype = "file"
        /\ DecAt(h) = <<di[h], pos[h] + 1>>
        /\ pos[h] + 1 = Last(sent[h], di[h])
        /\ pos[h] = Len(Body(sent[h], di[h])) /\ di[h] < ei[h] /\ enc[h] # "idle"
    BY <1>2, <1>9, Ending DEF TypeOK, Phases
  <2>2. Made(disk'[h][Entry(h)], Body(sent[h], di[h]), Old[h][Entry(h)], "file")
    BY <2>1 DEF ConnInv, Copied, Made
  <2>3. DecAt(h)' = After(sent[h], DecAt(h))
    BY <2>1 DEF DecAt, After
  <2>4. Framed(h)'
    BY <1>1, <2>1, <2>3, Received
  <2>5. Phases(h)'
    BY <1>1, <1>2, <2>1 DEF Phases, Body
  <2>6. Copied(h)'
    BY <1>1, <2>1, <2>2, CopiedOneMore
  <2> QED BY <1>1, <2>4, <2>5, <2>6 DEF ConnInv
<1>10. CASE DecDone(h)
  <2>1. /\ dec[h] = "next" /\ dec'[h] = "done" /\ di'[h] = di[h] /\ chan'[h] = chan[h]
        /\ di[h] = Len(Manifest) + 1 /\ disk'[h] = disk[h] /\ enc[h] # "idle"
    BY <1>2, <1>10 DEF TypeOK, DecDone, Phases
  <2>2. DecAt(h)' = DecAt(h)
    BY <2>1 DEF DecAt
  <2>3. Framed(h)'
    BY <1>1, <2>1, <2>2, Unsent
  <2>4. Phases(h)'
    BY <1>1, <1>2, <2>1 DEF Phases, Body
  <2> QED BY <1>1, <2>1, <2>3, <2>4, CopiedSame DEF ConnInv
<1>11. CASE DecFails(h)
  <2>1. /\ dec'[h] = "failed" /\ di'[h] = di[h] /\ chan'[h] = chan[h]
        /\ disk'[h] = disk[h] /\ enc[h] = "gone"
    BY <1>11 DEF TypeOK, DecFails, FailsAt
  <2>2. Framed(h)'
    BY <1>1, <2>1, Unsent
  <2>3. Phases(h)'
    BY <1>1, <1>2, <2>1 DEF Phases, Body
  <2> QED BY <1>1, <2>1, <2>2, <2>3, CopiedSame DEF ConnInv
<1> QED BY <1>3, <1>4, <1>5, <1>6, <1>7, <1>8, <1>9, <1>10, <1>11 DEF DecStep

-----------------------------------------------------------------------------
(* The invariant holds.                                                    *)

LEMMA InitInv == Init => IInv
<1> SUFFICES ASSUME Init PROVE IInv
  OBVIOUS
<1>1. Len(Manifest) \in Nat /\ DOMAIN Manifest = 1..Len(Manifest)
  BY ManifestParts
<1>2. \A h \in Node : disk[h] \in [Name -> Stored]
  <2> TAKE h \in Node
  <2>1. CASE h = 0
    BY <2>1, ManifestAssumption DEF Init
  <2>2. CASE h # 0
    <3>1. h \in Conn
      BY <2>2, HopsAssumption DEF Node, Conn
    <3>2. disk[h] = Old[h] /\ Old[h] \in [Name -> Seq(Chunk) \cup {Absent, Dir}]
      BY <2>2, <3>1, OldAssumption DEF Init
    <3> QED BY <3>2 DEF Stored
  <2> QED BY <2>1, <2>2
<1>3. disk \in [Node -> [Name -> Stored]]
  BY <1>2 DEF Init
<1>4. TypeOK
  BY <1>1, <1>3 DEF Init, TypeOK
<1>5. Follows /\ MasterHas /\ TornFiles
  BY ConnParts DEF Init, Follows, MasterHas, TornFiles
<1>6. ASSUME NEW h \in Conn PROVE ConnInv(h)
  <2>1. Phases(h)
    BY <1>6 DEF Init, Phases
  <2>2. Copied(h)
    BY <1>6, ConnParts DEF Init, Copied
  <2>3. Framed(h)
    <3> DEFINE p == [j \in 1..1 |-> At(0, 1)]
    <3>1. At(0, 1) \in Nat \X Nat
      BY <1>1, AtType
    <3>2. chan[h] = <<>> /\ DecAt(h) = At(0, 1) /\ EncAt(h) = At(0, 1)
      BY <1>6 DEF Init, DecAt, EncAt
    <3>3. Len(<<>>) = 0 /\ p \in [1..(0 + 1) -> Nat \X Nat] /\ p[1] = At(0, 1)
      BY <3>1
    <3> HIDE DEF p
    <3>4. Stretch(sent[h], ei[h], <<>>, p)
      BY <3>3 DEF Stretch
    <3> QED BY <3>2, <3>3, <3>4 DEF Framed
  <2>4. Fresh(h)
    BY <1>6, ManifestParts DEF Init, Fresh, Body
  <2>5. Faithful(h)
    BY <1>1, <1>6 DEF Init, Faithful
  <2> QED BY <2>1, <2>2, <2>3, <2>4, <2>5 DEF ConnInv
<1> QED BY <1>4, <1>5, <1>6 DEF IInv

LEMMA CutStep ==
  ASSUME IInv, NEW h \in Conn, Cut(h)
  PROVE  TypeOK' /\ Only(h) /\ UNCHANGED <<disk, torn, decVars>> /\ ConnInv(h)'
<1>1. PICK k \in 0..Len(chan[h]) : chan' = [chan EXCEPT ![h] = SubSeq(@, 1, k)]
  BY DEF Cut
<1>2. /\ enc' = [enc EXCEPT ![h] = "gone"] /\ enc[h] \notin {"idle", "gone"}
      /\ UNCHANGED <<disk, ei, fd, sent, torn, decVars>>
  BY DEF Cut
<1>3. PICK p : /\ Stretch(sent[h], ei[h], chan[h], p)
               /\ dec[h] # "failed" => p[1] = DecAt(h)
  BY DEF IInv, ConnInv, Framed
<1>4. /\ SubSeq(chan[h], 1, k) \in Seq(Msg)
      /\ \E r : Stretch(sent[h], ei[h], SubSeq(chan[h], 1, k), r) /\ r[1] = p[1]
  <2>1. chan[h] \in Seq(Msg)
    BY DEF IInv, TypeOK
  <2> QED BY <1>3, <2>1, Cutoff
<1>5. TypeOK'
  BY <1>1, <1>2, <1>4 DEF IInv, TypeOK, decVars
<1>6. Only(h) /\ UNCHANGED <<disk, torn, decVars>>
  BY <1>1, <1>2 DEF IInv, TypeOK, Only, decVars
<1>7. ei[h] <= ei'[h]
  BY <1>2, ManifestParts DEF IInv, TypeOK
<1>8. /\ Source(h)' = Source(h) /\ dec'[h] = dec[h] /\ di'[h] = di[h]
      /\ pos'[h] = pos[h] /\ DecAt(h)' = DecAt(h) /\ Copied(h)'
  BY <1>2, <1>5, <1>7, Elsewhere
<1>9. enc'[h] = "gone" /\ chan'[h] = SubSeq(chan[h], 1, k)
  BY <1>1, <1>2 DEF IInv, TypeOK
<1>10. Framed(h)'
  BY <1>2, <1>3, <1>4, <1>8, <1>9 DEF Framed
<1>11. Phases(h)' /\ Fresh(h)' /\ Faithful(h)'
  <2>1. Phases(h) /\ Faithful(h)
    BY DEF IInv, ConnInv
  <2>2. Phases(h)'
    BY <1>2, <1>8, <1>9, <2>1 DEF Phases, Body
  <2>3. Fresh(h)'
    BY <1>9 DEF Fresh
  <2>4. Faithful(h)'
    BY <1>2, <1>8, <1>9, <2>1 DEF Faithful, Body
  <2> QED BY <2>2, <2>3, <2>4
<1> QED BY <1>5, <1>6, <1>8, <1>10, <1>11 DEF ConnInv

LEMMA VanishStep ==
  ASSUME IInv, NEW n \in Name, Vanish(n)
  PROVE  /\ IInv'
         /\ UNCHANGED <<encVars, chan, decVars>>
         /\ \A g \in Conn : disk'[g] = disk[g] /\ Source(g)' = Source(g)
<1>1. /\ disk' = [disk EXCEPT ![0] = [@ EXCEPT ![n] = Absent]]
      /\ UNCHANGED <<encVars, chan, decVars>>
  BY ConnParts DEF Vanish, IInv, TypeOK
<1>2. 0 \in Node /\ disk \in [Node -> [Name -> Stored]] /\ Absent \in Stored
  BY HopsAssumption DEF Node, IInv, TypeOK, Stored
<1>3. \A k \in Node \ {0} : disk'[k] = disk[k]
  BY <1>1, <1>2
<1>4. \A g \in Conn : disk'[g] = disk[g] /\ Source(g)' = Source(g)
  BY <1>3, ConnParts DEF Source
<1>5. MasterHas'
  <2>1. \A m \in Name : disk'[0][m] = IF m = n THEN Absent ELSE disk[0][m]
    BY <1>1, <1>2
  <2>2. torn' = torn
    BY <1>1 DEF encVars
  <2> QED BY <2>1, <2>2 DEF IInv, MasterHas
<1>6. TypeOK'
  <2>1. disk' \in [Node -> [Name -> Stored]]
    BY <1>1, <1>2
  <2> QED BY <1>1, <2>1 DEF IInv, TypeOK, encVars, decVars
<1>7. Follows' /\ TornFiles'
  BY <1>1 DEF IInv, Follows, TornFiles, encVars, decVars
<1>8. \A g \in Conn : ConnInv(g)'
  BY <1>1, <1>4, Frame DEF encVars, decVars
<1> QED BY <1>1, <1>4, <1>5, <1>6, <1>7, <1>8 DEF IInv

(* What is still to be read has not arrived.                               *)
LEMMA NotYet ==
  ASSUME IInv, NEW n \in Name, ToRead(n)
  PROVE  dec[1] # "done" /\ Content[n] \in Seq(Chunk)
<1>1. PICK i \in ei[1]..Len(Manifest) :
        Manifest[i].name = n /\ Listed(i) /\ Manifest[i].ftype = "file"
  BY DEF ToRead
<1>2. 1 \in Conn /\ ei[1] \in Nat \ {0}
  BY ConnParts, ManifestParts DEF IInv, TypeOK
<1>3. i \in DOMAIN Manifest /\ Sends(i) /\ ~ (i < ei[1])
  BY <1>1, <1>2, ManifestParts DEF Sends
<1>4. dec[1] # "done"
  BY <1>2, <1>3, AllClosed
<1>5. Content[n] \in Seq(Chunk)
  BY <1>1, <1>3, ManifestAssumption DEF Is
<1> QED BY <1>4, <1>5

LEMMA ChangeStep ==
  ASSUME IInv, NEW n \in Name, Change(n)
  PROVE  /\ IInv' /\ UNCHANGED <<enc, decVars>> /\ dec[1] # "done"
         /\ \A g \in Conn : torn[g] \subseteq torn'[g] /\ (g # 1 => torn'[g] = torn[g])
         /\ \A g \in Conn : disk'[g] = disk[g] /\ Source(g)' = Source(g)
<1>1. PICK v \in Versions :
        /\ disk' = [disk EXCEPT ![0] = [@ EXCEPT ![n] = v]]
        /\ fd' = IF enc[1] = "read" /\ AtName(1) = n THEN [fd EXCEPT ![1] = v] ELSE fd
  BY ConnParts DEF Change, IInv, TypeOK
<1>2. /\ ToRead(n) /\ torn' = [torn EXCEPT ![1] = @ \cup {n}]
      /\ UNCHANGED <<enc, ei, sent, chan, decVars>>
  BY DEF Change
<1>3. v \in Seq(Chunk) /\ v \in Stored
  BY FaultsAssumption DEF Stored
<1>4. 1 \in Conn /\ 0 \in Node /\ disk \in [Node -> [Name -> Stored]] /\ TypeOK
  BY ConnParts DEF IInv, TypeOK
<1>5. \A k \in Node \ {0} : disk'[k] = disk[k]
  BY <1>1, <1>4
<1>6. ASSUME NEW g \in Conn PROVE disk'[g] = disk[g] /\ Source(g)' = Source(g)
  <2>1. g \in Node \ {0} /\ (g # 1 => g - 1 \in Node \ {0})
    BY ConnParts
  <2> QED BY <1>5, <2>1 DEF Source
<1>7. /\ torn' \in [Conn -> SUBSET Name] /\ torn'[1] = torn[1] \cup {n}
      /\ \A g \in Conn \ {1} : torn'[g] = torn[g]
  BY <1>2, <1>4 DEF TypeOK
<1>8. /\ fd' \in [Conn -> Seq(Chunk)]
      /\ \A g \in Conn \ {1} : fd'[g] = fd[g]
      /\ fd'[1] = fd[1] \/ (enc[1] = "read" /\ AtName(1) = n)
  BY <1>1, <1>3, <1>4 DEF TypeOK
<1>9. dec[1] # "done" /\ Content[n] \in Seq(Chunk)
  BY <1>2, NotYet
<1>10. MasterHas'
  <2>1. \A m \in Name : disk'[0][m] = IF m = n THEN v ELSE disk[0][m]
    BY <1>1, <1>4
  <2> QED BY <1>3, <1>7, <2>1 DEF IInv, MasterHas
<1>11. TypeOK'
  <2>1. disk' \in [Node -> [Name -> Stored]]
    BY <1>1, <1>3, <1>4
  <2> QED BY <1>2, <1>7, <1>8, <2>1 DEF IInv, TypeOK, decVars
<1>12. Follows'
  <2> SUFFICES ASSUME NEW g \in Conn, g > 1, enc'[g] # "idle"
               PROVE  dec'[g - 1] = "done" /\ torn'[g - 1] \subseteq torn'[g]
    BY DEF Follows
  <2>1. dec[g - 1] = "done" /\ torn[g - 1] \subseteq torn[g]
    BY <1>2 DEF IInv, Follows
  <2>2. g - 1 # 1 /\ g - 1 \in Conn /\ g # 1
    BY <1>9, <2>1, ConnParts
  <2> QED BY <1>2, <1>7, <2>1, <2>2 DEF decVars
<1>13. TornFiles'
  BY <1>7, <1>9 DEF IInv, TornFiles
<1>14. ASSUME NEW g \in Conn PROVE ConnInv(g)'
  <2>1. CASE g # 1
    BY <1>2, <1>6, <1>7, <1>8, <2>1, Frame DEF decVars
  <2>2. CASE g = 1
    <3>1. ConnInv(1)
      BY <1>4 DEF IInv
    <3>2. /\ enc'[1] = enc[1] /\ ei'[1] = ei[1] /\ sent'[1] = sent[1] /\ chan'[1] = chan[1]
          /\ dec'[1] = dec[1] /\ di'[1] = di[1] /\ pos'[1] = pos[1] /\ disk'[1] = disk[1]
      BY <1>2, <1>4, <1>6 DEF decVars
    <3>3. Phases(1)'
      BY <3>1, <3>2 DEF ConnInv, Phases, Body
    <3>4. Framed(1)'
      <4>1. DecAt(1)' = DecAt(1) /\ EncAt(1)' = EncAt(1)
        BY <3>2 DEF DecAt, EncAt, Off, AtName
      <4> QED BY <3>1, <3>2, <4>1 DEF ConnInv, Framed
    <3>5. Copied(1)'
      BY <3>1, <3>2 DEF ConnInv, Copied, Entry, Body
    <3>6. Fresh(1)'
      BY <3>1, <3>2 DEF ConnInv, Fresh, Begun, Body
    <3>7. Faithful(1)'
      <4>1. ASSUME NEW i \in DOMAIN Manifest, Sends(i), Manifest[i].name \notin torn'[1]
            PROVE  /\ i < ei[1] => Body(sent[1], i) = Body(Source(1), i)
                   /\ i = ei[1] /\ enc[1] = "read" =>
                        /\ fd'[1] = Body(Source(1), i)
                        /\ Len(Body(sent[1], i)) <= Len(fd'[1])
                        /\ \A k \in 1..Len(Body(sent[1], i)) :
                             Body(sent[1], i)[k] = fd'[1][k]
        <5>1. Manifest[i].name \notin torn[1] /\ Manifest[i].name # n
          BY <1>7, <4>1
        <5>2. i = ei[1] => fd'[1] = fd[1]
          BY <1>8, <5>1 DEF AtName
        <5> QED BY <3>1, <4>1, <5>1, <5>2 DEF ConnInv, Faithful
      <4>2. Source(1)' = Source(1)
        BY <1>4, <1>6
      <4> QED BY <3>2, <4>1, <4>2 DEF Faithful, Body
    <3> QED BY <2>2, <3>3, <3>4, <3>5, <3>6, <3>7 DEF ConnInv
  <2> QED BY <2>1, <2>2
<1> QED BY <1>2, <1>6, <1>7, <1>9, <1>10, <1>11, <1>12, <1>13, <1>14 DEF IInv

(* What an encoder does to the record of torn files: it takes over what    *)
(* the node above has, and adds to it while it has a file open.            *)
LEMMA EncTorn ==
  ASSUME IInv, NEW h \in Conn, EncStep(h)
  PROVE  /\ \A g \in Conn \ {h} : torn'[g] = torn[g]
         /\ \/ /\ enc[h] = "idle" /\ (h > 1 => dec[h - 1] = "done")
               /\ torn'[h] = IF h = 1 THEN torn[h] ELSE torn[h - 1]
            \/ /\ enc[h] # "idle" /\ torn[h] \subseteq torn'[h]
               /\ torn'[h] = torn[h] \/ enc[h] = "read"
               /\ \A n \in torn'[h] : n \in torn[h] \/ Content[n] \in Seq(Chunk)
<1>1. CASE EncValue(h)
  BY <1>1 DEF IInv, TypeOK, EncValue
<1>2. CASE EncEnd(h)
  <2>1. Content[Manifest[ei[h]].name] \in Seq(Chunk)
    <3>1. ei[h] \in DOMAIN Manifest /\ ei[h] # 0 /\ Sends(ei[h])
      BY <1>2, Closing
    <3>2. Manifest[ei[h]].ftype = "file"
      BY <3>1 DEF Sends
    <3> QED BY <3>1, <3>2, ManifestAssumption DEF Is
  <2>2. /\ enc[h] = "read" /\ torn[h] \subseteq torn'[h]
        /\ torn'[h] \subseteq torn[h] \cup {Manifest[ei[h]].name}
        /\ \A g \in Conn \ {h} : torn'[g] = torn[g]
    BY <1>2, Closing
  <2> QED BY <2>1, <2>2
<1>3. CASE ~ EncValue(h) /\ ~ EncEnd(h)
  <2>1. torn' = torn /\ enc[h] # "idle"
    BY <1>3 DEF EncStep, EncNames, EncSkip, EncOpen, OpenExcept, EncChunk, EncDone
  <2> QED BY <2>1
<1> QED BY <1>1, <1>2, <1>3

(* Who begins to send has received.                                        *)
LEMMA Begins ==
  ASSUME IInv, NEW h \in Conn, EncStep(h), NEW g \in Conn, enc'[g] # "idle"
  PROVE  \/ enc[g] # "idle" /\ torn[g] \subseteq torn'[g]
         \/ g = 1
         \/ g > 1 /\ dec[g - 1] = "done" /\ torn'[g] = torn[g - 1]
<1>1. CASE g # h
  BY <1>1, EncLocal, EncTorn DEF Only
<1>2. CASE g = h
  BY <1>2, EncTorn, ConnParts
<1> QED BY <1>1, <1>2

(* What has arrived is not torn any more.                                  *)
LEMMA TornStays ==
  ASSUME IInv, NEW h \in Conn, EncStep(h), NEW g \in Conn, dec[g] = "done"
  PROVE  torn'[g] = torn[g]
<1>1. CASE g # h
  BY <1>1, EncTorn
<1>2. CASE g = h
  BY <1>2, EncTorn, AllClosed
<1> QED BY <1>1, <1>2

(* Who has received does not forget it.                                    *)
LEMMA DoneStays ==
  ASSUME IInv, NEW h \in Conn, DecStep(h), NEW g \in Conn, dec[g] = "done"
  PROVE  g # h /\ dec'[g] = "done" /\ disk'[g] = disk[g]
<1>1. g # h
  BY DEF DecStep, DecValue, DecNames, DecSkip, DecMake, DecOpen, DecChunk, DecEnd,
         DecDone, DecFails, FailsAt
<1> QED BY <1>1, DecLocal, ConnParts DEF Only

LEMMA EncGlobal ==
  ASSUME IInv, NEW h \in Conn, EncStep(h)
  PROVE  Follows' /\ MasterHas' /\ TornFiles'
<1>1. disk' = disk /\ dec' = dec
  BY EncLocal DEF decVars
<1>2. Follows'
  <2> SUFFICES ASSUME NEW g \in Conn, g > 1, enc'[g] # "idle"
               PROVE  dec'[g - 1] = "done" /\ torn'[g - 1] \subseteq torn'[g]
    BY DEF Follows
  <2>1. g - 1 \in Conn /\ g # 1
    BY ConnParts
  <2>2. CASE enc[g] # "idle" /\ torn[g] \subseteq torn'[g]
    <3>1. dec[g - 1] = "done" /\ torn[g - 1] \subseteq torn[g]
      BY <2>2 DEF IInv, Follows
    <3>2. torn'[g - 1] = torn[g - 1]
      BY <2>1, <3>1, TornStays
    <3> QED BY <1>1, <2>2, <3>1, <3>2
  <2>3. CASE dec[g - 1] = "done" /\ torn'[g] = torn[g - 1]
    <3>1. torn'[g - 1] = torn[g - 1]
      BY <2>1, <2>3, TornStays
    <3> QED BY <1>1, <2>3, <3>1
  <2> QED BY <2>1, <2>2, <2>3, Begins
<1>3. TornFiles'
  <2> SUFFICES ASSUME NEW g \in Conn, NEW n \in torn'[g] PROVE Content[n] \in Seq(Chunk)
    BY DEF TornFiles
  <2>1. (\E k \in Conn : n \in torn[k]) \/ Content[n] \in Seq(Chunk)
    BY EncTorn, ConnParts
  <2> QED BY <2>1 DEF IInv, TornFiles
<1>4. MasterHas'
  <2>1. 1 \in Conn
    BY ConnParts
  <2>2. torn[1] \subseteq torn'[1]
    BY <2>1, EncTorn
  <2> QED BY <1>1, <1>3, <2>1, <2>2 DEF IInv, MasterHas, TornFiles
<1> QED BY <1>2, <1>3, <1>4

LEMMA NextInv == IInv /\ [Next]_vars => IInv'
<1> SUFFICES ASSUME IInv, [Next]_vars PROVE IInv'
  OBVIOUS
<1>1. ASSUME NEW h \in Conn, EncStep(h) PROVE IInv'
  <2>1. Only(h) /\ TypeOK' /\ ConnInv(h)'
    BY <1>1, EncLocal, EncTypes, EncConn
  <2>2. \A g \in Conn : ConnInv(g)'
    BY <2>1, Others
  <2> QED BY <1>1, <2>1, <2>2, EncGlobal DEF IInv
<1>2. ASSUME NEW h \in Conn, DecStep(h) PROVE IInv'
  <2>1. Only(h) /\ UNCHANGED encVars /\ TypeOK' /\ ConnInv(h)'
    BY <1>2, DecLocal, DecTypes, DecConn
  <2>2. \A g \in Conn : ConnInv(g)'
    BY <2>1, Others
  <2>3. MasterHas' /\ TornFiles'
    <3>1. 0 \in Node \ {h}
      BY ConnParts
    <3> QED BY <2>1, <3>1 DEF IInv, MasterHas, TornFiles, Only, encVars
  <2>4. Follows'
    BY <1>2, <2>1, DoneStays, ConnParts DEF IInv, Follows, encVars
  <2> QED BY <2>1, <2>2, <2>3, <2>4 DEF IInv
<1>3. ASSUME NEW h \in Conn, Cut(h) PROVE IInv'
  <2>1. TypeOK' /\ Only(h) /\ UNCHANGED <<disk, torn, decVars>> /\ ConnInv(h)'
    BY <1>3, CutStep
  <2>2. \A g \in Conn : ConnInv(g)'
    BY <2>1, Others
  <2>3. MasterHas' /\ TornFiles'
    BY <2>1 DEF IInv, MasterHas, TornFiles
  <2>4. Follows'
    BY <1>3, <2>1 DEF IInv, TypeOK, Follows, decVars, Cut
  <2> QED BY <2>1, <2>2, <2>3, <2>4 DEF IInv
<1>4. ASSUME NEW n \in Name, Vanish(n) PROVE IInv'
  BY <1>4, VanishStep
<1>5. ASSUME NEW n \in Name, Change(n) PROVE IInv'
  BY <1>5, ChangeStep
<1>6. CASE UNCHANGED vars
  <2>1. \A g \in Conn : ConnInv(g)'
    BY <1>6, Frame DEF vars, encVars, decVars, Source
  <2>2. TypeOK' /\ Follows' /\ MasterHas' /\ TornFiles'
    BY <1>6 DEF IInv, TypeOK, Follows, MasterHas, TornFiles, vars, encVars, decVars
  <2> QED BY <2>1, <2>2 DEF IInv
<1> QED BY <1>1, <1>2, <1>3, <1>4, <1>5, <1>6 DEF Next

THEOREM Invariance == Spec => []IInv
BY InitInv, NextInv, PTL DEF Spec

(* Every variable keeps its type.  In particular a decoder never lays a    *)
(* chunk over something that is not a regular file.                        *)
THEOREM TypeCorrect == Spec => []TypeOK
<1>1. IInv => TypeOK
  BY DEF IInv
<1> QED BY <1>1, Invariance, PTL

(* When both ends of a connection are done nothing is left on it.          *)
THEOREM StaysInStep == Spec => []InStep
<1>1. IInv => InStep
  <2> SUFFICES ASSUME IInv, NEW h \in Conn, enc[h] = "done", dec[h] = "done", chan[h] # <<>>
               PROVE  FALSE
    BY DEF InStep
  <2>1. di[h] = Len(Manifest) + 1
    BY DEF IInv, ConnInv, Phases
  <2>2. DecAt(h) = <<Len(Manifest) + 1, 1>>
    BY <2>1, AtEnd DEF DecAt, At
  <2>3. Sends(Len(Manifest) + 1)
    BY <2>2, NextMsg DEF Place
  <2> QED BY <2>3, SendsParts, ManifestParts
<1> QED BY <1>1, Invariance, PTL

-----------------------------------------------------------------------------
(* Files arrive as they were sent, where nothing is in their way.          *)

LEMMA MadeExact ==
  ASSUME Harmless, NEW h \in Conn, NEW i \in DOMAIN Manifest, NEW f,
         Made(f, Content[Manifest[i].name], Old[h][Manifest[i].name], Manifest[i].ftype)
  PROVE  f = Content[Manifest[i].name]
<1> DEFINE b == Content[Manifest[i].name]
           o == Old[h][Manifest[i].name]
<1>1. Is(b, Manifest[i].ftype) /\ Manifest[i].ftype \in {"file", "dir", "link"}
  BY ManifestAssumption, ManifestParts
<1>2. CASE Manifest[i].ftype = "file"
  <2>1. b \in Seq(Chunk) /\ Laid(f, b, Len(b), o)
    BY <1>1, <1>2 DEF Is, Made
  <2>2. o \in Seq(Chunk) => Len(o) <= Len(b)
    BY <1>2 DEF Harmless
  <2>3. f \in Seq(Chunk) /\ Len(f) = Len(b) /\ \A j \in 1..Len(b) : f[j] = b[j]
    <3>1. CASE o \in Seq(Chunk)
      BY <2>1, <2>2, <3>1 DEF Laid
    <3>2. CASE o \notin Seq(Chunk)
      BY <2>1, <3>2 DEF Laid
    <3> QED BY <3>1, <3>2
  <2> QED BY <2>1, <2>3, SeqEqual
<1>3. CASE Manifest[i].ftype = "dir"
  BY <1>1, <1>3, MarkAssumption DEF Harmless, Made, Is
<1>4. CASE Manifest[i].ftype = "link"
  BY <1>1, <1>4, MarkAssumption DEF Harmless, Made, Is
<1> QED BY <1>1, <1>2, <1>3, <1>4

LEMMA DoneExact ==
  ASSUME IInv, Exact, Harmless, NEW h \in Conn, dec[h] = "done",
         NEW i \in DOMAIN Manifest, Manifest[i].name \notin torn[h]
  PROVE  disk[h][Manifest[i].name] = Content[Manifest[i].name]
<1>1. PICK j \in DOMAIN Manifest : Listed(j) /\ Manifest[j].name = Manifest[i].name
  BY FirstListed
<1>2. /\ Copied(h) /\ Faithful(h) /\ di[h] = Len(Manifest) + 1 /\ enc[h] # "idle"
      /\ \A k \in DOMAIN Manifest : Sends(k) => k < ei[h]
  BY AllClosed DEF IInv, ConnInv, Phases
<1>3. j \in 1..(di[h] - 1)
  BY <1>2, ManifestParts
<1>4. Made(disk[h][Manifest[j].name], Body(sent[h], j),
           Old[h][Manifest[j].name], Manifest[j].ftype)
  BY <1>1, <1>2, <1>3 DEF Copied
<1>5. Made(disk[h][Manifest[j].name], Content[Manifest[j].name],
           Old[h][Manifest[j].name], Manifest[j].ftype)
  <2>1. CASE Manifest[j].ftype = "file"
    <3>1. Sends(j)
      BY <1>1, <2>1 DEF Sends
    <3>2. Body(sent[h], j) = Body(Source(h), j)
      BY <1>1, <1>2, <3>1 DEF Faithful
    <3>3. Body(Source(h), j) = Content[Manifest[j].name]
      BY <1>1, <1>2 DEF Exact
    <3> QED BY <1>4, <3>2, <3>3
  <2>2. CASE Manifest[j].ftype # "file"
    BY <1>4, <2>2, ManifestParts DEF Made
  <2> QED BY <2>1, <2>2
<1>6. disk[h][Manifest[j].name] = Content[Manifest[j].name]
  BY <1>5, MadeExact
<1> QED BY <1>1, <1>6

(* Of a torn file it has at least what the sender read.                    *)
LEMMA DoneTorn ==
  ASSUME IInv, NEW h \in Conn, dec[h] = "done",
         NEW i \in DOMAIN Manifest, Manifest[i].name \in torn[h],
         NEW k \in 1..Len(sent[h][Manifest[i].name])
  PROVE  disk[h][Manifest[i].name][k] = sent[h][Manifest[i].name][k]
<1>1. PICK j \in DOMAIN Manifest : Listed(j) /\ Manifest[j].name = Manifest[i].name
  BY FirstListed
<1>2. Copied(h) /\ di[h] = Len(Manifest) + 1
  BY DEF IInv, ConnInv, Phases
<1>3. Manifest[j].ftype = "file"
  <2>1. Is(Content[Manifest[j].name], Manifest[j].ftype)
    BY ManifestAssumption
  <2>2. Content[Manifest[j].name] \in Seq(Chunk)
    BY <1>1 DEF IInv, TornFiles
  <2>3. Is(Content[Manifest[j].name], "file")
    BY <2>2 DEF Is
  <2> QED BY <2>1, <2>3, OneType, ManifestParts
<1> DEFINE f == disk[h][Manifest[j].name]
           b == Body(sent[h], j)
<1>4. j \in 1..(di[h] - 1) /\ b \in Seq(Chunk)
  BY <1>2, ManifestParts, SentFilled DEF IInv
<1>5. Laid(f, b, Len(b), Old[h][Manifest[j].name])
  BY <1>1, <1>2, <1>3, <1>4 DEF Copied, Made
<1> HIDE DEF f, b
<1>6. \A l \in 1..Len(b) : f[l] = b[l]
  BY <1>4, <1>5 DEF Laid
<1> QED BY <1>1, <1>6 DEF f, b, Body

LEMMA NextExact ==
  ASSUME Harmless
  PROVE  IInv /\ Exact /\ [Next]_vars => Exact'
<1> SUFFICES ASSUME IInv, Exact, [Next]_vars PROVE Exact'
  OBVIOUS
<1> SUFFICES ASSUME NEW g \in Conn, enc'[g] # "idle",
                    NEW i \in DOMAIN Manifest, Manifest[i].name \notin torn'[g]
             PROVE  Body(Source(g)', i) = Content[Manifest[i].name]
  BY DEF Exact, Body
<1>1. ASSUME enc[g] # "idle", Source(g)' = Source(g), torn[g] \subseteq torn'[g]
      PROVE  Body(Source(g)', i) = Content[Manifest[i].name]
  BY <1>1 DEF Exact
<1>2. ASSUME NEW h \in Conn, EncStep(h)
      PROVE  Body(Source(g)', i) = Content[Manifest[i].name]
  <2>1. Source(g)' = Source(g)
    BY <1>2, EncLocal DEF Source
  <2>2. CASE enc[g] # "idle" /\ torn[g] \subseteq torn'[g]
    BY <1>1, <2>1, <2>2
  <2>3. CASE g = 1
    BY <2>3 DEF Source, Body
  <2>4. CASE g > 1 /\ dec[g - 1] = "done" /\ torn'[g] = torn[g - 1]
    BY <2>1, <2>4, DoneExact, ConnParts DEF Source, Body
  <2> QED BY <1>2, <2>2, <2>3, <2>4, Begins
<1>3. ASSUME NEW h \in Conn, DecStep(h)
      PROVE  Body(Source(g)', i) = Content[Manifest[i].name]
  <2>1. enc[g] # "idle" /\ torn' = torn
    BY <1>3, DecLocal DEF encVars
  <2>2. Source(g)' = Source(g)
    <3>1. CASE g = 1
      BY <3>1 DEF Source
    <3>2. CASE g # 1
      <4>1. g - 1 \in Conn /\ dec[g - 1] = "done"
        BY <2>1, <3>2, ConnParts DEF IInv, Follows
      <4> QED BY <1>3, <3>2, <4>1, DoneStays DEF Source
    <3> QED BY <3>1, <3>2
  <2> QED BY <1>1, <2>1, <2>2
<1>4. ASSUME NEW h \in Conn, Cut(h)
      PROVE  Body(Source(g)', i) = Content[Manifest[i].name]
  <2>1. Source(g)' = Source(g) /\ enc[g] # "idle" /\ torn' = torn
    BY <1>4 DEF Cut, Source, IInv, TypeOK
  <2> QED BY <1>1, <2>1
<1>5. ASSUME NEW n \in Name, Vanish(n)
      PROVE  Body(Source(g)', i) = Content[Manifest[i].name]
  <2>1. Source(g)' = Source(g) /\ enc[g] # "idle" /\ torn' = torn
    BY <1>5, VanishStep DEF encVars
  <2> QED BY <1>1, <2>1
<1>6. ASSUME NEW n \in Name, Change(n)
      PROVE  Body(Source(g)', i) = Content[Manifest[i].name]
  <2>1. Source(g)' = Source(g) /\ enc[g] # "idle" /\ torn[g] \subseteq torn'[g]
    BY <1>6, ChangeStep
  <2> QED BY <1>1, <2>1
<1>7. CASE UNCHANGED vars
  BY <1>1, <1>7 DEF vars, encVars, Source
<1> QED BY <1>2, <1>3, <1>4, <1>5, <1>6, <1>7 DEF Next

LEMMA ExactInvariance ==
  ASSUME Harmless
  PROVE  Spec => []Exact
<1>1. Init => Exact
  BY DEF Init, Exact
<1>2. IInv /\ Exact /\ [Next]_vars => Exact'
  BY NextExact
<1> QED BY <1>1, <1>2, Invariance, PTL DEF Spec

LEMMA ExactIntact ==
  ASSUME Harmless
  PROVE  IInv /\ Exact => Intact
<1> SUFFICES ASSUME IInv, Exact, NEW h \in Conn, dec[h] = "done", NEW j \in DOMAIN Seen
             PROVE  LET n == Seen[j].name
                    IN  /\ n \notin torn[h] => disk[h][n] = Content[n]
                        /\ n \in torn[h] =>
                             \A k \in 1..Len(sent[h][n]) : disk[h][n][k] = sent[h][n][k]
  BY DEF Intact
<1>1. PICK i \in DOMAIN Manifest : Manifest[i].name = Seen[j].name
  BY ValueAssumption
<1>2. Manifest[i].name \notin torn[h] => disk[h][Manifest[i].name] = Content[Manifest[i].name]
  BY DoneExact
<1>3. Manifest[i].name \in torn[h] =>
        \A k \in 1..Len(sent[h][Manifest[i].name]) :
          disk[h][Manifest[i].name][k] = sent[h][Manifest[i].name][k]
  BY DoneTorn
<1> QED BY <1>1, <1>2, <1>3

(* Where nothing a node had is longer than the file that comes, or of      *)
(* another type, a Decode that succeeds has left every file as the master  *)
(* had it, whatever else was removed, cut or lost meanwhile; but for the   *)
(* files that were written anew before they were read, or which it or a    *)
(* node above got from a sender that could not read them to the end.  Of   *)
(* these it has what the sender read.                                      *)
THEOREM ArriveIntact ==
  ASSUME Harmless
  PROVE  Spec => []Intact
<1>1. IInv /\ Exact => Intact
  BY ExactIntact
<1> QED BY <1>1, Invariance, ExactInvariance, PTL

-----------------------------------------------------------------------------
(* The messages amount to a Transfer.                                      *)

LEMMA TransferInit == Init => Down!Init
<1> SUFFICES ASSUME Init PROVE Down!Init
  OBVIOUS
<1>1. \A h \in Conn : StateOf(h) = "without" /\ TornOf(h) = {}
  BY DEF Init, StateOf, TornOf
<1> QED BY <1>1 DEF Down!Init, Down!Node, Conn

LEMMA StateIs ==
  ASSUME Intact, NEW h \in Conn
  PROVE  StateOf(h) = IF dec[h] = "failed" THEN "failed"
                      ELSE IF dec[h] = "done" THEN "with" ELSE "without"
<1>1. dec[h] = "done" => Whole(h)
  BY DEF Intact, Whole
<1> QED BY <1>1 DEF StateOf

LEMMA StateBecomes ==
  ASSUME Intact', NEW h \in Conn
  PROVE  StateOf(h)' = IF dec'[h] = "failed" THEN "failed"
                       ELSE IF dec'[h] = "done" THEN "with" ELSE "without"
<1>1. dec'[h] = "done" => Whole(h)'
  BY DEF Intact, Whole
<1> QED BY <1>1 DEF StateOf

LEMMA TransferNext ==
  IInv /\ Intact /\ IInv' /\ Intact' /\ [Next]_vars
    => [Down!Next]_<<[h \in Conn |-> StateOf(h)], [h \in Conn |-> TornOf(h)]>>
<1> SUFFICES ASSUME IInv, Intact, IInv', Intact', [Next]_vars
             PROVE  [Down!Next]_<<[h \in Conn |-> StateOf(h)], [h \in Conn |-> TornOf(h)]>>
  OBVIOUS
<1> DEFINE node == [h \in Conn |-> StateOf(h)]
           harm == [h \in Conn |-> TornOf(h)]
<1>1. ASSUME dec' = dec, \A g \in Conn : dec[g] = "done" => torn'[g] = torn[g]
      PROVE  node' = node /\ harm' = harm
  <2>1. \A g \in Conn : StateOf(g)' = StateOf(g)
    BY <1>1, StateIs, StateBecomes
  <2>2. \A g \in Conn : TornOf(g)' = TornOf(g)
    BY <1>1 DEF TornOf
  <2> QED BY <2>1, <2>2
<1>2. ASSUME NEW h \in Conn, EncStep(h) PROVE node' = node /\ harm' = harm
  <2>1. dec' = dec
    BY <1>2, EncLocal DEF decVars
  <2>2. \A g \in Conn : dec[g] = "done" => torn'[g] = torn[g]
    BY <1>2, TornStays
  <2> QED BY <1>1, <2>1, <2>2
<1>3. ASSUME NEW h \in Conn, Cut(h) PROVE node' = node /\ harm' = harm
  BY <1>1, <1>3 DEF Cut, decVars
<1>4. ASSUME NEW n \in Name, Vanish(n) PROVE node' = node /\ harm' = harm
  BY <1>1, <1>4 DEF Vanish, encVars, decVars
<1>5. ASSUME NEW n \in Name, Change(n) PROVE node' = node /\ harm' = harm
  <2>1. dec' = dec /\ \A g \in Conn : dec[g] = "done" => torn'[g] = torn[g]
    BY <1>5, ChangeStep DEF decVars
  <2> QED BY <1>1, <2>1
<1>6. CASE UNCHANGED vars
  BY <1>1, <1>6 DEF vars, encVars, decVars
<1>7. ASSUME NEW h \in Conn, DecStep(h)
      PROVE  (node' = node /\ harm' = harm) \/ Down!Deliver(h) \/ Down!Fail(h)
  <2>1. dec[h] \notin {"done", "failed"}
    BY <1>7 DEF DecStep, DecValue, DecNames, DecSkip, DecMake, DecOpen, DecChunk, DecEnd,
                DecDone, DecFails, FailsAt
  <2>2. /\ \A g \in Conn \ {h} : dec'[g] = dec[g]
        /\ torn' = torn /\ enc' = enc
    BY <1>7, DecLocal DEF Only, encVars
  <2>3. \A g \in Conn \ {h} : StateOf(g)' = StateOf(g) /\ TornOf(g)' = TornOf(g)
    BY <2>2, StateIs, StateBecomes DEF TornOf
  <2>4. StateOf(h) = "without" /\ TornOf(h) = {}
    BY <2>1, StateIs DEF TornOf
  <2>5. CASE dec'[h] = "failed"
    <3>1. StateOf(h)' = "failed" /\ TornOf(h)' = {}
      BY <2>5, StateBecomes DEF TornOf
    <3>2. /\ node' = [node EXCEPT ![h] = "failed"] /\ node[h] = "without"
          /\ harm' = harm
      BY <2>3, <2>4, <3>1
    <3> QED BY <3>2 DEF Down!Fail
  <2>6. CASE dec'[h] = "done"
    <3>1. StateOf(h)' = "with" /\ TornOf(h)' = torn[h]
      BY <2>2, <2>6, StateBecomes DEF TornOf
    <3>2. /\ node' = [node EXCEPT ![h] = "with"] /\ node[h] = "without"
          /\ harm' = [harm EXCEPT ![h] = torn[h]]
      BY <2>3, <2>4, <3>1
    <3>3. h > 1 => node[h - 1] = "with" /\ harm[h - 1] \subseteq torn[h]
      <4> SUFFICES ASSUME h > 1
                   PROVE  node[h - 1] = "with" /\ harm[h - 1] \subseteq torn[h]
        OBVIOUS
      <4>1. h - 1 \in Conn \ {h}
        BY ConnParts
      <4>2. enc[h] # "idle"
        BY <2>2, <2>6 DEF IInv, ConnInv, Phases
      <4>3. dec[h - 1] = "done" /\ torn[h - 1] \subseteq torn[h]
        BY <4>2 DEF IInv, Follows
      <4> QED BY <4>1, <4>3, StateIs DEF TornOf
    <3>4. torn[h] \in SUBSET Name
      BY DEF IInv, TypeOK
    <3> QED BY <3>2, <3>3, <3>4 DEF Down!Deliver
  <2>7. CASE dec'[h] \notin {"done", "failed"}
    <3>1. StateOf(h)' = "without" /\ TornOf(h)' = {}
      BY <2>7, StateBecomes DEF TornOf
    <3> QED BY <2>3, <2>4, <3>1
  <2> QED BY <2>5, <2>6, <2>7
<1>8. \A h \in Conn : Down!Deliver(h) \/ Down!Fail(h) => Down!Next
  BY DEF Down!Next, Down!Node, Conn
<1> QED BY <1>2, <1>3, <1>4, <1>5, <1>6, <1>7, <1>8 DEF Next

(* Under the same condition the nodes see a Transfer: the files come in    *)
(* order down the chain, all of them or an error, as the master has them   *)
(* but for the torn ones; what is torn above is torn below; and nothing    *)
(* that has come is taken away.                                            *)
THEOREM KeepsTheTransfer ==
  ASSUME Harmless
  PROVE  Spec => KeepsTransfer
<1>1. IInv /\ Intact /\ IInv' /\ Intact' /\ [Next]_vars
        => [Down!Next]_<<[h \in Conn |-> StateOf(h)], [h \in Conn |-> TornOf(h)]>>
  BY TransferNext
<1>2. Spec => []IInv /\ []Intact
  BY Invariance, ArriveIntact
<1> QED BY <1>1, <1>2, TransferInit, PTL DEF Spec, KeepsTransfer, Down!Spec
=============================================================================
