----------------------------- MODULE PackProofs -----------------------------
(***************************************************************************)
(* Proofs about Pack and Ldd: on any disk, for any program and any flags,  *)
(* what a packed link leads to is packed as well, only a link that leads   *)
(* back to itself is packed again, a search that ends well has dealt with  *)
(* everything that any library it took imports, and what it found goes     *)
(* along.                                                                  *)
(***************************************************************************)
EXTENDS Pack, SequenceTheorems, FiniteSetTheorems, WellFoundedInduction, TLAPS

-----------------------------------------------------------------------------
(* Sequences whatever their elements are: Range(s) is all the type that is *)
(* known of them.                                                          *)
IsSeq(s) == s \in Seq(Range(s))

LEMMA SeqIsSeq ==
  ASSUME NEW S, NEW s \in Seq(S)
  PROVE  /\ IsSeq(s) /\ Len(s) \in Nat /\ DOMAIN s = 1..Len(s)
         /\ Range(s) = {s[k] : k \in 1..Len(s)}
<1>1. Len(s) \in Nat /\ DOMAIN s = 1..Len(s) /\ s = [k \in 1..Len(s) |-> s[k]]
  OBVIOUS
<1>2. \A k \in 1..Len(s) : s[k] \in Range(s)
  BY <1>1 DEF Range
<1>3. s \in Seq(Range(s))
  BY <1>1, <1>2
<1> QED BY <1>1, <1>3 DEF IsSeq, Range

LEMMA EmptyIsSeq == IsSeq(<<>>) /\ Range(<<>>) = {} /\ Len(<<>>) = 0
BY DEF IsSeq, Range

LEMMA TailIsSeq ==
  ASSUME NEW s, IsSeq(s), s # <<>>
  PROVE  /\ IsSeq(Tail(s)) /\ Head(s) = s[1] /\ Len(s) \in Nat /\ Len(Tail(s)) = Len(s) - 1
         /\ Range(s) = {s[1]} \cup Range(Tail(s))
         /\ \A k \in 1..Len(Tail(s)) : k + 1 \in 1..Len(s) /\ Tail(s)[k] = s[k + 1]
<1> DEFINE n == Len(s)
           m == Len(Tail(s))
           t == Tail(s)
<1>1. s \in Seq(Range(s)) /\ n \in Nat \ {0} /\ Head(s) = s[1]
  BY DEF IsSeq
<1>2. t \in Seq(Range(s)) /\ m = n - 1 /\ \A k \in 1..m : t[k] = s[k + 1]
  BY <1>1
<1>3. IsSeq(t) /\ Range(t) = {t[k] : k \in 1..m} /\ Range(s) = {s[k] : k \in 1..n}
  <2> DEFINE R == Range(s)
  <2>1. s \in Seq(R) /\ t \in Seq(R)
    BY <1>1, <1>2
  <2> HIDE DEF R, t
  <2>2. IsSeq(t) /\ Range(t) = {t[k] : k \in 1..Len(t)}
    BY <2>1, SeqIsSeq
  <2>3. Range(s) = {s[k] : k \in 1..Len(s)}
    BY <2>1, SeqIsSeq
  <2> QED BY <2>2, <2>3 DEF t
<1> HIDE DEF n, m, t
<1>4. \A k \in 1..m : k + 1 \in 1..n
  BY <1>1, <1>2
<1>5. \A k \in 1..n : k = 1 \/ (k - 1 \in 1..m /\ (k - 1) + 1 = k)
  BY <1>1, <1>2
<1>6. 1 \in 1..n
  BY <1>1
<1>7. Range(s) = {s[1]} \cup Range(t)
  <2>1. ASSUME NEW x \in Range(s) PROVE x \in {s[1]} \cup Range(t)
    <3>1. PICK k \in 1..n : x = s[k]
      BY <1>3
    <3>2. CASE k = 1
      BY <3>1, <3>2
    <3>3. CASE k - 1 \in 1..m /\ (k - 1) + 1 = k
      <4>1. t[k - 1] = s[(k - 1) + 1]
        BY <3>3, <1>2
      <4> QED BY <4>1, <3>1, <3>3, <1>3
    <3> QED BY <3>2, <3>3, <1>5
  <2>2. ASSUME NEW x \in Range(t) PROVE x \in Range(s)
    BY <1>2, <1>3, <1>4
  <2>3. s[1] \in Range(s)
    BY <1>3, <1>6
  <2> QED BY <2>1, <2>2, <2>3
<1> QED BY <1>1, <1>2, <1>3, <1>4, <1>7 DEF n, m, t

LEMMA AppendIsSeq ==
  ASSUME NEW s, IsSeq(s), NEW e
  PROVE  /\ IsSeq(Append(s, e)) /\ Range(Append(s, e)) = Range(s) \cup {e}
         /\ Len(s) \in Nat /\ Len(Append(s, e)) = Len(s) + 1
         /\ Append(s, e)[Len(s) + 1] = e
         /\ \A k \in 1..Len(s) : Append(s, e)[k] = s[k]
<1> DEFINE n == Len(s)
           T == Range(s) \cup {e}
           a == Append(s, e)
           m == Len(a)
<1>1. s \in Seq(T) /\ n \in Nat /\ s \in Seq(Range(s))
  <2>1. s \in Seq(Range(s))
    BY DEF IsSeq
  <2>2. Len(s) \in Nat /\ DOMAIN s = 1..Len(s) /\ s = [k \in 1..Len(s) |-> s[k]]
        /\ \A k \in 1..Len(s) : s[k] \in T
    BY <2>1, ElementOfSeq
  <2> QED BY <2>1, <2>2
<1>2. a \in Seq(T) /\ m = n + 1 /\ a[n + 1] = e /\ \A k \in 1..n : a[k] = s[k]
  BY <1>1
<1>3. IsSeq(a) /\ Range(a) = {a[k] : k \in 1..m} /\ Range(s) = {s[k] : k \in 1..n}
  BY <1>1, <1>2, SeqIsSeq
<1> HIDE DEF n, m, a, T
<1>4. \A k \in 1..m : k \in 1..n \/ k = n + 1
  BY <1>1, <1>2
<1>5. n + 1 \in 1..m /\ \A k \in 1..n : k \in 1..m
  BY <1>1, <1>2
<1>6. Range(a) = Range(s) \cup {e}
  BY <1>2, <1>3, <1>4, <1>5
<1> QED BY <1>1, <1>2, <1>3, <1>6 DEF n, m, a

LEMMA ConcatIsSeq ==
  ASSUME NEW s, NEW t, IsSeq(s), IsSeq(t)
  PROVE  /\ IsSeq(s \o t) /\ Range(s \o t) = Range(s) \cup Range(t)
         /\ Len(s) \in Nat /\ Len(t) \in Nat /\ Len(s \o t) = Len(s) + Len(t)
         /\ \A k \in 1..Len(s) : (s \o t)[k] = s[k]
         /\ \A k \in 1..Len(t) : (s \o t)[Len(s) + k] = t[k]
         /\ \A k \in 1..Len(s \o t) :
              \/ k \in 1..Len(s) /\ (s \o t)[k] = s[k]
              \/ k - Len(s) \in 1..Len(t) /\ (s \o t)[k] = t[k - Len(s)]
<1> DEFINE n == Len(s)
           m == Len(t)
           T == Range(s) \cup Range(t)
           c == s \o t
           l == Len(c)
<1>1. s \in Seq(T) /\ t \in Seq(T) /\ n \in Nat /\ m \in Nat
      /\ s \in Seq(Range(s)) /\ t \in Seq(Range(t))
  <2>1. s \in Seq(Range(s)) /\ t \in Seq(Range(t))
    BY DEF IsSeq
  <2>2. Len(s) \in Nat /\ DOMAIN s = 1..Len(s) /\ s = [k \in 1..Len(s) |-> s[k]]
        /\ \A k \in 1..Len(s) : s[k] \in T
    BY <2>1, ElementOfSeq
  <2>3. Len(t) \in Nat /\ DOMAIN t = 1..Len(t) /\ t = [k \in 1..Len(t) |-> t[k]]
        /\ \A k \in 1..Len(t) : t[k] \in T
    BY <2>1, ElementOfSeq
  <2>4. s \in Seq(T)
    BY <2>2
  <2>5. t \in Seq(T)
    BY <2>3
  <2> QED BY <2>1, <2>2, <2>3, <2>4, <2>5
<1>2. c \in Seq(T) /\ l = n + m
      /\ \A k \in 1..l : c[k] = IF k <= n THEN s[k] ELSE t[k - n]
  BY <1>1, ConcatProperties
<1>3. /\ IsSeq(c) /\ Range(c) = {c[k] : k \in 1..l}
      /\ Range(s) = {s[k] : k \in 1..n} /\ Range(t) = {t[k] : k \in 1..m}
  BY <1>1, <1>2, SeqIsSeq
<1> HIDE DEF n, m, c, l, T
<1>4. \A k \in 1..l : (k \in 1..n /\ k <= n) \/ (k - n \in 1..m /\ ~ (k <= n))
  BY <1>1, <1>2
<1>5. /\ \A k \in 1..n : k \in 1..l /\ k <= n
      /\ \A k \in 1..m : n + k \in 1..l /\ ~ (n + k <= n) /\ (n + k) - n = k
  BY <1>1, <1>2
<1>6. \A k \in 1..n : c[k] = s[k]
  BY <1>2, <1>5
<1>7. \A k \in 1..m : c[n + k] = t[k]
  BY <1>2, <1>5
<1>8. \A k \in 1..l : \/ k \in 1..n /\ c[k] = s[k]
                      \/ k - n \in 1..m /\ c[k] = t[k - n]
  BY <1>2, <1>4
<1>9. Range(c) = Range(s) \cup Range(t)
  <2>1. ASSUME NEW x \in Range(c) PROVE x \in Range(s) \cup Range(t)
    BY <1>3, <1>8
  <2>2. ASSUME NEW x \in Range(s) PROVE x \in Range(c)
    BY <1>3, <1>5, <1>6
  <2>3. ASSUME NEW x \in Range(t) PROVE x \in Range(c)
    BY <1>3, <1>5, <1>7
  <2> QED BY <2>1, <2>2, <2>3
<1> QED BY <1>1, <1>2, <1>3, <1>6, <1>7, <1>8, <1>9 DEF n, m, c, l
-----------------------------------------------------------------------------
LEMMA NotLess ==
  ASSUME NEW i \in Nat, NEW j \in Nat, <<j, i>> \notin OpToRel(<, Nat)
  PROVE  i <= j
BY DEF OpToRel

(* A function on 0..n in which every value comes from the one before it    *)
(* exists: take the least n for which there were none.                     *)
Iterates(g, n, e, step) ==
  g = [i \in 0..n |-> IF i = 0 THEN e ELSE step[i][g[i - 1]]]

LEMMA IterationExists ==
  ASSUME NEW n \in Nat, NEW e, NEW step
  PROVE  \E g : Iterates(g, n, e, step)
<1> DEFINE Has(k, g) == Iterates(g, k, e, step)
           T == {k \in Nat : ~ \E g : Has(k, g)}
<1>1. SUFFICES ASSUME n \in T PROVE FALSE
  OBVIOUS
<1>2. PICK k \in T : \A l \in T : <<l, k>> \notin OpToRel(<, Nat)
  BY <1>1, NatLessThanWellFounded, WFMin
<1>3. \A l \in T : k <= l
  BY <1>2, NotLess
<1>4. k \in Nat /\ k # 0
  <2>1. Has(0, [i \in 0..0 |-> e])
    BY DEF Iterates
  <2> QED BY <2>1
<1>5. k - 1 \in Nat /\ ~ (k <= k - 1)
  BY <1>4
<1>6. PICK g : Has(k - 1, g)
  BY <1>3, <1>5
<1> DEFINE h == [i \in 0..k |-> IF i = 0 THEN e ELSE IF i = k THEN step[k][g[k - 1]] ELSE g[i]]
<1>7. ASSUME NEW i \in 0..k, i # 0
      PROVE  h[i] = step[i][h[i - 1]]
  <2>1. i - 1 \in 0..(k - 1) /\ i - 1 \in 0..k /\ i - 1 # k /\ i \in Nat
    BY <1>4, <1>7
  <2>2. h[i - 1] = g[i - 1]
    <3>1. CASE i - 1 = 0
      <4>1. g[0] = e
        BY <1>5, <1>6 DEF Iterates
      <4> QED BY <3>1, <4>1, <2>1
    <3>2. CASE i - 1 # 0
      BY <3>2, <2>1
    <3> QED BY <3>1, <3>2
  <2>3. CASE i = k
    BY <2>2, <2>3, <1>7
  <2>4. CASE i # k
    <3>1. i \in 0..(k - 1)
      BY <2>4, <1>4
    <3>2. g[i] = step[i][g[i - 1]]
      BY <3>1, <1>6, <1>7 DEF Iterates
    <3> QED BY <3>2, <2>2, <2>4, <1>7
  <2> QED BY <2>3, <2>4
<1>8. h[0] = e
  BY <1>4
<1>9. h = [i \in 0..k |-> h[i]]
  OBVIOUS
<1>10. Has(k, h)
  <2> HIDE DEF h
  <2> QED BY <1>7, <1>8, <1>9 DEF Iterates
<1> QED BY <1>10, <1>2

(* What holds of the value at j, and passes from each value to the next,   *)
(* holds of the value at n.                                                *)
LEMMA Carried ==
  ASSUME NEW j \in Nat, NEW n \in Nat, j <= n, NEW f, NEW S, f[j] \in S,
         \A i \in Nat : j < i /\ i <= n /\ f[i - 1] \in S => f[i] \in S
  PROVE  f[n] \in S
<1> DEFINE T == {i \in Nat : j <= i /\ i <= n /\ f[i] \notin S}
<1>1. SUFFICES ASSUME n \in T PROVE FALSE
  OBVIOUS
<1>2. PICK i \in T : \A l \in T : <<l, i>> \notin OpToRel(<, Nat)
  BY <1>1, NatLessThanWellFounded, WFMin
<1>3. \A l \in T : i <= l
  BY <1>2, NotLess
<1>4. i \in Nat /\ j <= i /\ i <= n /\ f[i] \notin S /\ i # j
  OBVIOUS
<1>5. i - 1 \in Nat /\ j <= i - 1 /\ i - 1 <= n /\ ~ (i <= i - 1)
  BY <1>4
<1>6. f[i - 1] \in S
  BY <1>3, <1>5
<1>7. j < i
  BY <1>4
<1> QED BY <1>4, <1>6, <1>7

LEMMA IteratesWithin ==
  ASSUME NEW n \in Nat, NEW S, NEW e \in S, NEW step, \A i \in 1..n : step[i] \in [S -> S]
  PROVE  \E g \in [0..n -> S] : Iterates(g, n, e, step)
<1>1. PICK g : Iterates(g, n, e, step)
  BY IterationExists
<1>2. g[0] = e /\ \A i \in 1..n : g[i] = step[i][g[i - 1]]
  BY <1>1 DEF Iterates
<1>3. ASSUME NEW k \in 0..n PROVE g[k] \in S
  <2>1. ASSUME NEW i \in Nat, 0 < i, i <= k, g[i - 1] \in S PROVE g[i] \in S
    <3>1. i \in 1..n
      BY <2>1
    <3>2. g[i] = step[i][g[i - 1]] /\ step[i] \in [S -> S]
      BY <3>1, <1>2
    <3> QED BY <2>1, <3>2
  <2> QED BY <1>2, <2>1, Carried
<1>4. g \in [0..n -> S]
  BY <1>1, <1>3 DEF Iterates
<1> QED BY <1>1, <1>4
-----------------------------------------------------------------------------
(* Paths stay paths.                                                       *)
LEMMA OneLess ==
  ASSUME NEW A, NEW q \in Seq(A)
  PROVE  Front(q) \in Seq(A)
<1>1. Len(q) \in Nat
  OBVIOUS
<1>2. \A i \in 1..(Len(q) - 1) : q[i] \in A
  BY <1>1
<1>3. SubSeq(q, 1, Len(q) - 1) \in Seq(A)
  BY <1>1, <1>2, SubSeqProperties
<1> QED BY <1>3 DEF Front

LEMMA PathsMade ==
  ASSUME NEW q \in Path
  PROVE  /\ Front(q) \in Path
         /\ \A s \in Name : Append(q, s) \in Path
         /\ \A p \in Path : q \o p \in Path
<1> DEFINE A == Name
<1>1. q \in Seq(A)
  BY DEF Path
<1> HIDE DEF A
<1>2. Front(q) \in Seq(A)
  BY <1>1, OneLess
<1>3. \A s \in A : Append(q, s) \in Seq(A)
  BY <1>1
<1>4. \A p \in Seq(A) : q \o p \in Seq(A)
  BY <1>1
<1> QED BY <1>2, <1>3, <1>4 DEF Path, A

LEMMA JoinedIsPath ==
  ASSUME NEW q \in Path, NEW s \in Name
  PROVE  Joined(q, s) \in Path
BY PathsMade DEF Joined

LEMMA CleanIsPath ==
  ASSUME NEW p \in Path
  PROVE  Clean(p) \in Path
<1> DEFINE n == Len(p)
           step == [i \in 1..n |-> [q \in Path |-> Joined(q, p[i])]]
           Has(f) == f = [i \in 0..n |-> IF i = 0 THEN <<>> ELSE Joined(f[i - 1], p[i])]
           upto == CHOOSE f : Has(f)
<1>1. n \in Nat /\ <<>> \in Path /\ \A i \in 1..n : p[i] \in Name
  BY DEF Path
<1>2. \A i \in 1..n : step[i] \in [Path -> Path]
  BY <1>1, JoinedIsPath
<1>3. PICK g \in [0..n -> Path] : Iterates(g, n, <<>>, step)
  <2> HIDE DEF step, n
  <2> QED BY <1>1, <1>2, IteratesWithin
<1>4. Has(g)
  <2>1. ASSUME NEW i \in 0..n, i # 0 PROVE step[i][g[i - 1]] = Joined(g[i - 1], p[i])
    <3>1. i \in 1..n /\ i - 1 \in 0..n
      BY <1>1, <2>1
    <3>2. g[i - 1] \in Path
      BY <3>1, <1>3
    <3> QED BY <3>1, <3>2
  <2> HIDE DEF step
  <2> QED BY <2>1, <1>3 DEF Iterates
<1>5. Has(upto)
  <2> HIDE DEF Has
  <2> QED BY <1>4
<1>6. upto[0] = <<>> /\ \A i \in 1..n : upto[i] = Joined(upto[i - 1], p[i])
  <2> HIDE DEF upto
  <2> QED BY <1>1, <1>5
<1>7. ASSUME NEW i \in Nat, 0 < i, i <= n, upto[i - 1] \in Path PROVE upto[i] \in Path
  <2>1. i \in 1..n
    BY <1>1, <1>7
  <2> HIDE DEF upto
  <2> QED BY <2>1, <1>1, <1>6, <1>7, JoinedIsPath
<1>8. upto[n] \in Path
  <2>1. 0 \in Nat /\ 0 <= n /\ upto[0] \in Path
    BY <1>1, <1>6
  <2>2. \A i \in Nat : 0 < i /\ i <= n /\ upto[i - 1] \in Path => upto[i] \in Path
    BY <1>7
  <2> HIDE DEF upto, n
  <2> QED BY <1>1, <2>1, <2>2, Carried
<1> QED BY <1>8 DEF Clean
-----------------------------------------------------------------------------
(* Sets that the walks do not leave: they have all that a packed member    *)
(* leads to.                                                               *)
Closed(S) == \A p \in S : p \in Range(cmds) => \A q : Leads(p, q) => q \in S

(* Whoever follows a link through what is packed comes to it again.  The   *)
(* more is packed, the fewer sets are closed: once this holds, it stays.   *)
ComesBack(p) ==
  IsLink(p) /\ \A S : Closed(S) /\ Resolve(p) \in S => p \in S

(* What a packed link leads to is packed or is going to be walked.         *)
Waiting ==
  \A p \in Range(cmds) : IsLink(p) /\ Exists(Resolve(p)) =>
    Resolve(p) \in Range(cmds) \/ Walk(Resolve(p)) \in Range(stack)

(* What is packed is marked, but for the links inside which a walk is.     *)
Marked ==
  /\ visited \subseteq Range(cmds)
  /\ \A p \in Range(cmds) : p \notin visited => IsLink(p) /\ Mark(p) \in Range(stack)
  /\ \A f \in Range(stack) : f.do = "mark" => f.path \in Range(cmds)

(* What is to be done before a link is marked can be come to from it.      *)
Inside ==
  \A j, k \in 1..Len(stack) : j < k /\ stack[k].do = "mark" =>
    \A S : Closed(S) /\ Resolve(stack[k].path) \in S => stack[j].path \in S

(* Only a link that leads back is packed again: it is marked only after    *)
(* what it leads to has been walked (packVisitor.VisitFile).               *)
OnlyCirclesTwice ==
  \A i, j \in 1..Len(cmds) : i < j /\ cmds[i] = cmds[j] => ComesBack(cmds[i])

PInv ==
  /\ IsSeq(stack) /\ IsSeq(cmds) /\ disk \in Disks
  /\ Waiting /\ Marked /\ Inside /\ OnlyCirclesTwice
  /\ ppc = "done" => stack = <<>>

LEMMA DiskStays ==
  ASSUME disk' = disk
  PROVE  \A p : /\ Exists(p)' <=> Exists(p)
                /\ IsLink(p)' <=> IsLink(p)
                /\ Lstat(p)' = Lstat(p)
                /\ Resolve(p)' = Resolve(p)
                /\ \A q : Leads(p, q)' <=> Leads(p, q)
<1>1. \A p : /\ Exists(p)' <=> Exists(p)
             /\ IsLink(p)' <=> IsLink(p)
             /\ Lstat(p)' = Lstat(p)
             /\ Resolve(p)' = Resolve(p)
  BY DEF Exists, IsLink, Lstat, Resolve, Readlink
<1>2. \A p, q : Leads(p, q)' <=> Leads(p, q)
  BY <1>1 DEF Leads
<1> QED BY <1>1, <1>2

LEMMA MoreIsPacked ==
  ASSUME disk' = disk, Range(cmds) \subseteq Range(cmds')
  PROVE  /\ \A S : Closed(S)' => Closed(S)
         /\ \A p : ComesBack(p) => ComesBack(p)'
<1>1. \A S : Closed(S)' => Closed(S)
  <2> SUFFICES ASSUME NEW S, Closed(S)' PROVE Closed(S)
    OBVIOUS
  <2>1. ASSUME NEW q \in S, q \in Range(cmds), NEW x, Leads(q, x) PROVE x \in S
    BY <2>1, DiskStays DEF Closed
  <2> QED BY <2>1 DEF Closed
<1>2. \A p : ComesBack(p) => ComesBack(p)'
  BY <1>1, DiskStays DEF ComesBack
<1> QED BY <1>1, <1>2

LEMMA PackInit == Init => PInv
<1> SUFFICES ASSUME Init PROVE PInv
  OBVIOUS
<1>1. stack = <<>> /\ cmds = <<>> /\ visited = {} /\ disk \in Disks /\ ppc = "along"
  BY DEF Init, LddInit
<1>2. /\ IsSeq(stack) /\ Range(stack) = {} /\ 1..Len(stack) = {}
      /\ IsSeq(cmds) /\ Range(cmds) = {} /\ 1..Len(cmds) = {}
  BY <1>1, EmptyIsSeq
<1> QED BY <1>1, <1>2 DEF PInv, Waiting, Marked, Inside, OnlyCirclesTwice

(* The stack loses its first frame.                                        *)
LEMMA Popped ==
  ASSUME PInv, stack # <<>>, stack' = Tail(stack), disk' = disk,
         Range(cmds) \subseteq Range(cmds')
  PROVE  /\ IsSeq(stack') /\ Inside'
         /\ Range(stack) = {Head(stack)} \cup Range(stack')
<1>1. IsSeq(stack)
  BY DEF PInv
<1>2. /\ IsSeq(Tail(stack)) /\ Head(stack) = stack[1]
      /\ Range(stack) = {stack[1]} \cup Range(Tail(stack))
      /\ \A k \in 1..Len(Tail(stack)) :
           k + 1 \in 1..Len(stack) /\ Tail(stack)[k] = stack[k + 1]
  BY <1>1, TailIsSeq
<1>3. Inside'
  <2> SUFFICES ASSUME NEW j \in 1..Len(stack'), NEW k \in 1..Len(stack'), j < k,
                      stack'[k].do = "mark",
                      NEW S, Closed(S), Closed(S)', Resolve(stack'[k].path) \in S
               PROVE  stack'[j].path \in S
    BY DiskStays, MoreIsPacked DEF Inside
  <2>1. /\ j + 1 \in 1..Len(stack) /\ k + 1 \in 1..Len(stack) /\ j + 1 < k + 1
        /\ stack'[j] = stack[j + 1] /\ stack'[k] = stack[k + 1]
    BY <1>2
  <2> QED BY <2>1 DEF PInv, Inside
<1> QED BY <1>2, <1>3

(* A path is packed that is not marked: if it has been packed before, the  *)
(* walk is inside of it.                                                   *)
LEMMA PackedAgain ==
  ASSUME PInv, Doing("walk"), Top \notin visited, cmds' = Append(cmds, Top), disk' = disk
  PROVE  IsSeq(cmds') /\ Range(cmds') = Range(cmds) \cup {Top} /\ OnlyCirclesTwice'
<1>1. IsSeq(cmds)
  BY DEF PInv
<1>2. /\ IsSeq(cmds') /\ Range(cmds') = Range(cmds) \cup {Top}
      /\ Len(cmds) \in Nat /\ Len(cmds') = Len(cmds) + 1 /\ cmds'[Len(cmds) + 1] = Top
      /\ \A k \in 1..Len(cmds) : cmds'[k] = cmds[k]
  BY <1>1, AppendIsSeq
<1>3. Top \in Range(cmds) => ComesBack(Top)
  <2> SUFFICES ASSUME Top \in Range(cmds) PROVE ComesBack(Top)
    OBVIOUS
  <2>1. IsLink(Top) /\ Mark(Top) \in Range(stack)
    BY DEF PInv, Marked
  <2>2. IsSeq(stack) /\ stack # <<>> /\ Head(stack).do = "walk"
    BY DEF PInv, Doing
  <2>3. Head(stack) = stack[1] /\ Len(stack) \in Nat
    BY <2>2, TailIsSeq
  <2>4. PICK k \in 1..Len(stack) : stack[k] = Mark(Top)
    <3>1. Range(stack) = {stack[k] : k \in 1..Len(stack)}
      BY <2>2, SeqIsSeq DEF IsSeq
    <3> QED BY <2>1, <3>1
  <2>5. stack[k].do = "mark" /\ stack[k].path = Top
    BY <2>4 DEF Mark
  <2>6. k # 1
    BY <2>2, <2>3, <2>5
  <2>7. 1 \in 1..Len(stack) /\ 1 < k
    BY <2>3, <2>6
  <2>8. \A S : Closed(S) /\ Resolve(Top) \in S => stack[1].path \in S
    BY <2>5, <2>7 DEF PInv, Inside
  <2> QED BY <2>1, <2>3, <2>8 DEF ComesBack, Top
<1>4. OnlyCirclesTwice'
  <2> SUFFICES ASSUME NEW i \in 1..Len(cmds'), NEW j \in 1..Len(cmds'), i < j,
                      cmds'[i] = cmds'[j]
               PROVE  ComesBack(cmds'[i])
    BY <1>2, MoreIsPacked DEF OnlyCirclesTwice
  <2> DEFINE n == Len(cmds)
  <2>1. n \in Nat /\ i \in 1..(n + 1) /\ j \in 1..(n + 1)
    BY <1>2
  <2>2. i \in 1..n /\ (j \in 1..n \/ j = n + 1)
    <3> HIDE DEF n
    <3> QED BY <2>1
  <2>3. cmds'[i] = cmds[i] /\ cmds[i] \in Range(cmds)
    <3>1. Range(cmds) = {cmds[k] : k \in 1..Len(cmds)}
      <4> DEFINE R == Range(cmds)
      <4>1. cmds \in Seq(R)
        BY <1>1 DEF IsSeq
      <4> HIDE DEF R
      <4> QED BY <4>1, SeqIsSeq
    <3> QED BY <3>1, <2>2, <1>2
  <2>4. CASE j \in 1..n
    BY <2>2, <2>3, <2>4, <1>2 DEF PInv, OnlyCirclesTwice
  <2>5. CASE j = n + 1
    BY <2>3, <2>5, <1>2, <1>3
  <2> QED BY <2>2, <2>4, <2>5
<1> QED BY <1>2, <1>4
(* The top of the stack goes, and nothing is packed.                       *)
LEMMA SkipKeeps ==
  ASSUME PInv, WalkMissing \/ VisitAgain \/ LinkWalked
  PROVE  PInv'
<1>1. /\ disk' = disk /\ cmds' = cmds /\ ppc' = ppc
      /\ stack # <<>> /\ stack' = Tail(stack)
  BY DEF WalkMissing, VisitAgain, LinkWalked, Doing
<1>2. IsSeq(stack') /\ Inside' /\ Range(stack) = {Head(stack)} \cup Range(stack')
  BY <1>1, Popped
<1>3. Waiting'
  <2> SUFFICES ASSUME NEW p \in Range(cmds), IsLink(p), Exists(Resolve(p)),
                      Resolve(p) \notin Range(cmds)
               PROVE  Walk(Resolve(p)) \in Range(stack')
    BY <1>1, DiskStays DEF Waiting, Walk
  <2>1. Walk(Resolve(p)) \in Range(stack)
    BY DEF PInv, Waiting
  <2>2. Walk(Resolve(p)) # Head(stack)
    <3> SUFFICES ASSUME Walk(Resolve(p)) = Head(stack) PROVE FALSE
      OBVIOUS
    <3>1. Head(stack).do = "walk" /\ Top = Resolve(p)
      BY DEF Walk, Top
    <3> QED BY <3>1 DEF WalkMissing, VisitAgain, LinkWalked, Doing, PInv, Marked
  <2> QED BY <2>1, <2>2, <1>2
<1>4. Marked'
  <2>1. visited \subseteq visited' /\ visited' \subseteq Range(cmds)
    BY <1>2 DEF WalkMissing, VisitAgain, LinkWalked, Doing, PInv, Marked, Top
  <2>2. ASSUME NEW p \in Range(cmds), p \notin visited'
        PROVE  IsLink(p) /\ Mark(p) \in Range(stack')
    <3>1. IsLink(p) /\ Mark(p) \in Range(stack)
      BY <2>1, <2>2 DEF PInv, Marked
    <3>2. Mark(p) # Head(stack)
      <4> SUFFICES ASSUME Mark(p) = Head(stack) PROVE FALSE
        OBVIOUS
      <4>1. Head(stack).do = "mark" /\ Top = p
        BY DEF Mark, Top
      <4> QED BY <4>1, <2>2 DEF WalkMissing, VisitAgain, LinkWalked, Doing
    <3> QED BY <3>1, <3>2, <1>2
  <2> QED BY <2>1, <2>2, <1>1, <1>2, DiskStays DEF PInv, Marked, Mark
<1>5. OnlyCirclesTwice'
  BY <1>1, MoreIsPacked DEF PInv, OnlyCirclesTwice
<1>6. ppc' = "done" => stack' = <<>>
  BY <1>1 DEF PInv
<1> QED BY <1>1, <1>2, <1>3, <1>4, <1>5, <1>6 DEF PInv

(* A file is packed and marked.                                            *)
LEMMA FileKeeps ==
  ASSUME PInv, VisitFile
  PROVE  PInv'
<1>1. /\ disk' = disk /\ cmds' = Append(cmds, Top) /\ ppc' = ppc
      /\ visited' = visited \cup {Top}
      /\ stack # <<>> /\ stack' = Tail(stack)
      /\ Doing("walk") /\ Top \notin visited /\ ~ IsLink(Top)
  BY DEF VisitFile, VisitFileMarking, Doing, IsLink
<1>2. IsSeq(cmds') /\ Range(cmds') = Range(cmds) \cup {Top} /\ OnlyCirclesTwice'
  BY <1>1, PackedAgain
<1>3. IsSeq(stack') /\ Inside' /\ Range(stack) = {Head(stack)} \cup Range(stack')
  BY <1>1, <1>2, Popped
<1>4. Waiting'
  <2> SUFFICES ASSUME NEW p \in Range(cmds'), IsLink(p), Exists(Resolve(p)),
                      Resolve(p) \notin Range(cmds')
               PROVE  Walk(Resolve(p)) \in Range(stack')
    BY <1>1, DiskStays DEF Waiting, Walk
  <2>1. Walk(Resolve(p)) \in Range(stack)
    BY <1>1, <1>2 DEF PInv, Waiting
  <2>2. Walk(Resolve(p)) # Head(stack)
    BY <1>2 DEF Walk, Top
  <2> QED BY <2>1, <2>2, <1>3
<1>5. Marked'
  <2>1. ASSUME NEW p \in Range(cmds'), p \notin visited'
        PROVE  IsLink(p) /\ Mark(p) \in Range(stack')
    <3>1. IsLink(p) /\ Mark(p) \in Range(stack)
      BY <1>1, <1>2, <2>1 DEF PInv, Marked
    <3>2. Mark(p) # Head(stack)
      BY <1>1 DEF Mark, Doing
    <3> QED BY <3>1, <3>2, <1>3
  <2> QED BY <2>1, <1>1, <1>3, <1>2, DiskStays DEF PInv, Marked, Mark
<1> QED BY <1>1, <1>3, <1>2, <1>4, <1>5 DEF PInv

-----------------------------------------------------------------------------
(* The top of the stack gives way to frames that can be come to from it.   *)
LEMMA Pushed ==
  ASSUME PInv, NEW t, IsSeq(t), stack # <<>>, stack' = t \o Tail(stack), disk' = disk,
         Range(cmds) \subseteq Range(cmds'),
         \A k \in 1..Len(t) : \A S : Closed(S)' /\ Top \in S => t[k].path \in S,
         \A j, k \in 1..Len(t) : j < k /\ t[k].do = "mark" =>
           \A S : Closed(S)' /\ Resolve(t[k].path) \in S => t[j].path \in S
  PROVE  /\ IsSeq(stack') /\ Inside'
         /\ Range(stack) = {Head(stack)} \cup Range(Tail(stack))
         /\ Range(stack') = Range(t) \cup Range(Tail(stack))
<1> DEFINE r == Tail(stack)
           n == Len(t)
           m == Len(r)
<1>1. IsSeq(stack)
  BY DEF PInv
<1>2. /\ IsSeq(r) /\ Head(stack) = stack[1] /\ Range(stack) = {stack[1]} \cup Range(r)
      /\ \A k \in 1..m : k + 1 \in 1..Len(stack) /\ r[k] = stack[k + 1]
      /\ Len(stack) \in Nat
  BY <1>1, TailIsSeq
<1>3. /\ IsSeq(stack') /\ Range(stack') = Range(t) \cup Range(r)
      /\ n \in Nat /\ m \in Nat
      /\ \A k \in 1..Len(stack') : \/ k \in 1..n /\ stack'[k] = t[k]
                                   \/ k - n \in 1..m /\ stack'[k] = r[k - n]
  BY <1>2, ConcatIsSeq
<1>4. Inside'
  <2> SUFFICES ASSUME NEW j \in 1..Len(stack'), NEW k \in 1..Len(stack'), j < k,
                      stack'[k].do = "mark",
                      NEW S, Closed(S), Closed(S)', Resolve(stack'[k].path) \in S
               PROVE  stack'[j].path \in S
    BY DiskStays, MoreIsPacked DEF Inside
  <2>1. CASE k \in 1..n /\ stack'[k] = t[k]
    <3>1. j \in 1..n /\ stack'[j] = t[j]
      <4>1. ~ (j - n \in 1..m)
        <5> HIDE DEF n, m
        <5> QED BY <2>1, <1>3
      <4> QED BY <4>1, <1>3
    <3> QED BY <2>1, <3>1
  <2>2. CASE k - n \in 1..m /\ stack'[k] = r[k - n]
    <3> DEFINE g == (k - n) + 1
               h == (j - n) + 1
    <3>1. g \in 1..Len(stack) /\ stack'[k] = stack[g]
      BY <2>2, <1>2
    <3>2. 1 \in 1..Len(stack) /\ 1 < g
      <4> DEFINE e == k - n
                 l == Len(stack)
      <4>1. e \in 1..m /\ m \in Nat /\ l \in Nat /\ e + 1 \in 1..l
        BY <2>2, <3>1, <1>2, <1>3
      <4> HIDE DEF e, m, l
      <4>2. 1 \in 1..l /\ 1 < e + 1
        BY <4>1
      <4> QED BY <4>2 DEF e, l
    <3>5. ASSUME NEW i \in 1..Len(stack), i < g PROVE stack[i].path \in S
      <4>1. stack[g].do = "mark" /\ Resolve(stack[g].path) \in S
        BY <3>1
      <4>2. Inside
        BY DEF PInv
      <4> HIDE DEF g
      <4> QED BY <4>1, <4>2, <3>1, <3>5 DEF Inside
    <3>3. CASE j \in 1..n /\ stack'[j] = t[j]
      <4>1. stack[1].path \in S
        BY <3>2, <3>5
      <4> QED BY <4>1, <3>3, <1>2 DEF Top
    <3>4. CASE j - n \in 1..m /\ stack'[j] = r[j - n]
      <4>1. h \in 1..Len(stack) /\ stack'[j] = stack[h]
        BY <3>4, <1>2
      <4>2. h < g
        <5> HIDE DEF n, m
        <5> QED BY <2>2, <3>4, <1>3
      <4> HIDE DEF g, h
      <4> QED BY <4>1, <4>2, <3>5
    <3> QED BY <3>3, <3>4, <1>3
  <2> QED BY <2>1, <2>2, <1>3
<1> QED BY <1>2, <1>3, <1>4

(* A directory is packed and marked, and its entries are to be walked.     *)
LEMMA DirKeeps ==
  ASSUME PInv, VisitDir
  PROVE  PInv'
<1> DEFINE names == Lstat(Top).entries
           w == [k \in DOMAIN names |-> Walk(Clean(Append(Top, names[k])))]
<1>1. /\ disk' = disk /\ cmds' = Append(cmds, Top) /\ ppc' = ppc
      /\ visited' = visited \cup {Top}
      /\ stack # <<>>
      /\ Doing("walk") /\ Exists(Top) /\ Top \notin visited
      /\ Lstat(Top).kind = "dir" /\ ~ IsLink(Top)
      /\ stack' = IF Last(Top) = "." THEN Tail(stack) ELSE w \o Tail(stack)
  BY DEF VisitDir, Doing, IsLink
<1>2. IsSeq(w) /\ DOMAIN names = 1..Len(w) /\ \A k \in 1..Len(w) : w[k] = Walk(Clean(Append(Top, names[k])))
  <2>1. disk \in [DOMAIN disk -> Node]
    BY DisksAssumption DEF PInv
  <2>2. names \in Seq(Name)
    BY <1>1, <2>1 DEF Exists, Lstat, Node
  <2> DEFINE F == {Walk(Clean(Append(Top, names[k]))) : k \in DOMAIN names}
  <2>3. w \in Seq(F) /\ Len(w) = Len(names) /\ DOMAIN names = 1..Len(names)
    BY <2>2
  <2> QED BY <2>3, SeqIsSeq
<1> HIDE DEF w, names
<1>3. IsSeq(cmds') /\ Range(cmds') = Range(cmds) \cup {Top} /\ OnlyCirclesTwice'
  BY <1>1, PackedAgain
<1>4. /\ IsSeq(stack') /\ Inside'
      /\ Range(stack) = {Head(stack)} \cup Range(Tail(stack))
      /\ Range(Tail(stack)) \subseteq Range(stack')
      /\ \A f \in Range(stack') : f \in Range(Tail(stack)) \/ f.do = "walk"
  <2>1. CASE Last(Top) = "."
    BY <2>1, <1>1, <1>3, Popped
  <2>2. CASE Last(Top) # "."
    <3>1. stack' = w \o Tail(stack)
      BY <2>2, <1>1
    <3>2. \A k \in 1..Len(w) : w[k].do = "walk" /\ w[k].path = Clean(Append(Top, names[k]))
      <4>1. \A p : Walk(p).do = "walk" /\ Walk(p).path = p
        BY DEF Walk
      <4> QED BY <4>1, <1>2, Zenon
    <3>3. \A k \in 1..Len(w) : \A S : Closed(S)' /\ Top \in S => w[k].path \in S
      <4> SUFFICES ASSUME NEW k \in 1..Len(w), NEW S, Closed(S)', Top \in S
                   PROVE  w[k].path \in S
        OBVIOUS
      <4>1. k \in DOMAIN names /\ w[k].path = Clean(Append(Top, names[k]))
        BY <3>2, <1>2
      <4>2. Leads(Top, w[k].path)
        BY <2>2, <4>1, <1>1 DEF Leads, names
      <4> QED BY <4>2, <1>1, <1>3, DiskStays DEF Closed
    <3>4. \A j, k \in 1..Len(w) : j < k /\ w[k].do = "mark" =>
            \A S : Closed(S)' /\ Resolve(w[k].path) \in S => w[j].path \in S
      BY <3>2
    <3>5. /\ IsSeq(stack') /\ Inside'
          /\ Range(stack) = {Head(stack)} \cup Range(Tail(stack))
          /\ Range(stack') = Range(w) \cup Range(Tail(stack))
      BY <3>1, <3>3, <3>4, <1>1, <1>2, <1>3, Pushed
    <3>6. \A f \in Range(w) : f.do = "walk"
      <4>1. Range(w) = {w[k] : k \in 1..Len(w)}
        BY <1>2, SeqIsSeq DEF IsSeq
      <4> QED BY <4>1, <3>2
    <3> QED BY <3>5, <3>6
  <2> QED BY <2>1, <2>2
<1>5. Waiting'
  <2> SUFFICES ASSUME NEW p \in Range(cmds'), IsLink(p), Exists(Resolve(p)),
                      Resolve(p) \notin Range(cmds')
               PROVE  Walk(Resolve(p)) \in Range(stack')
    BY <1>1, DiskStays DEF Waiting, Walk
  <2>1. Walk(Resolve(p)) \in Range(stack)
    BY <1>1, <1>3 DEF PInv, Waiting
  <2>2. Walk(Resolve(p)) # Head(stack)
    BY <1>3 DEF Walk, Top
  <2> QED BY <2>1, <2>2, <1>4
<1>6. Marked'
  <2>1. ASSUME NEW p \in Range(cmds'), p \notin visited'
        PROVE  IsLink(p) /\ Mark(p) \in Range(stack')
    <3>1. IsLink(p) /\ Mark(p) \in Range(stack)
      BY <1>1, <1>3, <2>1 DEF PInv, Marked
    <3>2. Mark(p) # Head(stack)
      BY <1>1 DEF Mark, Doing
    <3> QED BY <3>1, <3>2, <1>4
  <2>2. \A f \in Range(stack') : f.do = "mark" => f.path \in Range(cmds')
    BY <1>4, <1>3 DEF PInv, Marked
  <2> QED BY <2>1, <2>2, <1>1, <1>3, DiskStays DEF PInv, Marked, Mark
<1>7. ppc' = "done" => stack' = <<>>
  BY <1>1 DEF PInv
<1> QED BY <1>1, <1>4, <1>3, <1>5, <1>6, <1>7 DEF PInv
(* A link is packed, what it leads to is to be walked, and then the link   *)
(* is to be marked.                                                        *)
LEMMA LinkKeeps ==
  ASSUME PInv, VisitLink
  PROVE  PInv'
<1> DEFINE target == Resolve(Top)
           w == <<Walk(target), Mark(Top)>>
<1>1. /\ disk' = disk /\ cmds' = Append(cmds, Top) /\ ppc' = ppc
      /\ visited' = visited
      /\ stack # <<>> /\ stack' = w \o Tail(stack)
      /\ Doing("walk") /\ Exists(Top) /\ Top \notin visited /\ IsLink(Top)
  BY DEF VisitLink, Follow, Doing
<1>2. IsSeq(w) /\ Len(w) = 2 /\ w[1] = Walk(target) /\ w[2] = Mark(Top)
      /\ Range(w) = {Walk(target), Mark(Top)}
  <2>1. w \in Seq({Walk(target), Mark(Top)}) /\ Len(w) = 2 /\ w[1] = Walk(target) /\ w[2] = Mark(Top)
    OBVIOUS
  <2>2. IsSeq(w) /\ Range(w) = {w[k] : k \in 1..2}
    BY <2>1, SeqIsSeq
  <2>3. 1..2 = {1, 2}
    OBVIOUS
  <2> QED BY <2>1, <2>2, <2>3
<1> HIDE DEF w
<1>3. /\ w[1].do = "walk" /\ w[1].path = target
      /\ w[2].do = "mark" /\ w[2].path = Top /\ 1..Len(w) = {1, 2}
  BY <1>2 DEF Walk, Mark
<1>4. IsSeq(cmds') /\ Range(cmds') = Range(cmds) \cup {Top} /\ OnlyCirclesTwice'
  BY <1>1, PackedAgain
<1>5. /\ IsSeq(stack') /\ Inside'
      /\ Range(stack) = {Head(stack)} \cup Range(Tail(stack))
      /\ Range(stack') = Range(w) \cup Range(Tail(stack))
  <2>1. \A k \in 1..Len(w) : \A S : Closed(S)' /\ Top \in S => w[k].path \in S
    <3> SUFFICES ASSUME NEW S, Closed(S)', Top \in S PROVE target \in S
      BY <1>3
    <3>1. Leads(Top, target)
      BY <1>1 DEF Leads
    <3> QED BY <3>1, <1>1, <1>4, DiskStays DEF Closed
  <2>2. \A j, k \in 1..Len(w) : j < k /\ w[k].do = "mark" =>
          \A S : Closed(S)' /\ Resolve(w[k].path) \in S => w[j].path \in S
    BY <1>3
  <2> QED BY <2>1, <2>2, <1>1, <1>2, <1>4, Pushed
<1>6. Waiting'
  <2> SUFFICES ASSUME NEW p \in Range(cmds'), IsLink(p), Exists(Resolve(p)),
                      Resolve(p) \notin Range(cmds')
               PROVE  Walk(Resolve(p)) \in Range(stack')
    BY <1>1, DiskStays DEF Waiting, Walk
  <2>1. CASE p = Top
    BY <2>1, <1>2, <1>5
  <2>2. CASE p # Top
    <3>1. Walk(Resolve(p)) \in Range(stack)
      BY <2>2, <1>4 DEF PInv, Waiting
    <3>2. Walk(Resolve(p)) # Head(stack)
      BY <1>4 DEF Walk, Top
    <3> QED BY <3>1, <3>2, <1>5
  <2> QED BY <2>1, <2>2
<1>7. Marked'
  <2>1. ASSUME NEW p \in Range(cmds'), p \notin visited'
        PROVE  IsLink(p) /\ Mark(p) \in Range(stack')
    <3>1. CASE p = Top
      BY <3>1, <1>1, <1>2, <1>5
    <3>2. CASE p # Top
      <4>1. IsLink(p) /\ Mark(p) \in Range(stack)
        BY <1>1, <1>4, <2>1, <3>2 DEF PInv, Marked
      <4>2. Mark(p) # Head(stack)
        BY <1>1 DEF Mark, Doing
      <4> QED BY <4>1, <4>2, <1>5
    <3> QED BY <3>1, <3>2
  <2>2. \A f \in Range(stack') : f.do = "mark" => f.path \in Range(cmds')
    <3> SUFFICES ASSUME NEW f \in Range(stack'), f.do = "mark" PROVE f.path \in Range(cmds')
      OBVIOUS
    <3>1. CASE f \in Range(w)
      BY <3>1, <1>2, <1>3, <1>4
    <3>2. CASE f \in Range(Tail(stack))
      BY <3>2, <1>5, <1>4 DEF PInv, Marked
    <3> QED BY <3>1, <3>2, <1>5
  <2>3. visited' \subseteq Range(cmds')
    BY <1>1, <1>4 DEF PInv, Marked
  <2> QED BY <2>1, <2>2, <2>3, <1>1, DiskStays DEF Marked, Mark
<1>8. ppc' = "done" => stack' = <<>>
  BY <1>1 DEF PInv
<1> QED BY <1>1, <1>5, <1>4, <1>6, <1>7, <1>8 DEF PInv

(* A walk begins.                                                          *)
LEMMA WalkBegins ==
  ASSUME PInv, NextWalk
  PROVE  PInv'
<1> DEFINE f == Walk(Head(todo))
<1>1. /\ disk' = disk /\ cmds' = cmds /\ visited' = visited /\ ppc' = ppc /\ ppc # "done"
      /\ stack = <<>> /\ stack' = <<f>>
  BY DEF NextWalk
<1>2. IsSeq(stack') /\ Range(stack') = {f} /\ 1..Len(stack') = {1}
  <2>1. <<f>> \in Seq({f}) /\ Len(<<f>>) = 1 /\ <<f>>[1] = f
    OBVIOUS
  <2>2. IsSeq(<<f>>) /\ Range(<<f>>) = {<<f>>[k] : k \in 1..1}
    BY <2>1, SeqIsSeq
  <2>3. 1..1 = {1}
    OBVIOUS
  <2> QED BY <2>1, <2>2, <2>3, <1>1
<1>3. Range(stack) = {}
  BY <1>1, EmptyIsSeq
<1>4. Waiting'
  BY <1>1, <1>3, DiskStays DEF PInv, Waiting
<1>5. Marked'
  <2>1. \A p \in Range(cmds) : p \in visited
    BY <1>3 DEF PInv, Marked
  <2>2. f.do = "walk"
    BY DEF Walk
  <2> QED BY <2>1, <2>2, <1>1, <1>2 DEF PInv, Marked
<1>6. Inside'
  BY <1>2 DEF Inside
<1>7. OnlyCirclesTwice'
  BY <1>1, MoreIsPacked DEF PInv, OnlyCirclesTwice
<1> QED BY <1>1, <1>2, <1>4, <1>5, <1>6, <1>7 DEF PInv

(* Steps that leave the walks alone.                                       *)
LEMMA AsideKeeps ==
  ASSUME PInv, UNCHANGED <<disk, stack, visited, cmds>>, ppc' = "done" => stack = <<>>
  PROVE  PInv'
<1>1. Waiting'
  BY DiskStays DEF PInv, Waiting, Walk
<1>2. Marked'
  BY DiskStays DEF PInv, Marked, Mark
<1>3. Inside'
  BY DiskStays, MoreIsPacked DEF PInv, Inside
<1>4. OnlyCirclesTwice'
  BY MoreIsPacked DEF PInv, OnlyCirclesTwice
<1> QED BY <1>1, <1>2, <1>3, <1>4 DEF PInv

LEMMA PackStep == PInv /\ [Next]_vars => PInv'
<1> SUFFICES ASSUME PInv, [Next]_vars PROVE PInv'
  OBVIOUS
<1>1. CASE UNCHANGED vars
  BY <1>1, AsideKeeps DEF vars, packVars, PInv
<1>2. CASE NextWalk
  BY <1>2, WalkBegins
<1>3. CASE WalkMissing \/ VisitAgain \/ LinkWalked
  BY <1>3, SkipKeeps
<1>4. CASE VisitDir
  BY <1>4, DirKeeps
<1>5. CASE VisitFile
  BY <1>5, FileKeeps
<1>6. CASE VisitLink
  BY <1>6, LinkKeeps
<1>7. CASE LddBegins
  BY <1>7, AsideKeeps DEF LddBegins, LddBeginsIf
<1>8. CASE LddRuns
  BY <1>8, AsideKeeps DEF LddRuns, packVars
<1>9. CASE LddEnds
  BY <1>9, AsideKeeps DEF LddEnds
<1>10. CASE Packed
  BY <1>10, AsideKeeps DEF Packed
<1> QED BY <1>1, <1>2, <1>3, <1>4, <1>5, <1>6, <1>7, <1>8, <1>9, <1>10 DEF Next

(* The invariant of the walks: what is still on the stack accounts for     *)
(* whatever is packed and not marked, or led to and not packed.            *)
THEOREM WalksInvariant == Spec => []PInv
<1> QED BY PackInit, PackStep, PTL DEF Spec

(* Nothing that goes along is a link to something that stays behind        *)
(* (packVisitor).                                                          *)
THEOREM LinksTravel == Spec => []LinksLead
<1>1. PInv => LinksLead
  BY EmptyIsSeq DEF PInv, Waiting, LinksLead
<1> QED BY <1>1, WalksInvariant, PTL

-----------------------------------------------------------------------------
(* The search.  A name can be taken to be known because a link reads so.   *)
LinkValue(r) == \E p \in DOMAIN disk : disk[p].kind = "link" /\ disk[p].target = r

(* What the search has dealt with or is going to.                          *)
Taken ==
  known \cup Range(queue) \cup Range(rest) \cup (IF lpc = "push" THEN {lib} ELSE {})

(* A name whose file has been found and read.                              *)
Opened(r) ==
  Found(r) /\ Lstat(Ends(FileOf(r))).elf = "ok" /\ Range(Imports(r)) \subseteq Taken

Listed(r) == [abs |-> TRUE, to |-> FileOf(r)] \in Range(files)

SInv ==
  /\ IsSeq(queue) /\ IsSeq(rest) /\ IsSeq(files) /\ disk \in Disks
  /\ lpc = "start" => known = {}
  /\ lpc \notin {"start", "failed"} => prog \in Taken
  /\ lpc # "push" => rest = <<>>
  /\ lpc = "done" => queue = <<>>
  /\ lpc = "push" => bin = FileOf(lib) /\ Opened(lib)
  /\ lpc # "failed" => \A r \in known : LinkValue(r) \/ (Opened(r) /\ Listed(r))

(* When the search ends well the program is known, and of every name that  *)
(* is known the file was found and is listed and all it imports is known,  *)
(* or the name is what a link reads, where the search takes the file to    *)
(* have been seen (Lddroot).                                               *)
SearchComplete ==
  lpc = "done" =>
    /\ prog \in known
    /\ \A r \in known :
         \/ LinkValue(r)
         \/ Found(r) /\ Range(Imports(r)) \subseteq known /\ Listed(r)

LEMMA SearchStays ==
  ASSUME disk' = disk
  PROVE  \A r : /\ IsElf(r)' <=> IsElf(r)
                /\ Ends(r)' = Ends(r)
                /\ FileOf(r)' = FileOf(r)
                /\ Found(r)' <=> Found(r)
                /\ Lstat(Ends(FileOf(r)))' = Lstat(Ends(FileOf(r)))
                /\ Imports(r)' = Imports(r)
                /\ LinkValue(r)' <=> LinkValue(r)
<1>a. Behind' = Behind
  BY DEF Behind, IsLink, Exists, Lstat, Resolve, Readlink
<1>1. \A p : Ends(p)' = Ends(p)
  BY <1>a DEF Ends
<1>2. \A p : IsElf(p)' <=> IsElf(p)
  BY <1>1 DEF IsElf, Exists, Lstat
<1>3. \A r : FirstHit(r)' = FirstHit(r)
  BY <1>2 DEF FirstHit
<1>4. \A r : FileOf(r)' = FileOf(r)
  BY <1>3 DEF FileOf
<1>5. \A r : Found(r)' <=> Found(r)
  BY <1>2 DEF Found
<1>6. \A r : Lstat(Ends(FileOf(r)))' = Lstat(Ends(FileOf(r)))
  BY <1>1, <1>4 DEF Lstat
<1>7. \A r : Imports(r)' = Imports(r)
  BY <1>6 DEF Imports
<1>8. \A r : LinkValue(r)' <=> LinkValue(r)
  BY DEF LinkValue
<1> QED BY <1>1, <1>2, <1>4, <1>5, <1>6, <1>7, <1>8

(* A name that is found is found first in one directory, in a program or a *)
(* library; what that imports are names.                                   *)
LEMMA FoundFirst ==
  ASSUME NEW r, Found(r), disk \in Disks
  PROVE  /\ FirstHit(r) \in DOMAIN Dirs(r) /\ IsElf(FileOf(r)) /\ Imports(r) \in Seq(Ref)
         /\ Exists(Ends(FileOf(r)))
<1> DEFINE T == {i \in DOMAIN Dirs(r) : IsElf(At(r, i))}
<1>1. Len(Dirs(r)) \in Nat /\ DOMAIN Dirs(r) = 1..Len(Dirs(r))
  <2>1. Len(LibPath) \in Nat /\ DOMAIN LibPath = 1..Len(LibPath)
    BY LibPathAssumption
  <2>2. Len(<< <<>> >>) = 1 /\ DOMAIN << <<>> >> = 1..1
    OBVIOUS
  <2> QED BY <2>1, <2>2 DEF Dirs
<1>2. T # {} /\ T \in SUBSET Nat
  BY <1>1 DEF Found
<1>3. PICK i \in T : \A j \in T : <<j, i>> \notin OpToRel(<, Nat)
  BY <1>2, NatLessThanWellFounded, WFMin
<1>4. \A j \in T : i <= j
  BY <1>2, <1>3, NotLess
<1>5. \A j \in 1..(i - 1) : ~ IsElf(At(r, j))
  <2>1. i \in 1..Len(Dirs(r))
    BY <1>1
  <2>2. SUFFICES ASSUME NEW j \in 1..(i - 1), IsElf(At(r, j)) PROVE FALSE
    OBVIOUS
  <2>3. j \in 1..Len(Dirs(r)) /\ ~ (i <= j)
    BY <1>1, <2>1
  <2> QED BY <1>1, <1>4, <2>2, <2>3
<1>6. FirstHit(r) \in DOMAIN Dirs(r) /\ IsElf(At(r, FirstHit(r)))
  BY <1>5 DEF FirstHit
<1>7. Exists(Ends(FileOf(r)))
  BY <1>6 DEF FileOf, IsElf
<1>8. Lstat(Ends(FileOf(r))) \in Node
  BY <1>7, DisksAssumption DEF Exists, Lstat
<1>9. Imports(r) \in Seq(Ref)
  BY <1>8 DEF Node, Imports
<1> QED BY <1>6, <1>7, <1>9 DEF FileOf

(* What was established stays so while the search takes on more.           *)
LEMMA SearchGrows ==
  ASSUME disk' = disk, Taken \subseteq Taken', Range(files) \subseteq Range(files')
  PROVE  \A r : /\ Opened(r) => Opened(r)'
                /\ Listed(r) => Listed(r)'
                /\ LinkValue(r) => LinkValue(r)'
<1> TAKE r
<1>1. /\ Found(r)' <=> Found(r)
      /\ FileOf(r)' = FileOf(r)
      /\ Lstat(Ends(FileOf(r)))' = Lstat(Ends(FileOf(r)))
      /\ Imports(r)' = Imports(r)
      /\ LinkValue(r)' <=> LinkValue(r)
  BY SearchStays
<1>2. Opened(r) => Opened(r)'
  BY <1>1 DEF Opened
<1>3. Listed(r) => Listed(r)'
  BY <1>1 DEF Listed
<1> QED BY <1>1, <1>2, <1>3

LEMMA SearchInit == Init => SInv
<1> SUFFICES ASSUME Init PROVE SInv
  OBVIOUS
<1>1. /\ queue = <<>> /\ rest = <<>> /\ files = <<>> /\ known = {}
      /\ lpc = "start" /\ disk \in Disks
  BY DEF Init, LddInit
<1> QED BY <1>1, EmptyIsSeq DEF SInv

(* Steps after which the search has taken on as much as before.            *)
LEMMA SearchKeeps ==
  ASSUME SInv, disk' = disk, prog' = prog, IsSeq(queue'), IsSeq(rest'), IsSeq(files'),
         lpc \notin {"start", "failed"}, lpc' \in {"take", "links", "done"},
         lpc' = "done" => queue' = <<>>,
         rest' = <<>>, Taken \subseteq Taken', Range(files) \subseteq Range(files'),
         \A r \in known' :
           r \in known \/ LinkValue(r)' \/ (Opened(r)' /\ Listed(r)')
  PROVE  SInv'
<1>1. prog' \in Taken'
  BY DEF SInv
<1>2. \A r \in known' : LinkValue(r)' \/ (Opened(r)' /\ Listed(r)')
  <2> TAKE r \in known'
  <2>1. CASE r \in known
    BY <2>1, SearchGrows DEF SInv
  <2> QED BY <2>1
<1>3. disk' \in Disks
  BY DEF SInv
<1> QED BY <1>1, <1>2, <1>3 DEF SInv

LEMMA OpensKeeps ==
  ASSUME SInv, disk' = disk, prog' = prog, LddOpens
  PROVE  SInv'
<1>1. /\ lpc = "start" /\ lpc' = "take" /\ queue' = <<prog>> /\ rest' = rest /\ known' = known
      /\ files' = files /\ known = {} /\ rest = <<>>
  BY DEF LddOpens, SInv
<1>2. <<prog>> \in Seq({prog}) /\ Len(<<prog>>) = 1 /\ <<prog>>[1] = prog
  OBVIOUS
<1>3. IsSeq(<<prog>>) /\ Range(<<prog>>) = {<<prog>>[k] : k \in 1..1}
  BY <1>2, SeqIsSeq
<1>4. IsSeq(queue') /\ prog' \in Range(queue')
  BY <1>1, <1>2, <1>3
<1>5. prog' \in Taken'
  BY <1>4 DEF Taken
<1> QED BY <1>1, <1>4, <1>5 DEF SInv

(* The search has failed.                                                  *)
LEMMA FailKeeps ==
  ASSUME SInv, disk' = disk, LddNotElf \/ LddMissing
  PROVE  SInv'
<1>1. /\ lpc' = "failed" /\ lpc # "push" /\ rest' = rest /\ known' = known
      /\ files' = files \/ files' = <<>>
  BY DEF LddNotElf, LddMissing
<1>2. IsSeq(queue')
  BY TailIsSeq DEF SInv, LddNotElf, LddMissing
<1> QED BY <1>1, <1>2, EmptyIsSeq DEF SInv

LEMMA KnownKeeps ==
  ASSUME SInv, disk' = disk, prog' = prog, LddKnown
  PROVE  SInv'
<1>1. /\ lpc = "take" /\ lpc' = "take" /\ queue # <<>> /\ Head(queue) \in known
      /\ queue' = Tail(queue) /\ rest' = rest /\ known' = known /\ files' = files
  BY DEF LddKnown
<1>2. IsSeq(queue') /\ Range(queue) = {Head(queue)} \cup Range(queue')
  BY <1>1, TailIsSeq DEF SInv
<1>3. Taken \subseteq Taken'
  BY <1>1, <1>2 DEF Taken
<1> QED BY <1>1, <1>2, <1>3, SearchKeeps DEF SInv

LEMMA FoundKeeps ==
  ASSUME SInv, disk' = disk, prog' = prog, LddFound
  PROVE  SInv'
<1> PICK l : l = Head(queue)
  OBVIOUS
<1>1. /\ lpc = "take" /\ lpc' = "push" /\ queue # <<>>
      /\ queue' = Tail(queue) /\ rest' = Imports(l) /\ known' = known /\ files' = files
      /\ lib' = l /\ bin' = FileOf(l) /\ Found(l) /\ Lstat(Ends(FileOf(l))).elf = "ok"
  BY DEF LddFound, FoundWith
<1>2. IsSeq(queue') /\ Range(queue) = {l} \cup Range(queue')
  BY <1>1, TailIsSeq DEF SInv
<1>3. IsSeq(rest')
  BY <1>1, FoundFirst, SeqIsSeq DEF SInv
<1>4. rest = <<>> /\ Range(rest) = {}
  BY <1>1, EmptyIsSeq DEF SInv
<1>5. Taken \subseteq Taken' /\ Range(Imports(l)) \subseteq Taken'
  BY <1>1, <1>2, <1>4 DEF Taken
<1>6. prog' \in Taken'
  BY <1>1, <1>5 DEF SInv
<1>7. bin' = FileOf(lib)' /\ Opened(lib)'
  <2>1. /\ FileOf(l)' = FileOf(l) /\ Found(l)' /\ Imports(l)' = Imports(l)
        /\ Lstat(Ends(FileOf(l)))' = Lstat(Ends(FileOf(l)))
    BY <1>1, SearchStays
  <2>2. Opened(l)'
    BY <1>1, <1>5, <2>1 DEF Opened
  <2> QED BY <1>1, <2>1, <2>2
<1>8. \A r \in known' : LinkValue(r)' \/ (Opened(r)' /\ Listed(r)')
  BY <1>1, <1>5, SearchGrows DEF SInv
<1>9. disk' \in Disks /\ IsSeq(files')
  BY <1>1 DEF SInv
<1> QED BY <1>1, <1>2, <1>3, <1>6, <1>7, <1>8, <1>9 DEF SInv

LEMMA PushKeeps ==
  ASSUME SInv, disk' = disk, prog' = prog, LddPush
  PROVE  SInv'
<1>1. /\ lpc = "push" /\ lpc' = "push" /\ rest # <<>>
      /\ queue' = Append(queue, Head(rest)) /\ rest' = Tail(rest)
      /\ lib' = lib /\ bin' = bin /\ known' = known /\ files' = files
  BY DEF LddPush, PushUpTo
<1>2. IsSeq(queue') /\ Range(queue') = Range(queue) \cup {Head(rest)}
  BY <1>1, AppendIsSeq DEF SInv
<1>3. IsSeq(rest') /\ Range(rest) = {Head(rest)} \cup Range(rest')
  BY <1>1, TailIsSeq DEF SInv
<1>4. Taken \subseteq Taken'
  BY <1>1, <1>2, <1>3 DEF Taken
<1>5. prog' \in Taken'
  BY <1>1, <1>4 DEF SInv
<1>6. \A r \in known' : LinkValue(r)' \/ (Opened(r)' /\ Listed(r)')
  BY <1>1, <1>4, SearchGrows DEF SInv
<1>7. bin' = FileOf(lib)' /\ Opened(lib)'
  <2>1. PICK l : l = lib
    OBVIOUS
  <2>2. FileOf(l)' = FileOf(l) /\ Opened(l)'
    BY <1>1, <1>4, <2>1, SearchStays, SearchGrows DEF SInv
  <2> QED BY <1>1, <2>1, <2>2 DEF SInv
<1> QED BY <1>1, <1>2, <1>3, <1>5, <1>6, <1>7 DEF SInv

LEMMA AddKeeps ==
  ASSUME SInv, disk' = disk, prog' = prog, LddAdd
  PROVE  SInv'
<1> DEFINE e == [abs |-> TRUE, to |-> bin]
<1>1. /\ lpc = "push" /\ lpc' = "links" /\ rest = <<>> /\ rest' = rest
      /\ queue' = queue /\ known' = known \cup {lib} /\ files' = Append(files, e)
  BY DEF LddAdd
<1>2. IsSeq(files') /\ Range(files') = Range(files) \cup {e}
  BY <1>1, AppendIsSeq DEF SInv
<1>3. Taken \subseteq Taken'
  BY <1>1 DEF Taken
<1>4. Opened(lib) /\ bin = FileOf(lib)
  BY <1>1 DEF SInv
<1>5. PICK l : l = lib
  OBVIOUS
<1>6. FileOf(l)' = FileOf(l) /\ Opened(l)'
  BY <1>2, <1>3, <1>4, <1>5, SearchStays, SearchGrows
<1>7. Listed(l)'
  BY <1>2, <1>4, <1>5, <1>6 DEF Listed
<1>8. \A r \in known' : r \in known \/ (Opened(r)' /\ Listed(r)')
  BY <1>1, <1>5, <1>6, <1>7
<1> QED BY <1>1, <1>2, <1>3, <1>8, SearchKeeps DEF SInv

LEMMA LinkIsKnown ==
  ASSUME SInv, disk' = disk, prog' = prog, LddLink
  PROVE  SInv'
<1> PICK v : v = Readlink(bin)
  OBVIOUS
<1>1. /\ lpc = "links" /\ lpc' = "links" /\ rest' = rest /\ rest = <<>>
      /\ queue' = queue /\ known' = known \cup {v} /\ files' = Append(files, v)
      /\ IsLink(bin)
  BY DEF LddLink, SInv
<1>2. IsSeq(files') /\ Range(files') = Range(files) \cup {v}
  BY <1>1, AppendIsSeq DEF SInv
<1>3. Taken \subseteq Taken'
  BY <1>1 DEF Taken
<1>4. LinkValue(v)
  BY <1>1 DEF LinkValue, IsLink, Exists, Lstat, Readlink
<1>5. LinkValue(v)'
  BY <1>4, SearchStays
<1>6. \A r \in known' : r \in known \/ LinkValue(r)'
  BY <1>1, <1>5
<1> QED BY <1>1, <1>2, <1>3, <1>6, SearchKeeps DEF SInv

(* Steps that end a round or the search, and those of the walks.           *)
LEMMA RoundKeeps ==
  ASSUME SInv, disk' = disk, prog' = prog, LddNext \/ LddDone
  PROVE  SInv'
<1>1. /\ lpc \in {"take", "links"} /\ lpc' \in {"take", "done"} /\ rest' = rest
      /\ queue' = queue /\ known' = known /\ files' = files /\ rest = <<>>
      /\ lpc' = "done" => queue' = <<>>
  BY DEF LddNext, LddDone, SInv
<1>2. Taken \subseteq Taken'
  BY <1>1 DEF Taken
<1> QED BY <1>1, <1>2, SearchKeeps DEF SInv

LEMMA WalksKeepSearch ==
  ASSUME SInv, UNCHANGED <<disk, prog, lddVars>>
  PROVE  SInv'
<1>1. /\ lpc' = lpc /\ queue' = queue /\ lib' = lib /\ bin' = bin /\ rest' = rest
      /\ known' = known /\ files' = files /\ disk' = disk /\ prog' = prog
  BY DEF lddVars
<1>2. Taken' = Taken
  BY <1>1 DEF Taken
<1>3. \A r : /\ Opened(r) => Opened(r)'
             /\ Listed(r) => Listed(r)'
             /\ LinkValue(r) => LinkValue(r)'
  BY <1>1, <1>2, SearchGrows
<1>4. lpc' = "push" => bin' = FileOf(lib)' /\ Opened(lib)'
  <2> PICK l : l = lib
    OBVIOUS
  <2>1. FileOf(l)' = FileOf(l)
    BY <1>1, SearchStays
  <2> QED BY <1>1, <1>3, <2>1 DEF SInv
<1>5. \A r \in known' :
        lpc # "failed" => LinkValue(r)' \/ (Opened(r)' /\ Listed(r)')
  BY <1>1, <1>3 DEF SInv
<1> QED BY <1>1, <1>2, <1>4, <1>5 DEF SInv

LEMMA SearchStep == SInv /\ [Next]_vars => SInv'
<1> SUFFICES ASSUME SInv, [Next]_vars PROVE SInv'
  OBVIOUS
<1>1. CASE UNCHANGED vars
  BY <1>1, WalksKeepSearch DEF vars
<1>2. CASE LddRuns
  <2>1. disk' = disk /\ prog' = prog /\ LddStep
    BY <1>2 DEF LddRuns
  <2> QED BY <2>1, OpensKeeps, FailKeeps, KnownKeeps, FoundKeeps, PushKeeps, AddKeeps,
             LinkIsKnown, RoundKeeps DEF LddStep
<1>3. CASE \/ NextWalk \/ WalkMissing \/ VisitAgain \/ VisitDir \/ VisitFile \/ VisitLink
           \/ LinkWalked \/ LddBegins \/ LddEnds \/ Packed
  <2>1. UNCHANGED <<disk, prog, lddVars>>
    BY <1>3 DEF NextWalk, WalkMissing, VisitAgain, VisitDir, VisitFile, VisitFileMarking,
                VisitLink, Follow, LinkWalked, LddBegins, LddBeginsIf, LddEnds, Packed
  <2> QED BY <2>1, WalksKeepSearch
<1> QED BY <1>1, <1>2, <1>3 DEF Next

(* No library is left out, whichever import each other, wherever they are  *)
(* found and whatever links lead to them: a search that does not fail has  *)
(* opened and listed all that any file it opened imports (Lddroot).        *)
THEOREM SearchIsComplete == Spec => []SearchComplete
<1>1. SInv => SearchComplete
  <2> SUFFICES ASSUME SInv, lpc = "done" PROVE SearchComplete
    BY DEF SearchComplete
  <2>1. Range(queue) = {} /\ Range(rest) = {}
    BY EmptyIsSeq DEF SInv
  <2>2. Taken = known
    BY <2>1 DEF Taken
  <2> QED BY <2>2 DEF SInv, SearchComplete, Opened
<1>2. Spec => []SInv
  BY SearchInit, SearchStep, PTL DEF Spec
<1> QED BY <1>1, <1>2, PTL
-----------------------------------------------------------------------------
(* Types.                                                                  *)
LEMMA PlacesArePaths ==
  ASSUME NEW r \in Ref
  PROVE  \A i \in DOMAIN Dirs(r) : Dirs(r)[i] \in Path /\ At(r, i) \in Path
<1>1. r.to \in Path /\ Root \in Path
  BY RootAssumption DEF Ref
<1>2. ASSUME NEW i \in DOMAIN Dirs(r) PROVE Dirs(r)[i] \in Path
  <2>1. CASE r.abs
    <3>1. Dirs(r) = << <<>> >> /\ i = 1
      BY <2>1 DEF Dirs
    <3> QED BY <3>1, EmptySeq DEF Path
  <2>2. CASE ~ r.abs
    BY <2>2, LibPathAssumption DEF Dirs
  <2> QED BY <2>1, <2>2
<1>3. ASSUME NEW i \in DOMAIN Dirs(r) PROVE At(r, i) \in Path
  <2>1. Root \o Dirs(r)[i] \in Path
    BY <1>1, <1>2, PathsMade
  <2>2. Root \o Dirs(r)[i] \o r.to \in Path
    BY <2>1, <1>1, PathsMade
  <2> QED BY <2>2, CleanIsPath DEF At
<1> QED BY <1>2, <1>3

LEMMA NodesAreNodes ==
  ASSUME disk \in Disks, NEW p, Exists(p)
  PROVE  /\ Lstat(p).kind \in {"file", "dir", "link", "other"}
         /\ Lstat(p).entries \in Seq(Name) /\ Readlink(p) \in Ref
         /\ Readlink(p).to \in Path /\ Lstat(p).needs \in Seq(Ref)
<1>1. Lstat(p) \in Node
  BY DisksAssumption DEF Exists, Lstat
<1> QED BY <1>1 DEF Node, Readlink, Ref

LEMMA LinksArePaths ==
  ASSUME disk \in Disks, NEW p \in Path, IsLink(p)
  PROVE  Resolve(p) \in Path
<1>1. Readlink(p).to \in Path
  BY NodesAreNodes DEF IsLink
<1>2. Front(p) \o Readlink(p).to \in Path
  <2>1. Front(p) \in Path
    BY PathsMade
  <2> QED BY <1>1, <2>1, PathsMade
<1> QED BY <1>1, <1>2, CleanIsPath DEF Resolve

LEMMA HeadAndTail ==
  ASSUME NEW S, NEW s \in Seq(S), s # <<>>
  PROVE  Head(s) \in S /\ Tail(s) \in Seq(S) /\ Len(s) \in Nat /\ Len(Tail(s)) = Len(s) - 1
BY HeadTailProperties

LEMMA LddTypes ==
  ASSUME LddTypeOK, disk' = disk, prog' = prog, LddStep
  PROVE  LddTypeOK'
<1> USE DEF LddTypeOK
<1>a. disk \in Disks /\ prog \in Ref /\ Cap \in Nat \ {0} /\ Len(queue) \in Nat
  BY ProgramsAssumption, CapAssumption
<1>1. CASE LddOpens
  <2>1. <<prog>> \in Seq(Ref) /\ Len(<<prog>>) = 1
    BY <1>a
  <2> QED BY <1>1, <1>a, <2>1 DEF LddOpens
<1>2. CASE LddNotElf
  BY <1>2 DEF LddNotElf
<1>3. CASE LddKnown
  <2>1. Tail(queue) \in Seq(Ref) /\ Len(Tail(queue)) = Len(queue) - 1
    BY <1>3, HeadAndTail DEF LddKnown
  <2> QED BY <1>3, <1>a, <2>1 DEF LddKnown
<1>4. CASE LddFound
  <2> DEFINE l == Head(queue)
  <2>1. /\ Tail(queue) \in Seq(Ref) /\ Len(Tail(queue)) = Len(queue) - 1 /\ l \in Ref
    BY <1>4, HeadAndTail DEF LddFound, FoundWith
  <2>2. Found(l)
    BY <1>4 DEF LddFound, FoundWith
  <2>3. FirstHit(l) \in DOMAIN Dirs(l) /\ Imports(l) \in Seq(Ref)
    BY <2>2, <1>a, FoundFirst
  <2>4. FileOf(l) \in Path /\ Dirs(l)[FirstHit(l)] \in Path
    BY <2>1, <2>3, PlacesArePaths DEF FileOf
  <2>5. /\ lib' = l /\ bin' = FileOf(l) /\ libdir' = Dirs(l)[FirstHit(l)] /\ rest' = Imports(l)
        /\ queue' = Tail(queue) /\ lpc' = "push" /\ known' = known /\ files' = files
    BY <1>4 DEF LddFound, FoundWith
  <2> HIDE DEF l
  <2> QED BY <2>1, <2>3, <2>4, <2>5, <1>a
<1>5. CASE LddMissing
  <2>1. Tail(queue) \in Seq(Ref) /\ Len(Tail(queue)) = Len(queue) - 1
    BY <1>5, HeadAndTail DEF LddMissing
  <2> QED BY <1>5, <1>a, <2>1 DEF LddMissing
<1>6. CASE LddPush
  <2>1. Head(rest) \in Ref /\ Tail(rest) \in Seq(Ref)
    BY <1>6, HeadAndTail DEF LddPush, PushUpTo
  <2>2. Append(queue, Head(rest)) \in Seq(Ref) /\ Len(Append(queue, Head(rest))) = Len(queue) + 1
    BY <2>1
  <2> QED BY <1>6, <1>a, <2>1, <2>2 DEF LddPush, PushUpTo
<1>7. CASE LddAdd
  <2>1. [abs |-> TRUE, to |-> bin] \in Ref
    BY DEF Ref
  <2>2. Append(files, [abs |-> TRUE, to |-> bin]) \in Seq(Ref)
    BY <2>1
  <2> QED BY <1>7, <2>2 DEF LddAdd
<1>8. CASE LddLink
  <2>1. Readlink(bin) \in Ref /\ Readlink(bin).to \in Path
    BY <1>8, <1>a, NodesAreNodes DEF LddLink, IsLink
  <2>2. Append(files, Readlink(bin)) \in Seq(Ref) /\ known \cup {Readlink(bin)} \in SUBSET Ref
    BY <2>1
  <2>3. Root \o libdir \in Path
    BY RootAssumption, PathsMade
  <2>4. Root \o libdir \o Readlink(bin).to \in Path
    BY <2>1, <2>3, PathsMade
  <2>5. Clean(Root \o libdir \o Readlink(bin).to) \in Path
    BY <2>4, CleanIsPath
  <2> QED BY <1>8, <2>2, <2>5 DEF LddLink
<1>9. CASE LddNext
  BY <1>9 DEF LddNext
<1>10. CASE LddDone
  BY <1>10 DEF LddDone
<1> QED BY <1>1, <1>2, <1>3, <1>4, <1>5, <1>6, <1>7, <1>8, <1>9, <1>10 DEF LddStep

LEMMA Concatenated ==
  ASSUME NEW A, NEW s \in Seq(A), NEW t \in Seq(A)
  PROVE  s \o t \in Seq(A) /\ Range(s \o t) = Range(s) \cup Range(t)
<1>1. s \o t \in Seq(A)
  OBVIOUS
<1>2. IsSeq(s) /\ IsSeq(t)
  BY SeqIsSeq
<1> QED BY <1>1, <1>2, ConcatIsSeq

LEMMA RootedIsWalks ==
  ASSUME NEW r \in Ref
  PROVE  /\ Rooted(r) \in Seq(Path)
         /\ r.abs => Range(Rooted(r)) = {Root \o r.to}
<1>1. r.to \in Path
  BY DEF Ref
<1>2. Root \o r.to \in Path /\ <<"">> \o r.to \in Path
  <2>1. \A n \in Name : <<n>> \in Seq(Name)
    OBVIOUS
  <2>2. <<"">> \in Path
    BY <2>1 DEF Path, Name
  <2> QED BY <2>2, <1>1, RootAssumption, PathsMade
<1>3. \A p \in Path : <<p>> \in Seq(Path) /\ Range(<<p>>) = {p}
  <2> TAKE p \in Path
  <2>1. <<p>> \in Seq(Path) /\ Len(<<p>>) = 1 /\ <<p>>[1] = p
    OBVIOUS
  <2>2. Range(<<p>>) = {<<p>>[k] : k \in 1..1}
    BY <2>1, SeqIsSeq
  <2>3. 1..1 = {1}
    OBVIOUS
  <2> QED BY <2>1, <2>2, <2>3
<1>4. <<>> \in Seq(Path)
  BY EmptySeq
<1> QED BY <1>2, <1>3, <1>4 DEF Rooted

(* What the master says not to send is not walked, and the rest is.        *)
LEMMA WalksAreAll ==
  ASSUME NEW fs \in Seq(Ref)
  PROVE  /\ Walks(fs) \in Seq(Path)
         /\ \A k \in 1..Len(fs) :
              fs[k] \notin Except => Range(Rooted(fs[k])) \subseteq Range(Walks(fs))
<1> DEFINE n == Len(fs)
           part(i) == IF fs[i] \in Except THEN <<>> ELSE Rooted(fs[i])
           step == [i \in 1..n |-> [s \in Seq(Path) |-> s \o part(i)]]
           Has(f) == f = [i \in 0..n |-> IF i = 0 THEN <<>> ELSE f[i - 1] \o part(i)]
           upto == CHOOSE f : Has(f)
<1>1. n \in Nat /\ <<>> \in Seq(Path) /\ \A i \in 1..n : fs[i] \in Ref
  BY EmptySeq
<1>2. \A i \in 1..n : part(i) \in Seq(Path)
  BY <1>1, RootedIsWalks
<1>3. \A i \in 1..n : step[i] \in [Seq(Path) -> Seq(Path)]
  <2> HIDE DEF part
  <2> QED BY <1>2, Concatenated
<1>4. PICK g \in [0..n -> Seq(Path)] : Iterates(g, n, <<>>, step)
  <2> HIDE DEF step, n
  <2> QED BY <1>1, <1>3, IteratesWithin
<1>5. Has(g)
  <2>1. ASSUME NEW i \in 0..n, i # 0 PROVE step[i][g[i - 1]] = g[i - 1] \o part(i)
    <3>1. i \in 1..n /\ i - 1 \in 0..n
      BY <1>1, <2>1
    <3>2. g[i - 1] \in Seq(Path)
      BY <3>1, <1>4
    <3> HIDE DEF part
    <3> QED BY <3>1, <3>2
  <2> HIDE DEF step, part
  <2> QED BY <2>1, <1>4 DEF Iterates
<1>6. Has(upto)
  <2> HIDE DEF Has
  <2> QED BY <1>5
<1>7. upto[0] = <<>> /\ \A i \in 1..n : upto[i] = upto[i - 1] \o part(i)
  <2>1. 0 \in 0..n /\ \A i \in 1..n : i \in 0..n /\ i # 0
    BY <1>1
  <2>2. upto = [i \in 0..n |-> IF i = 0 THEN <<>> ELSE upto[i - 1] \o part(i)]
    BY <1>6
  <2> HIDE DEF upto, part, n
  <2> QED BY <2>1, <2>2
<1> HIDE DEF upto
<1>8. ASSUME NEW k \in 0..n PROVE upto[k] \in Seq(Path)
  <2>1. ASSUME NEW i \in Nat, 0 < i, i <= k, upto[i - 1] \in Seq(Path)
        PROVE  upto[i] \in Seq(Path)
    <3>1. i \in 1..n
      BY <1>1, <2>1
    <3>2. part(i) \in Seq(Path) /\ upto[i] = upto[i - 1] \o part(i)
      BY <3>1, <1>2, <1>7
    <3> HIDE DEF part
    <3> QED BY <3>2, <2>1, Concatenated
  <2>2. k \in Nat /\ 0 \in Nat /\ 0 <= k /\ upto[0] \in Seq(Path)
    BY <1>1, <1>7
  <2> QED BY <2>1, <2>2, Carried
<1>9. ASSUME NEW k \in 1..n, NEW x \in Range(part(k)) PROVE x \in Range(upto[n])
  <2> DEFINE S == {s \in Seq(Path) : x \in Range(s)}
  <2>1. ASSUME NEW i \in 1..n, upto[i - 1] \in S \/ x \in Range(part(i)) PROVE upto[i] \in S
    <3>1. i - 1 \in 0..n
      BY <1>1
    <3>2. upto[i - 1] \in Seq(Path) /\ part(i) \in Seq(Path)
      BY <3>1, <1>2, <1>8
    <3>3. upto[i] = upto[i - 1] \o part(i)
      BY <1>7
    <3> HIDE DEF part
    <3> QED BY <3>2, <3>3, <2>1, Concatenated
  <2>2. upto[k] \in S
    BY <2>1, <1>9
  <2>3. ASSUME NEW i \in Nat, k < i, i <= n, upto[i - 1] \in S PROVE upto[i] \in S
    <3>1. i \in 1..n
      BY <1>1, <2>3
    <3> QED BY <3>1, <2>1, <2>3
  <2>4. k \in Nat /\ k <= n
    BY <1>1
  <2>5. upto[n] \in S
    <3> HIDE DEF S, n
    <3> QED BY <1>1, <2>2, <2>3, <2>4, Carried
  <2> QED BY <2>5
<1>10. Walks(fs) = upto[n]
  BY DEF Walks, upto
<1>11. n \in 0..n
  BY <1>1
<1> QED BY <1>8, <1>9, <1>10, <1>11

LEMMA EntriesAreWalks ==
  ASSUME disk \in Disks, NEW p \in Path, Exists(p)
  PROVE  LET names == Lstat(p).entries
         IN  [i \in DOMAIN names |-> Walk(Clean(Append(p, names[i])))] \in Seq(Frame)
<1> DEFINE names == Lstat(p).entries
           A == Name
<1>1. names \in Seq(A)
  BY NodesAreNodes
<1>2. \A s \in A : Walk(Clean(Append(p, s))) \in Frame
  BY PathsMade, CleanIsPath DEF Walk, Frame
<1> HIDE DEF names, A
<1>3. Len(names) \in Nat /\ DOMAIN names = 1..Len(names) /\ \A i \in DOMAIN names : names[i] \in A
  BY <1>1
<1>4. \A i \in DOMAIN names : Walk(Clean(Append(p, names[i]))) \in Frame
  BY <1>2, <1>3
<1>5. [i \in DOMAIN names |-> Walk(Clean(Append(p, names[i])))] \in Seq(Frame)
  BY <1>3, <1>4
<1> QED BY <1>5 DEF names

(* Every step of the walks and of the search keeps the types.              *)
LEMMA PackTypes == TypeOK /\ [Next]_vars => TypeOK'
<1> SUFFICES ASSUME TypeOK, [Next]_vars PROVE TypeOK'
  OBVIOUS
<1>1. CASE UNCHANGED vars
  BY <1>1 DEF vars, lddVars, packVars, TypeOK, LddTypeOK
<1>2. ASSUME UNCHANGED <<disk, prog, lddVars>> PROVE LddTypeOK'
  BY <1>2 DEF lddVars, TypeOK, LddTypeOK
<1>3. /\ todo # <<>> => Head(todo) \in Path /\ Tail(todo) \in Seq(Path)
      /\ stack # <<>> => Head(stack) \in Frame /\ Tail(stack) \in Seq(Frame) /\ Top \in Path
  <2>1. stack # <<>> => Head(stack) \in Frame /\ Tail(stack) \in Seq(Frame)
    BY HeadAndTail DEF TypeOK
  <2> QED BY <2>1, HeadAndTail DEF TypeOK, Frame, Top
<1>4. \A p \in Path : /\ Walk(p) \in Frame /\ Mark(p) \in Frame
                      /\ Append(cmds, p) \in Seq(Path)
  BY DEF TypeOK, Frame, Walk, Mark
<1>5. CASE NextWalk
  <2>1. <<Walk(Head(todo))>> \in Seq(Frame) /\ Tail(todo) \in Seq(Path) /\ ppc \notin {"ldd", "done"}
    BY <1>3, <1>4, <1>5 DEF NextWalk
  <2> QED BY <1>2, <1>5, <2>1 DEF NextWalk, TypeOK, lddVars
<1>6. CASE WalkMissing \/ VisitAgain \/ LinkWalked
  <2>1. /\ UNCHANGED <<disk, prog, lddVars, localbin, ppc, todo, cmds>> /\ stack # <<>>
        /\ stack' = Tail(stack) /\ (visited' = visited \/ visited' = visited \cup {Top})
    BY <1>6 DEF WalkMissing, VisitAgain, LinkWalked, Doing
  <2> QED BY <1>2, <1>3, <2>1 DEF TypeOK, lddVars
<1>7. CASE VisitDir
  <2> DEFINE names == Lstat(Top).entries
             w == [i \in DOMAIN names |-> Walk(Clean(Append(Top, names[i])))]
  <2>1. /\ UNCHANGED <<disk, prog, lddVars, localbin, ppc, todo>> /\ stack # <<>>
        /\ cmds' = Append(cmds, Top) /\ visited' = visited \cup {Top} /\ Exists(Top)
        /\ stack' = IF Last(Top) = "." THEN Tail(stack) ELSE w \o Tail(stack)
    BY <1>7 DEF VisitDir, Doing
  <2>3. w \in Seq(Frame)
    BY <2>1, <1>3, EntriesAreWalks DEF TypeOK, LddTypeOK
  <2> HIDE DEF w
  <2>4. stack' \in Seq(Frame)
    BY <2>1, <2>3, <1>3
  <2> QED BY <1>2, <1>3, <1>4, <2>1, <2>4 DEF TypeOK, lddVars
<1>8. CASE VisitFile
  <2>1. /\ UNCHANGED <<disk, prog, lddVars, localbin, ppc, todo>> /\ stack # <<>>
        /\ cmds' = Append(cmds, Top) /\ visited' = visited \cup {Top} /\ stack' = Tail(stack)
    BY <1>8 DEF VisitFile, VisitFileMarking, Doing
  <2> QED BY <1>2, <1>3, <1>4, <2>1 DEF TypeOK, lddVars
<1>9. CASE VisitLink
  <2> DEFINE w == <<Walk(Resolve(Top)), Mark(Top)>>
  <2>1. /\ UNCHANGED <<disk, prog, lddVars, localbin, ppc, todo, visited>> /\ stack # <<>>
        /\ cmds' = Append(cmds, Top) /\ stack' = w \o Tail(stack) /\ IsLink(Top)
    BY <1>9 DEF VisitLink, Follow, Doing
  <2>2. Resolve(Top) \in Path
    BY <2>1, <1>3, LinksArePaths DEF TypeOK, LddTypeOK
  <2>3. w \in Seq(Frame)
    BY <2>1, <2>2, <1>3, <1>4
  <2> HIDE DEF w
  <2>4. stack' \in Seq(Frame)
    BY <2>1, <2>3, <1>3
  <2> QED BY <1>2, <1>3, <1>4, <2>1, <2>4 DEF TypeOK, lddVars
<1>10. CASE LddBegins
  BY <1>2, <1>10 DEF LddBegins, LddBeginsIf, TypeOK, lddVars
<1>11. CASE LddRuns
  <2>1. disk' = disk /\ prog' = prog /\ LddStep /\ ppc = "ldd" /\ UNCHANGED packVars
    BY <1>11 DEF LddRuns
  <2>2. LddTypeOK'
    BY <2>1, LddTypes DEF TypeOK
  <2> QED BY <2>1, <2>2 DEF TypeOK, packVars
<1>12. CASE LddEnds
  <2>1. /\ UNCHANGED <<disk, prog, lddVars, localbin, stack, visited, cmds>>
        /\ todo' = IF localbin THEN <<>> ELSE Walks(files)
        /\ ppc' = "libs" /\ lpc \in {"done", "failed"}
    BY <1>12 DEF LddEnds
  <2>2. todo' \in Seq(Path)
    BY <2>1, WalksAreAll, EmptySeq DEF TypeOK, LddTypeOK
  <2> QED BY <1>2, <2>1, <2>2 DEF TypeOK, lddVars
<1>13. CASE Packed
  BY <1>2, <1>13 DEF Packed, TypeOK, lddVars
<1> QED BY <1>1, <1>5, <1>6, <1>7, <1>8, <1>9, <1>10, <1>11, <1>12, <1>13 DEF Next

(* Whatever is on the disk, whatever flags are given, what is walked and   *)
(* packed are paths, the walks of one list have ended before the search    *)
(* begins, and the work list fits into its channel (startExecution,        *)
(* Lddroot).                                                               *)
THEOREM TypeCorrect == Spec => []TypeOK
<1>1. Init => TypeOK
  <2> SUFFICES ASSUME Init PROVE TypeOK
    OBVIOUS
  <2>1. LddTypeOK
    BY ProgramsAssumption, CapAssumption, EmptySeq DEF Init, LddInit, LddTypeOK, Path
  <2>2. \A along \in Alongs : << Append(Cwd, ".") >> \o along \in Seq(Path)
    <3> TAKE along \in Alongs
    <3>1. along \in Seq(Path) /\ Append(Cwd, ".") \in Path
      <4>1. "." \in Name
        BY DEF Name
      <4> QED BY <4>1, AlongsAssumption, CwdAssumption, PathsMade
    <3> QED BY <3>1
  <2> QED BY <2>1, <2>2, EmptySeq DEF Init, LddInit, TypeOK
<1> QED BY <1>1, PackTypes, PTL DEF Spec

(* Where a packed path leads is a path.                                    *)
LEMMA LeadsToPaths ==
  ASSUME TypeOK, NEW p \in Path, Exists(p), NEW q, Leads(p, q)
  PROVE  q \in Path
<1>1. disk \in Disks
  BY DEF TypeOK, LddTypeOK
<1>2. CASE IsLink(p) /\ q = Resolve(p)
  BY <1>1, <1>2, LinksArePaths
<1>3. CASE \E k \in DOMAIN Lstat(p).entries : q = Clean(Append(p, Lstat(p).entries[k]))
  <2>1. Lstat(p).entries \in Seq(Name)
    BY <1>1, NodesAreNodes
  <2>2. PICK k \in DOMAIN Lstat(p).entries : q = Clean(Append(p, Lstat(p).entries[k]))
    BY <1>3
  <2>3. Lstat(p).entries[k] \in Name
    BY <2>1, <2>2
  <2>4. Append(p, Lstat(p).entries[k]) \in Path
    BY <2>3, PathsMade
  <2> QED BY <2>2, <2>4, CleanIsPath
<1> QED BY <1>2, <1>3 DEF Leads

(* Nothing but what exists is packed.                                      *)
PackedExists == Range(cmds) \subseteq {p \in Path : Exists(p)}

LEMMA PackedThere == TypeOK /\ PackedExists /\ [Next]_vars => PackedExists'
<1> SUFFICES ASSUME TypeOK, PackedExists, [Next]_vars PROVE PackedExists'
  OBVIOUS
<1>1. disk' = disk /\ (cmds' = cmds \/ (cmds' = Append(cmds, Top) /\ Doing("walk") /\ Exists(Top)))
  BY DEF Next, vars, packVars, NextWalk, WalkMissing, VisitAgain, VisitDir, VisitFile,
         VisitFileMarking, VisitLink, Follow, LinkWalked, LddBegins, LddBeginsIf, LddRuns,
         LddEnds, Packed
<1>2. \A p : Exists(p)' <=> Exists(p)
  BY <1>1, DiskStays
<1>3. CASE cmds' = cmds
  BY <1>2, <1>3 DEF PackedExists
<1>4. CASE cmds' = Append(cmds, Top) /\ Doing("walk") /\ Exists(Top)
  <2>1. Top \in Path
    <3>1. Head(stack) \in Frame
      BY <1>4, HeadAndTail DEF TypeOK, Doing
    <3> QED BY <3>1 DEF Frame, Top
  <2>2. IsSeq(cmds)
    BY SeqIsSeq DEF TypeOK
  <2>3. Range(cmds') = Range(cmds) \cup {Top}
    BY <1>4, <2>2, AppendIsSeq
  <2> QED BY <1>2, <1>4, <2>1, <2>3 DEF PackedExists
<1> QED BY <1>1, <1>3, <1>4

(* To follow what is packed is enough: a set of packed links and           *)
(* directories is closed together with all that leads nowhere.             *)
LEMMA BackThroughThePacked ==
  ASSUME TypeOK, PackedExists, NEW l \in Range(cmds), ComesBack(l)
  PROVE  LeadsBack(l)
<1>1. IsLink(l) /\ l \in Onward /\ Leads(l, Resolve(l)) /\ Resolve(l) \in Path
  <2>1. IsLink(l) /\ l \in Path /\ Exists(l)
    BY DEF ComesBack, PackedExists
  <2>2. Leads(l, Resolve(l))
    BY <2>1 DEF Leads
  <2> QED BY <2>1, <2>2, LeadsToPaths DEF Onward, IsLink
<1>2. ASSUME NEW S \in SUBSET Onward,
             \A p \in S \cup {l}, q \in Onward : Leads(p, q) => q \in S
      PROVE  l \in S
  <2> DEFINE T == S \cup (Path \ Onward)
  <2>1. ASSUME NEW p \in T, p \in Range(cmds), NEW q, Leads(p, q) PROVE q \in T
    <3>1. q \in Path
      BY <2>1, LeadsToPaths DEF PackedExists
    <3>2. p \in Onward
      BY <2>1 DEF Leads, Onward, IsLink
    <3>3. p \in S
      BY <2>1, <3>2
    <3> QED BY <1>2, <2>1, <3>1, <3>3
  <2>2. Closed(T)
    BY <2>1 DEF Closed
  <2>3. Resolve(l) \in T
    BY <1>1, <1>2
  <2>4. l \in T
    BY <2>2, <2>3 DEF ComesBack
  <2> QED BY <2>4, <1>1
<1> QED BY <1>1, <1>2 DEF LeadsBack

(* On any disk files and directories are packed once, through however many *)
(* links, lists and walks they are met, and a link a second time only if   *)
(* what is packed leads back to it (packVisitor.VisitFile, which marks a   *)
(* link after the walk of its target).                                     *)
THEOREM TwiceOnlyInCircles == Spec => []PackedOnce
<1>1. PInv /\ TypeOK /\ PackedExists => PackedOnce
  <2> SUFFICES ASSUME PInv, TypeOK, PackedExists, NEW i \in DOMAIN cmds, NEW j \in DOMAIN cmds,
                      cmds[i] = cmds[j], i # j
               PROVE  LeadsBack(cmds[i])
    BY DEF PackedOnce
  <2>1. /\ Len(cmds) \in Nat /\ DOMAIN cmds = 1..Len(cmds)
        /\ Range(cmds) = {cmds[k] : k \in 1..Len(cmds)}
    BY SeqIsSeq DEF TypeOK
  <2>2. i < j \/ j < i
    BY <2>1
  <2>3. ComesBack(cmds[i])
    BY <2>1, <2>2 DEF PInv, OnlyCirclesTwice
  <2> QED BY <2>1, <2>3, BackThroughThePacked
<1>2. Init => PackedExists
  BY EmptyIsSeq DEF Init, PackedExists
<1>3. Spec => []PackedExists
  BY <1>2, PackedThere, TypeCorrect, PTL DEF Spec
<1> QED BY <1>1, <1>3, TypeCorrect, WalksInvariant, PTL
-----------------------------------------------------------------------------
(* What the search has found goes along.                                   *)

(* A path is packed, or it is going to be, or nothing is there.            *)
Reached(p) ==
  ~ Exists(p) \/ p \in Range(cmds) \/ p \in Range(todo) \/ Walk(p) \in Range(stack)

ListReached ==
  ppc \in {"libs", "done"} /\ lpc = "done" /\ ~ localbin =>
    \A f \in Range(files) : f.abs /\ f \notin Except => Reached(Root \o f.to)

(* The first frame is dealt with.                                          *)
LEMMA FrameDone ==
  ASSUME TypeOK, stack # <<>>, todo' = todo, disk' = disk,
         Range(Tail(stack)) \subseteq Range(stack'), Range(cmds) \subseteq Range(cmds'),
         Head(stack).do = "walk" => ~ Exists(Top) \/ Top \in Range(cmds'),
         NEW p, Reached(p)
  PROVE  Reached(p)'
<1>1. IsSeq(stack)
  BY SeqIsSeq DEF TypeOK
<1>2. Range(stack) = {Head(stack)} \cup Range(Tail(stack))
  BY <1>1, TailIsSeq
<1>3. Exists(p)' <=> Exists(p)
  BY DEF Exists
<1>4. CASE Walk(p) = Head(stack)
  <2>1. Head(stack).do = "walk" /\ Top = p
    BY <1>4 DEF Walk, Top
  <2> QED BY <2>1, <1>3 DEF Reached
<1>5. CASE Walk(p) # Head(stack)
  BY <1>2, <1>3, <1>5 DEF Reached, Walk
<1> QED BY <1>4, <1>5

LEMMA WalksGoOn ==
  ASSUME TypeOK, PInv, NEW p, Reached(p),
         NextWalk \/ WalkMissing \/ VisitAgain \/ VisitDir \/ VisitFile \/ VisitLink \/ LinkWalked
  PROVE  Reached(p)'
<1>1. /\ stack # <<>> => Top \in Path /\ Tail(stack) \in Seq(Frame)
      /\ Range(Append(cmds, Top)) = Range(cmds) \cup {Top}
  <2>1. stack # <<>> => Head(stack) \in Frame /\ Tail(stack) \in Seq(Frame)
    BY HeadAndTail DEF TypeOK
  <2>2. IsSeq(cmds)
    BY DEF PInv
  <2>3. Range(Append(cmds, Top)) = Range(cmds) \cup {Top}
    BY <2>2, AppendIsSeq
  <2> QED BY <2>1, <2>3 DEF Frame, Top
<1>2. CASE NextWalk
  <2>1. /\ disk' = disk /\ cmds' = cmds /\ stack = <<>> /\ todo # <<>>
        /\ stack' = <<Walk(Head(todo))>> /\ todo' = Tail(todo)
    BY <1>2 DEF NextWalk
  <2>2. Range(todo) = {Head(todo)} \cup Range(Tail(todo))
    <3>1. IsSeq(todo)
      BY SeqIsSeq DEF TypeOK
    <3> QED BY <2>1, <3>1, TailIsSeq
  <2>3. Walk(Head(todo)) \in Range(stack')
    <3> PICK f : f = Walk(Head(todo))
      OBVIOUS
    <3>1. <<f>> \in Seq({f}) /\ Len(<<f>>) = 1 /\ <<f>>[1] = f
      OBVIOUS
    <3>2. Range(<<f>>) = {<<f>>[k] : k \in 1..1}
      BY <3>1, SeqIsSeq
    <3> QED BY <2>1, <3>1, <3>2
  <2>4. Range(stack) = {}
    BY <2>1, EmptyIsSeq
  <2>5. Exists(p)' <=> Exists(p)
    BY <2>1 DEF Exists
  <2> QED BY <2>1, <2>2, <2>3, <2>4, <2>5 DEF Reached, Walk
<1>3. CASE WalkMissing \/ VisitAgain \/ LinkWalked
  <2>1. /\ disk' = disk /\ cmds' = cmds /\ todo' = todo /\ stack # <<>> /\ stack' = Tail(stack)
        /\ Head(stack).do = "walk" => ~ Exists(Top) \/ Top \in visited
    BY <1>3 DEF WalkMissing, VisitAgain, LinkWalked, Doing
  <2>2. visited \subseteq Range(cmds)
    BY DEF PInv, Marked
  <2> QED BY <2>1, <2>2, FrameDone
<1>4. CASE VisitDir
  <2> DEFINE names == Lstat(Top).entries
             w == [i \in DOMAIN names |-> Walk(Clean(Append(Top, names[i])))]
  <2>1. /\ disk' = disk /\ todo' = todo /\ stack # <<>> /\ cmds' = Append(cmds, Top) /\ Exists(Top)
        /\ stack' = IF Last(Top) = "." THEN Tail(stack) ELSE w \o Tail(stack)
    BY <1>4 DEF VisitDir, Doing
  <2>2. w \in Seq(Frame)
    BY <1>1, <2>1, EntriesAreWalks DEF TypeOK, LddTypeOK
  <2> HIDE DEF w
  <2>3. Range(Tail(stack)) \subseteq Range(stack')
    <3> DEFINE t == Tail(stack)
    <3>1. t \in Seq(Frame) /\ (stack' = t \/ stack' = w \o t)
      BY <1>1, <2>1
    <3> HIDE DEF t
    <3>2. Range(w \o t) = Range(w) \cup Range(t)
      BY <2>2, <3>1, Concatenated
    <3>3. Range(t) \subseteq Range(stack')
      BY <3>1, <3>2
    <3> QED BY <3>3 DEF t
  <2> QED BY <1>1, <2>1, <2>3, FrameDone
<1>5. CASE VisitFile
  <2>1. /\ disk' = disk /\ todo' = todo /\ stack # <<>> /\ cmds' = Append(cmds, Top)
        /\ stack' = Tail(stack)
    BY <1>5 DEF VisitFile, VisitFileMarking, Doing
  <2> QED BY <1>1, <2>1, FrameDone
<1>6. CASE VisitLink
  <2> DEFINE w == <<Walk(Resolve(Top)), Mark(Top)>>
  <2>1. /\ disk' = disk /\ todo' = todo /\ stack # <<>> /\ cmds' = Append(cmds, Top)
        /\ stack' = w \o Tail(stack) /\ IsLink(Top)
    BY <1>6 DEF VisitLink, Follow, Doing
  <2>2. Resolve(Top) \in Path
    BY <2>1, <1>1, LinksArePaths DEF TypeOK, LddTypeOK
  <2>3. w \in Seq(Frame)
    BY <1>1, <2>1, <2>2 DEF Walk, Mark, Frame
  <2> HIDE DEF w
  <2>4. Range(Tail(stack)) \subseteq Range(stack')
    <3> DEFINE t == Tail(stack)
    <3>1. t \in Seq(Frame) /\ (stack' = t \/ stack' = w \o t)
      BY <1>1, <2>1
    <3> HIDE DEF t
    <3>2. Range(w \o t) = Range(w) \cup Range(t)
      BY <2>3, <3>1, Concatenated
    <3>3. Range(t) \subseteq Range(stack')
      BY <3>1, <3>2
    <3> QED BY <3>3 DEF t
  <2> QED BY <1>1, <2>1, <2>4, FrameDone
<1> QED BY <1>2, <1>3, <1>4, <1>5, <1>6

LEMMA ReachedStep == TypeOK /\ PInv /\ ListReached /\ [Next]_vars => ListReached'
<1> SUFFICES ASSUME TypeOK, PInv, ListReached, [Next]_vars PROVE ListReached'
  OBVIOUS
<1>1. ASSUME UNCHANGED <<disk, lpc, files, localbin, todo, stack, cmds>>,
             ppc' \in {"libs", "done"} => ppc \in {"libs", "done"}
      PROVE  ListReached'
  BY <1>1 DEF ListReached, Reached, Exists, Walk
<1>2. CASE UNCHANGED vars
  BY <1>1, <1>2 DEF vars, lddVars, packVars
<1>3. CASE NextWalk \/ WalkMissing \/ VisitAgain \/ VisitDir \/ VisitFile \/ VisitLink \/ LinkWalked
  <2>1. ppc' = ppc /\ lpc' = lpc /\ localbin' = localbin /\ files' = files
    BY <1>3 DEF NextWalk, WalkMissing, VisitAgain, VisitDir, VisitFile, VisitFileMarking,
                VisitLink, Follow, LinkWalked, lddVars
  <2>2. \A p : Reached(p) => Reached(p)'
    BY <1>3, WalksGoOn
  <2> QED BY <2>1, <2>2 DEF ListReached
<1>4. CASE LddBegins \/ LddRuns
  BY <1>4 DEF LddBegins, LddBeginsIf, LddRuns, packVars, ListReached
<1>5. CASE LddEnds
  <2>1. /\ localbin' = localbin /\ files' = files
        /\ todo' = IF localbin THEN <<>> ELSE Walks(files)
    BY <1>5 DEF LddEnds, lddVars
  <2> SUFFICES ASSUME ~ localbin, NEW f \in Range(files), f.abs, f \notin Except
               PROVE  Root \o f.to \in Range(todo')
    BY <2>1 DEF ListReached, Reached
  <2>2. files \in Seq(Ref)
    BY DEF TypeOK, LddTypeOK
  <2>3. PICK k \in 1..Len(files) : f = files[k]
    BY <2>2, SeqIsSeq
  <2>4. Range(Rooted(f)) \subseteq Range(Walks(files))
    BY <2>2, <2>3, WalksAreAll
  <2>5. f \in Ref
    BY <2>2, <2>3
  <2>6. Range(Rooted(f)) = {Root \o f.to}
    BY <2>5, RootedIsWalks
  <2> QED BY <2>1, <2>4, <2>6
<1>6. CASE Packed
  BY <1>1, <1>6 DEF Packed, lddVars
<1> QED BY <1>2, <1>3, <1>4, <1>5, <1>6 DEF Next

(* Opening a file does not lead out of a set that has what its links lead  *)
(* to.                                                                     *)
LEMMA EndsWithin ==
  ASSUME disk \in Disks, NEW S \in SUBSET Path, \A q \in S : Behind[q] \in S, NEW p \in S
  PROVE  Ends(p) \in S
<1> DEFINE n == Cardinality(DOMAIN disk)
           step == [i \in 1..n |-> Behind]
           Has(f) == f = [i \in 0..n |-> IF i = 0 THEN p ELSE Behind[f[i - 1]]]
           follow == CHOOSE f : Has(f)
<1>1. n \in Nat
  BY FS_CardinalityType, DisksAssumption
<1> HIDE DEF n
<1>2. PICK g : Iterates(g, n, p, step)
  <2> HIDE DEF step
  <2> QED BY <1>1, IterationExists
<1>3. Has(g)
  <2>1. \A i \in 0..n : i # 0 => step[i] = Behind
    BY <1>1
  <2> HIDE DEF step
  <2> QED BY <2>1, <1>2 DEF Iterates
<1>4. Has(follow)
  <2> HIDE DEF Has
  <2> QED BY <1>3
<1>5. follow[0] = p /\ \A i \in 1..n : follow[i] = Behind[follow[i - 1]]
  <2>1. 0 \in 0..n /\ \A i \in 1..n : i \in 0..n /\ i # 0
    BY <1>1
  <2> HIDE DEF follow
  <2> QED BY <2>1, <1>4
<1> HIDE DEF follow
<1>6. ASSUME NEW i \in Nat, 0 < i, i <= n, follow[i - 1] \in S PROVE follow[i] \in S
  <2>1. i \in 1..n
    BY <1>1, <1>6
  <2> QED BY <2>1, <1>5, <1>6
<1>7. 0 \in Nat /\ 0 <= n /\ follow[0] \in S
  BY <1>1, <1>5
<1>8. follow[n] \in S
  BY <1>1, <1>6, <1>7, Carried
<1> QED BY <1>8 DEF Ends, follow, n

(* What the search knows when it has ended has all that is needed, as long *)
(* as no name that is needed is what a link reads.                         *)
LEMMA NeededIsKnown ==
  ASSUME disk \in Disks, lpc = "done", SearchComplete, \A r \in Needed(prog) : ~ LinkValue(r)
  PROVE  Needed(prog) \subseteq known
<1> DEFINE names == {prog} \cup UNION {Range(disk[p].needs) : p \in DOMAIN disk}
           Complete(S) == prog \in S /\ \A k \in S : Found(k) => Range(Imports(k)) \subseteq S
           N == {n \in names : \A S \in SUBSET names : Complete(S) => n \in S}
<1>1. Needed(prog) = N
  BY DEF Needed
<1>2. ASSUME NEW k \in N, Found(k) PROVE Range(Imports(k)) \subseteq N
  <2>1. \E p \in DOMAIN disk : Imports(k) = disk[p].needs
    BY <1>2, FoundFirst DEF Imports, Lstat, Exists
  <2>2. Range(Imports(k)) \subseteq names
    BY <2>1
  <2> QED BY <1>2, <2>2
<1>3. ASSUME NEW k \in N, k \in known, Found(k) PROVE Range(Imports(k)) \subseteq known
  BY <1>1, <1>3 DEF SearchComplete
<1>4. Complete(known \cap N)
  BY <1>2, <1>3 DEF SearchComplete
<1>5. known \cap N \in SUBSET names
  OBVIOUS
<1> HIDE DEF Complete, names
<1> QED BY <1>1, <1>4, <1>5

(* Nothing the program needs is kept back by the master, is found under    *)
(* another root, or has the name that some link on the disk reads.         *)
Plainly ==
  /\ Root = <<>>
  /\ \A r \in Needed(prog) :
       ~ LinkValue(r) /\ (Found(r) => [abs |-> TRUE, to |-> FileOf(r)] \notin Except)

(* Every library a program needs, directly or through others, goes along,  *)
(* and so does the file at the end of any links it is found behind, once   *)
(* the search has found them all (startExecution, Lddroot).                *)
THEOREM LibrariesGo == Spec => [](Plainly => LibrariesTravel)
<1>1. TypeOK /\ PInv /\ SearchComplete /\ ListReached => (Plainly => LibrariesTravel)
  <2> SUFFICES ASSUME TypeOK, PInv, SearchComplete, ListReached, Plainly,
                      ppc = "done", lpc = "done", ~ localbin, NEW r \in Needed(prog)
               PROVE  {FileOf(r), Ends(FileOf(r))} \subseteq Range(cmds)
    BY DEF LibrariesTravel
  <2> DEFINE f == FileOf(r)
             e == [abs |-> TRUE, to |-> f]
             S == {q \in Path : Exists(q) => q \in Range(cmds)}
  <2>1. disk \in Disks /\ known \in SUBSET Ref
    BY DEF TypeOK, LddTypeOK
  <2>2. ~ LinkValue(r) /\ r \in known
    BY <2>1, NeededIsKnown DEF Plainly
  <2>3. Found(r) /\ Listed(r) /\ r \in Ref /\ e \notin Except
    BY <2>1, <2>2 DEF SearchComplete, Plainly
  <2>4. f \in Path /\ Exists(Ends(f))
    BY <2>1, <2>3, FoundFirst, PlacesArePaths DEF FileOf
  <2>5. Range(todo) = {} /\ Range(stack) = {}
    BY EmptyIsSeq DEF TypeOK
  <2>6. f \in S
    <3>1. Root \o f = f
      BY <2>4, ConcatEmptySeq DEF Plainly, Path
    <3>2. e \in Range(files) /\ e.abs /\ e.to = f
      BY <2>3 DEF Listed
    <3>3. Reached(Root \o e.to)
      BY <2>3, <3>2 DEF ListReached
    <3> QED BY <2>4, <2>5, <3>1, <3>2, <3>3 DEF Reached
  <2>7. ASSUME NEW q \in S PROVE Behind[q] \in S
    <3>1. CASE ~ IsLink(q)
      BY <3>1 DEF Behind
    <3>2. CASE IsLink(q)
      <4>1. Resolve(q) \in Path /\ Behind[q] = Resolve(q)
        BY <2>1, <3>2, LinksArePaths DEF Behind
      <4>2. q \in Range(cmds)
        BY <3>2 DEF IsLink
      <4>3. LinksLead
        BY EmptyIsSeq DEF PInv, Waiting, LinksLead
      <4> QED BY <3>2, <4>1, <4>2, <4>3 DEF LinksLead
    <3> QED BY <3>1, <3>2
  <2>8. Ends(f) \in S
    <3> HIDE DEF f
    <3> QED BY <2>1, <2>6, <2>7, EndsWithin
  <2>9. Exists(f)
    <3> SUFFICES ASSUME ~ Exists(f) PROVE FALSE
      OBVIOUS
    <3>1. {f} \in SUBSET Path /\ \A q \in {f} : Behind[q] \in {f}
      BY <2>4 DEF Behind, IsLink
    <3>2. Ends(f) \in {f}
      <4> HIDE DEF f
      <4> QED BY <2>1, <3>1, EndsWithin
    <3> QED BY <2>4, <3>2
  <2> QED BY <2>4, <2>6, <2>8, <2>9
<1>2. Init => ListReached
  BY DEF Init, ListReached
<1>3. Spec => []ListReached
  BY <1>2, ReachedStep, TypeCorrect, WalksInvariant, PTL DEF Spec
<1> QED BY <1>1, <1>3, TypeCorrect, WalksInvariant, SearchIsComplete, PTL
=============================================================================
