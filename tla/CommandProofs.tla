--------------------------- MODULE CommandProofs ----------------------------
(***************************************************************************)
(* What the abstract promise amounts to: a finished command has nothing    *)
(* open anywhere, although Finish looks at the first level only.           *)
(***************************************************************************)
EXTENDS CommandSpec, TLAPS

LEMMA AbsTypeStep == Forest /\ TypeOK /\ [Next]_vars => TypeOK'
BY DEF Forest, TypeOK, vars, Next, Issue, Finish, Abandon, Delegate, DelegateUnseen, Retire

LEMMA RootedStep == Rooted /\ [Next]_vars => Rooted'
BY DEF Rooted, vars, Next, Issue, Finish, Abandon, Delegate, DelegateUnseen, Retire

LEMMA QuiescentStep ==
  Forest /\ TypeOK /\ Rooted /\ Quiescent /\ [Next]_vars => Quiescent'
<1> SUFFICES ASSUME Forest, TypeOK, Rooted, Quiescent, [Next]_vars PROVE Quiescent'
  OBVIOUS
<1>1. ASSUME NEW c \in Cmd, Finish(c) PROVE Quiescent'
  <2>1. Of(c) \cap open = {}
    <3> SUFFICES ASSUME NEW d \in open, d \in Delegation, Owner[d] = c PROVE FALSE
      BY DEF Of
    <3>1. PICK r \in Bosses[d] \cup {d} : r \in Delegation /\ Bosses[r] = {} /\ Owner[r] = c
      BY DEF Forest
    <3>2. r \in open
      BY <3>1 DEF Rooted
    <3> QED BY <1>1, <3>1, <3>2 DEF Finish, Roots, Of
  <2> QED BY <1>1, <2>1 DEF Finish, TypeOK, Quiescent, Of
<1>2. ASSUME NEW c \in Cmd, Issue(c) \/ Abandon(c) PROVE Quiescent'
  BY <1>2 DEF Issue, Abandon, TypeOK, Quiescent, Of
<1>3. ASSUME NEW d \in Delegation, Delegate(d) \/ DelegateUnseen(d) PROVE Quiescent'
  BY <1>3 DEF Delegate, DelegateUnseen, Quiescent, Of
<1>4. ASSUME NEW S \in SUBSET open, Retire(S) PROVE Quiescent'
  BY <1>4 DEF Retire, Quiescent, Of
<1>5. CASE UNCHANGED vars
  BY <1>5 DEF vars, Quiescent, Of
<1> QED BY <1>1, <1>2, <1>3, <1>4, <1>5 DEF Next

(* A command that finished has nothing open at any level of the tree.      *)
THEOREM FinishedIsQuiescent == Forest => (Spec => [](Rooted /\ Quiescent))
<1> SUFFICES ASSUME Forest PROVE Spec => [](Rooted /\ Quiescent)
  OBVIOUS
<1> DEFINE I == TypeOK /\ Rooted /\ Quiescent
<1>1. Init => I
  BY DEF Init, TypeOK, Rooted, Quiescent, Of
<1>2. I /\ [Next]_vars => I'
  BY AbsTypeStep, RootedStep, QuiescentStep
<1>3. I => Rooted /\ Quiescent
  OBVIOUS
<1> HIDE DEF I
<1> QED BY <1>1, <1>2, <1>3, PTL DEF Spec
=============================================================================
