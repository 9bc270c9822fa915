-------------------------- MODULE InheritCertProofs --------------------------
(***************************************************************************)
(* The semilattice laws of the Inherit-Cert CRDT, for every set of effect  *)
(* keys and of RunIDs: what verify_semilattice_laws tests on three states. *)
(***************************************************************************)
EXTENDS InheritCert, TLAPS

USE RunIDsAreOrdered

\* A state is a function from some of the effect keys to RunIDs.
LEMMA StateShape ==
  ASSUME NEW a
  PROVE  a \in InheritCertStates <=>
           /\ DOMAIN a \subseteq EffectKeys
           /\ a = [k \in DOMAIN a |-> a[k]]
           /\ \A k \in DOMAIN a : a[k] \in RunIDs /\ a[k] \in Nat
<1>1. ASSUME a \in InheritCertStates
      PROVE  /\ DOMAIN a \subseteq EffectKeys
             /\ a = [k \in DOMAIN a |-> a[k]]
             /\ \A k \in DOMAIN a : a[k] \in RunIDs /\ a[k] \in Nat
  <2>1. PICK keys \in SUBSET EffectKeys : a \in [keys -> RunIDs]
    BY <1>1 DEF InheritCertStates
  <2>2. QED
    BY <2>1
<1>2. ASSUME DOMAIN a \subseteq EffectKeys,
             a = [k \in DOMAIN a |-> a[k]],
             \A k \in DOMAIN a : a[k] \in RunIDs
      PROVE  a \in InheritCertStates
  <2>1. a \in [DOMAIN a -> RunIDs]
    BY <1>2
  <2>2. QED
    BY <1>2, <2>1 DEF InheritCertStates
<1>3. QED
  BY <1>1, <1>2

\* The empty state is a state, and below every state.
LEMMA NewStateIsBottom ==
  /\ NewState \in InheritCertStates
  /\ \A a \in InheritCertStates : Leq(NewState, a)
<1>1. NewState \in InheritCertStates
  BY StateShape DEF NewState
<1>2. QED
  BY <1>1 DEF Leq, NewState

\* A proposal yields a state.
LEMMA ProposeType ==
  ASSUME NEW a \in InheritCertStates, NEW key \in EffectKeys, NEW r \in RunIDs
  PROVE  Propose(a, key, r) \in InheritCertStates
<1>1. \A k \in DOMAIN Propose(a, key, r) : Propose(a, key, r)[k] \in RunIDs
  BY StateShape DEF Propose, RegMerge
<1>2. DOMAIN Propose(a, key, r) \subseteq EffectKeys
  BY StateShape DEF Propose
<1>3. Propose(a, key, r) = [k \in DOMAIN Propose(a, key, r) |-> Propose(a, key, r)[k]]
  BY DEF Propose
<1>4. QED
  BY <1>1, <1>2, <1>3, StateShape

\* A merge yields a state.
LEMMA MergeType ==
  ASSUME NEW a \in InheritCertStates, NEW b \in InheritCertStates
  PROVE  Merge(a, b) \in InheritCertStates
<1>1. \A k \in DOMAIN Merge(a, b) : Merge(a, b)[k] \in RunIDs
  BY StateShape DEF Merge, RegMerge
<1>2. DOMAIN Merge(a, b) \subseteq EffectKeys
  BY StateShape DEF Merge
<1>3. Merge(a, b) = [k \in DOMAIN Merge(a, b) |-> Merge(a, b)[k]]
  BY DEF Merge
<1>4. QED
  BY <1>1, <1>2, <1>3, StateShape

\* Two states with the same keys and the same RunIDs are equal.
LEMMA StateExt ==
  ASSUME NEW a \in InheritCertStates, NEW b \in InheritCertStates,
         DOMAIN a = DOMAIN b, \A k \in DOMAIN a : a[k] = b[k]
  PROVE  a = b
BY StateShape

-----------------------------------------------------------------------------

\* Law 1: merging a state with itself changes nothing.
THEOREM MergeIdempotent ==
  ASSUME NEW a \in InheritCertStates
  PROVE  Merge(a, a) = a
<1>1. \A k \in DOMAIN a : Merge(a, a)[k] = a[k]
  BY StateShape DEF Merge, RegMerge
<1>2. DOMAIN Merge(a, a) = DOMAIN a
  BY DEF Merge
<1>3. QED
  BY <1>1, <1>2, MergeType, StateExt

\* Law 2: the order of the two states does not matter.
THEOREM MergeCommutative ==
  ASSUME NEW a \in InheritCertStates, NEW b \in InheritCertStates
  PROVE  Merge(a, b) = Merge(b, a)
<1>1. DOMAIN Merge(a, b) = DOMAIN Merge(b, a)
  BY DEF Merge
<1>2. \A k \in DOMAIN Merge(a, b) : Merge(a, b)[k] = Merge(b, a)[k]
  BY StateShape DEF Merge, RegMerge
<1>3. QED
  BY <1>1, <1>2, MergeType, StateExt

\* Law 3: the grouping of three merges does not matter.
THEOREM MergeAssociative ==
  ASSUME NEW a \in InheritCertStates, NEW b \in InheritCertStates,
         NEW c \in InheritCertStates
  PROVE  Merge(Merge(a, b), c) = Merge(a, Merge(b, c))
<1> DEFINE left  == Merge(Merge(a, b), c)
           right == Merge(a, Merge(b, c))
<1>1. left \in InheritCertStates /\ right \in InheritCertStates
  BY MergeType
<1>2. DOMAIN left = DOMAIN right
  BY DEF Merge
<1>3. \A k \in DOMAIN left : left[k] = right[k]
  BY StateShape DEF Merge, RegMerge
<1>4. QED
  BY <1>1, <1>2, <1>3, StateExt

\* Leq is the order of the semilattice: a is below b exactly when merging a
\* into b changes nothing, as the comment on leq says.
THEOREM LeqIsMergeOrder ==
  ASSUME NEW a \in InheritCertStates, NEW b \in InheritCertStates
  PROVE  Leq(a, b) <=> Merge(a, b) = b
<1>1. ASSUME Leq(a, b) PROVE Merge(a, b) = b
  <2>1. DOMAIN Merge(a, b) = DOMAIN b
    BY <1>1 DEF Leq, Merge
  <2>2. \A k \in DOMAIN b : Merge(a, b)[k] = b[k]
    BY <1>1, StateShape DEF Leq, RegLeq, Merge, RegMerge
  <2>3. QED
    BY <2>1, <2>2, MergeType, StateExt
<1>2. ASSUME Merge(a, b) = b PROVE Leq(a, b)
  <2>1. DOMAIN a \subseteq DOMAIN b
    BY <1>2 DEF Merge
  <2>2. \A k \in DOMAIN a : b[k] = RegMerge(a[k], b[k])
    BY <1>2, <2>1 DEF Merge
  <2>3. \A k \in DOMAIN a : RegLeq(a[k], b[k])
    BY <2>1, <2>2, StateShape DEF RegMerge, RegLeq
  <2>4. QED
    BY <2>1, <2>3 DEF Leq
<1>3. QED
  BY <1>1, <1>2

\* The order is a partial order.
THEOREM LeqPartialOrder ==
  /\ \A a \in InheritCertStates : Leq(a, a)
  /\ \A a, b \in InheritCertStates : Leq(a, b) /\ Leq(b, a) => a = b
  /\ \A a, b, c \in InheritCertStates : Leq(a, b) /\ Leq(b, c) => Leq(a, c)
<1>1. \A a \in InheritCertStates : Leq(a, a)
  BY StateShape DEF Leq, RegLeq
<1>2. ASSUME NEW a \in InheritCertStates, NEW b \in InheritCertStates,
             Leq(a, b), Leq(b, a)
      PROVE  a = b
  BY <1>2, StateShape, StateExt DEF Leq, RegLeq
<1>3. ASSUME NEW a \in InheritCertStates, NEW b \in InheritCertStates,
             NEW c \in InheritCertStates, Leq(a, b), Leq(b, c)
      PROVE  Leq(a, c)
  BY <1>3, StateShape DEF Leq, RegLeq
<1>4. QED
  BY <1>1, <1>2, <1>3

\* Law 4, and more: a merge is the least upper bound of its two arguments.
THEOREM MergeLeastUpperBound ==
  ASSUME NEW a \in InheritCertStates, NEW b \in InheritCertStates
  PROVE  /\ Leq(a, Merge(a, b))
         /\ Leq(b, Merge(a, b))
         /\ \A c \in InheritCertStates : Leq(a, c) /\ Leq(b, c) => Leq(Merge(a, b), c)
<1>1. Leq(a, Merge(a, b)) /\ Leq(b, Merge(a, b))
  BY StateShape DEF Leq, RegLeq, Merge, RegMerge
<1>2. ASSUME NEW c \in InheritCertStates, Leq(a, c), Leq(b, c)
      PROVE  Leq(Merge(a, b), c)
  BY <1>2, StateShape DEF Leq, RegLeq, Merge, RegMerge
<1>3. QED
  BY <1>1, <1>2

\* A proposal never moves a state down.
THEOREM ProposeInflationary ==
  ASSUME NEW a \in InheritCertStates, NEW key \in EffectKeys, NEW r \in RunIDs
  PROVE  Leq(a, Propose(a, key, r))
BY StateShape DEF Leq, RegLeq, Propose, RegMerge

\* Sending the delta is as good as sending the whole state: what
\* test_delta_sync tests on one pair of states.
THEOREM DeltaSync ==
  ASSUME NEW a \in InheritCertStates, NEW b \in InheritCertStates
  PROVE  DeltaApply(DeltaCompute(a, b), a) = Merge(a, b)
<1> DEFINE delta == DeltaCompute(a, b)
           synced == DeltaApply(delta, a)
<1>1. DOMAIN synced = DOMAIN Merge(a, b)
  BY DEF DeltaApply, DeltaCompute, Merge
<1>2. \A k \in DOMAIN synced : synced[k] = Merge(a, b)[k]
  BY StateShape DEF DeltaApply, DeltaCompute, Propose, Merge, RegMerge
<1>3. synced = [k \in DOMAIN synced |-> synced[k]]
  BY DEF DeltaApply
<1>4. synced \in InheritCertStates
  BY <1>1, <1>2, <1>3, MergeType, StateShape
<1>5. QED
  BY <1>1, <1>2, <1>4, MergeType, StateExt

=============================================================================
