------------------------- MODULE CertReplicasProofs --------------------------
(***************************************************************************)
(* CertReplicas for every set of registries, effects and RunIDs: type      *)
(* correctness, "every registry holds the minimum of what reached it",     *)
(* and from it the convergence guarantee of the CRDT.                      *)
(***************************************************************************)
EXTENDS CertReplicas, InheritCertProofs, FiniteSetTheorems

USE EffectKeysFinite

\* What the prover needs to know of an exported state document.
LEMMA StateDocShape ==
  ASSUME NEW doc \in StateDocs
  PROVE  /\ doc.from \in Replicas
         /\ doc.heard \in SUBSET Proposals
         /\ doc.json.certs \in InheritCertStates
         /\ ~IsDelta(doc)
         /\ FromJson(doc.json) = doc.json.certs
<1>1. doc.from \in Replicas /\ doc.heard \in SUBSET Proposals
  BY DEF StateDocs
<1>2. PICK c \in InheritCertStates : doc.json = ToJson(c)
  BY DEF StateDocs
<1>3. doc.json.certs = c /\ doc.json.kind = StateKind
  BY <1>2 DEF ToJson
<1>4. ~IsDelta(doc)
  BY <1>3 DEF IsDelta, StateKind, DeltaKind
<1>5. FromJson(doc.json) = c
  BY <1>3, StateShape DEF FromJson
<1>6. QED
  BY <1>1, <1>3, <1>4, <1>5

\* What the prover needs to know of a delta document.
LEMMA DeltaDocShape ==
  ASSUME NEW doc \in DeltaDocs
  PROVE  /\ doc.to \in Replicas
         /\ doc.heard \in SUBSET Proposals
         /\ doc.json.updates \in InheritCertStates
         /\ IsDelta(doc)
         /\ ~WellFormed(doc.json)
<1>1. doc.to \in Replicas /\ doc.heard \in SUBSET Proposals
  BY DEF DeltaDocs
<1>2. PICK c \in InheritCertStates : doc.json = DeltaToJson(c)
  BY DEF DeltaDocs
<1>3. doc.json.updates = c /\ doc.json.kind = DeltaKind /\ "certs" \notin DOMAIN doc.json
  BY <1>2 DEF DeltaToJson
<1>4. QED
  BY <1>1, <1>3 DEF IsDelta, WellFormed

\* Applying a delta is merging it, when it is seen as a map.
LEMMA DeltaApplyIsMerge ==
  ASSUME NEW a \in InheritCertStates, NEW d \in InheritCertStates
  PROVE  DeltaApply(d, a) = Merge(a, d)
<1>1. DOMAIN DeltaApply(d, a) = DOMAIN Merge(a, d)
  BY DEF DeltaApply, Merge
<1>2. \A k \in DOMAIN Merge(a, d) : DeltaApply(d, a)[k] = Merge(a, d)[k]
  BY StateShape DEF DeltaApply, Propose, Merge, RegMerge
<1>3. DeltaApply(d, a) = [k \in DOMAIN DeltaApply(d, a) |-> DeltaApply(d, a)[k]]
  BY DEF DeltaApply
<1>4. Merge(a, d) = [k \in DOMAIN Merge(a, d) |-> Merge(a, d)[k]]
  BY DEF Merge
<1>5. QED
  BY <1>1, <1>2, <1>3, <1>4

\* A delta is a map of the same kind.
LEMMA DeltaComputeType ==
  ASSUME NEW a \in InheritCertStates, NEW b \in InheritCertStates
  PROVE  DeltaCompute(a, b) \in InheritCertStates
<1>1. DOMAIN DeltaCompute(a, b) \subseteq DOMAIN b
  BY DEF DeltaCompute
<1>2. \A k \in DOMAIN DeltaCompute(a, b) : DeltaCompute(a, b)[k] = b[k]
  BY DEF DeltaCompute
<1>3. DeltaCompute(a, b) = [k \in DOMAIN DeltaCompute(a, b) |-> DeltaCompute(a, b)[k]]
  BY DEF DeltaCompute
<1>4. QED
  BY <1>1, <1>2, <1>3, StateShape

\* A delta computed for an old map of a replica serves its present map too.
LEMMA StaleDelta ==
  ASSUME NEW old \in InheritCertStates, NEW now \in InheritCertStates,
         NEW b \in InheritCertStates, Leq(old, now)
  PROVE  Merge(now, DeltaCompute(old, b)) = Merge(now, b)
<1> DEFINE d == DeltaCompute(old, b)
<1>1. d \in InheritCertStates
  BY DeltaComputeType
<1>2. DOMAIN Merge(now, d) = DOMAIN Merge(now, b)
  BY DEF Merge, DeltaCompute, Leq
<1>3. \A k \in DOMAIN Merge(now, b) : Merge(now, d)[k] = Merge(now, b)[k]
  BY StateShape DEF Merge, RegMerge, DeltaCompute, Leq, RegLeq
<1>4. QED
  BY <1>1, <1>2, <1>3, MergeType, StateExt

-----------------------------------------------------------------------------

\* Merging canonical maps gives the canonical map of both histories.
LEMMA MergeCanonical ==
  ASSUME NEW a \in InheritCertStates, NEW b \in InheritCertStates,
         NEW H \in SUBSET Proposals, NEW G \in SUBSET Proposals,
         CanonicalFor(a, H), CanonicalFor(b, G)
  PROVE  CanonicalFor(Merge(a, b), H \union G)
<1> DEFINE m == Merge(a, b)
<1>1. DOMAIN m = {p[1] : p \in H \union G}
  BY DEF CanonicalFor, Merge
<1>2. \A k \in DOMAIN m : <<k, m[k]>> \in H \union G
  BY DEF CanonicalFor, Merge, RegMerge
<1>3. ASSUME NEW p \in H \union G PROVE m[p[1]] <= p[2]
  <2>1. p[2] \in Nat
    BY RunIDsAreOrdered DEF Proposals
  <2>2. CASE p \in H
    BY <2>1, <2>2, StateShape DEF CanonicalFor, Merge, RegMerge
  <2>3. CASE p \in G
    BY <2>1, <2>3, StateShape DEF CanonicalFor, Merge, RegMerge
  <2>4. QED
    BY <2>2, <2>3
<1>4. QED
  BY <1>1, <1>2, <1>3 DEF CanonicalFor

\* A single proposal is the canonical map of itself, and proposing merges it.
LEMMA ProposeIsMerge ==
  ASSUME NEW a \in InheritCertStates, NEW key \in EffectKeys, NEW r \in RunIDs
  PROVE  LET one == [k \in {key} |-> r]
         IN /\ one \in InheritCertStates
            /\ CanonicalFor(one, {<<key, r>>})
            /\ Propose(a, key, r) = Merge(a, one)
<1> DEFINE one == [k \in {key} |-> r]
<1>0. one \in [{key} -> RunIDs] /\ DOMAIN one = {key} /\ one[key] = r /\ r \in Nat
  BY RunIDsAreOrdered
<1>1. one \in InheritCertStates
  BY <1>0 DEF InheritCertStates
<1>2. CanonicalFor(one, {<<key, r>>})
  <2>1. DOMAIN one = {p[1] : p \in {<<key, r>>}}
    BY <1>0
  <2>2. \A k \in DOMAIN one : <<k, one[k]>> \in {<<key, r>>}
    BY <1>0
  <2>3. \A p \in {<<key, r>>} : one[p[1]] <= p[2]
    BY <1>0
  <2>4. QED
    BY <2>1, <2>2, <2>3 DEF CanonicalFor
<1>3. DOMAIN Propose(a, key, r) = DOMAIN Merge(a, one)
  BY DEF Propose, Merge
<1>4. \A k \in DOMAIN Merge(a, one) : Propose(a, key, r)[k] = Merge(a, one)[k]
  BY StateShape DEF Propose, Merge, RegMerge
<1>5. Propose(a, key, r) = Merge(a, one)
  BY <1>1, <1>3, <1>4, ProposeType, MergeType, StateExt
<1>6. QED
  BY <1>1, <1>2, <1>5

\* The canonical map of a history is unique.
LEMMA CanonicalUnique ==
  ASSUME NEW a \in InheritCertStates, NEW b \in InheritCertStates,
         NEW H \in SUBSET Proposals, CanonicalFor(a, H), CanonicalFor(b, H)
  PROVE  a = b
<1>1. DOMAIN a = DOMAIN b
  BY DEF CanonicalFor
<1>2. ASSUME NEW k \in DOMAIN a PROVE a[k] = b[k]
  <2>1. <<k, a[k]>> \in H /\ <<k, b[k]>> \in H
    BY <1>1 DEF CanonicalFor
  <2>2. b[k] <= a[k] /\ a[k] <= b[k]
    BY <2>1 DEF CanonicalFor
  <2>3. QED
    BY <1>1, <2>2, StateShape
<1>3. QED
  BY <1>1, <1>2, StateExt

\* Two merges into the same map can be done in either order.
LEMMA MergeDiamond ==
  ASSUME NEW c \in InheritCertStates, NEW m \in InheritCertStates,
         NEW u \in InheritCertStates
  PROVE  Merge(Merge(c, m), u) = Merge(Merge(c, m), Merge(c, u))
<1> DEFINE left  == Merge(Merge(c, m), u)
           right == Merge(Merge(c, m), Merge(c, u))
<1>1. left \in InheritCertStates /\ right \in InheritCertStates
  BY MergeType
<1>2. DOMAIN left = DOMAIN right
  BY DEF Merge
<1>3. \A k \in DOMAIN left : left[k] = right[k]
  BY StateShape DEF Merge, RegMerge
<1>4. QED
  BY <1>1, <1>2, <1>3, StateExt

-----------------------------------------------------------------------------

\* Initially no registry holds or has heard anything.
LEMMA InitInd == Init => IndInv
<1> SUFFICES ASSUME Init PROVE IndInv
  OBVIOUS
<1> USE DEF Init
<1>1. TypeOK
  BY NewStateIsBottom DEF TypeOK
<1>2. HoldsMinimumOfHeard
  BY DEF HoldsMinimumOfHeard, CanonicalFor, NewState
<1>3. ExportsAreLowerBounds /\ StaleDeltaSuffices
  BY DEF ExportsAreLowerBounds, StaleDeltaSuffices
<1>4. QED
  BY <1>1, <1>2, <1>3 DEF IndInv

\* The steps that join something into one registry's map and export nothing.
LEMMA JoinStep ==
  ASSUME IndInv,
         NEW r \in Replicas, NEW m \in InheritCertStates, NEW G \in SUBSET Proposals,
         CanonicalFor(Merge(certs[r], m), heard[r] \union G),
         certs' = [certs EXCEPT ![r] = Merge(certs[r], m)],
         heard' = [heard EXCEPT ![r] = heard[r] \union G],
         docs' = docs,
         count' \in [applied : Nat, changed : Nat]
  PROVE  /\ IndInv'
         /\ \A q \in Replicas : Leq(certs[q], certs'[q])
<1>1. /\ certs \in [Replicas -> InheritCertStates]
      /\ heard \in [Replicas -> SUBSET Proposals]
      /\ docs \subseteq StateDocs \union DeltaDocs
  BY DEF IndInv, TypeOK
<1>2. Merge(certs[r], m) \in InheritCertStates
  BY <1>1, MergeType
<1>3. TypeOK'
  BY <1>1, <1>2 DEF TypeOK
<1>4. \A q \in Replicas : Leq(certs[q], certs'[q])
  BY <1>1, MergeLeastUpperBound, LeqPartialOrder
<1>5. HoldsMinimumOfHeard'
  BY <1>1 DEF HoldsMinimumOfHeard, IndInv
<1>6. ExportsAreLowerBounds'
  <2> SUFFICES ASSUME NEW doc \in docs, ~IsDelta(doc)
               PROVE  /\ CanonicalFor(doc.json.certs, doc.heard)
                      /\ Leq(doc.json.certs, certs'[doc.from])
    BY DEF ExportsAreLowerBounds, IsDelta
  <2>1. doc \in StateDocs
    BY <1>1, DeltaDocShape
  <2>2. CanonicalFor(doc.json.certs, doc.heard) /\ Leq(doc.json.certs, certs[doc.from])
    BY DEF IndInv, ExportsAreLowerBounds
  <2>3. doc.from \in Replicas /\ doc.json.certs \in InheritCertStates
    BY <2>1, StateDocShape
  <2>4. QED
    BY <1>1, <1>3, <1>4, <2>2, <2>3, LeqPartialOrder DEF TypeOK
<1>7. StaleDeltaSuffices'
  <2> SUFFICES ASSUME NEW doc \in docs, IsDelta(doc)
               PROVE  CanonicalFor(DeltaApply(doc.json.updates, certs'[doc.to]),
                                   heard'[doc.to] \union doc.heard)
    BY DEF StaleDeltaSuffices, IsDelta
  <2> DEFINE u == doc.json.updates
  <2>1. doc \in DeltaDocs
    BY <1>1, StateDocShape
  <2>2. doc.to \in Replicas /\ doc.heard \in SUBSET Proposals /\ u \in InheritCertStates
    BY <2>1, DeltaDocShape
  <2>3. CanonicalFor(DeltaApply(u, certs[doc.to]), heard[doc.to] \union doc.heard)
    BY DEF IndInv, StaleDeltaSuffices
  <2>4. CASE doc.to # r
    BY <1>1, <2>2, <2>3, <2>4
  <2>5. CASE doc.to = r
    <3>1. DeltaApply(u, certs[r]) = Merge(certs[r], u)
      BY <1>1, <2>2, DeltaApplyIsMerge
    <3>2. DeltaApply(u, certs'[r]) = Merge(Merge(certs[r], m), u)
      BY <1>1, <1>2, <2>2, DeltaApplyIsMerge
    <3>3. @ = Merge(Merge(certs[r], m), Merge(certs[r], u))
      BY <1>1, <2>2, MergeDiamond
    <3>4. CanonicalFor(Merge(certs[r], u), heard[r] \union doc.heard)
      BY <2>3, <2>5, <3>1
    <3>5. CanonicalFor(Merge(Merge(certs[r], m), Merge(certs[r], u)),
                       (heard[r] \union G) \union (heard[r] \union doc.heard))
      BY <1>1, <1>2, <2>2, <3>4, MergeType, MergeCanonical
    <3>6. heard'[r] \union doc.heard = (heard[r] \union G) \union (heard[r] \union doc.heard)
      BY <1>1
    <3>7. QED
      BY <2>5, <3>2, <3>3, <3>5, <3>6
  <2>6. QED
    BY <2>4, <2>5
<1>8. QED
  BY <1>3, <1>4, <1>5, <1>6, <1>7 DEF IndInv

\* The numbers crdt_merge_delta computes are numbers.
LEMMA CountType ==
  ASSUME NEW a \in InheritCertStates, NEW d \in InheritCertStates,
         NEW b \in InheritCertStates
  PROVE  /\ UpdatesApplied(a, d, b) \in Nat
         /\ Cardinality(Changed(a, b)) \in Nat
<1> DEFINE added == DOMAIN b \ DOMAIN a
           held  == {k \in DOMAIN d : \E j \in DOMAIN d : b[j] = d[k]}
<1>1. added \subseteq EffectKeys /\ held \subseteq EffectKeys
      /\ Changed(a, b) \subseteq EffectKeys
  BY StateShape DEF Changed
<1>2. Cardinality(added) \in Nat /\ Cardinality(held) \in Nat
      /\ Cardinality(Changed(a, b)) \in Nat
  BY <1>1, FS_Subset, FS_CardinalityType
<1>3. QED
  BY <1>2 DEF UpdatesApplied

\* The steps that only change the set of documents.
LEMMA DocsStep ==
  ASSUME IndInv, UNCHANGED <<certs, heard, count>>,
         \A doc \in docs' \ docs :
           \/ /\ doc \in StateDocs
              /\ CanonicalFor(doc.json.certs, doc.heard)
              /\ Leq(doc.json.certs, certs[doc.from])
           \/ /\ doc \in DeltaDocs
              /\ CanonicalFor(DeltaApply(doc.json.updates, certs[doc.to]),
                              heard[doc.to] \union doc.heard)
  PROVE  /\ IndInv'
         /\ \A q \in Replicas : Leq(certs[q], certs'[q])
<1>1. TypeOK'
  BY DEF TypeOK, IndInv
<1>2. HoldsMinimumOfHeard'
  BY DEF HoldsMinimumOfHeard, IndInv
<1>3. ExportsAreLowerBounds'
  BY DeltaDocShape DEF ExportsAreLowerBounds, IndInv, IsDelta
<1>4. StaleDeltaSuffices'
  BY StateDocShape DEF StaleDeltaSuffices, IndInv, IsDelta
<1>5. \A q \in Replicas : Leq(certs[q], certs'[q])
  BY LeqPartialOrder DEF IndInv, TypeOK
<1>6. QED
  BY <1>1, <1>2, <1>3, <1>4, <1>5 DEF IndInv

\* Every step preserves the invariant, and moves no registry down.
LEMMA NextInd ==
  ASSUME IndInv, [Next]_vars
  PROVE  /\ IndInv'
         /\ \A q \in Replicas : Leq(certs[q], certs'[q])
<1>0. /\ certs \in [Replicas -> InheritCertStates]
      /\ heard \in [Replicas -> SUBSET Proposals]
      /\ docs \subseteq StateDocs \union DeltaDocs
      /\ count \in [applied : Nat, changed : Nat]
  BY DEF IndInv, TypeOK
<1>1. ASSUME NEW r \in Replicas, NEW key \in EffectKeys,
             NEW runId \in RunIDs \union {Malformed}, CrdtPropose(r, key, runId)
      PROVE  IndInv' /\ \A q \in Replicas : Leq(certs[q], certs'[q])
  <2>0. runId \in RunIDs
    BY <1>1 DEF CrdtPropose, IsValid
  <2> DEFINE one == [k \in {key} |-> runId]
             G   == {<<key, runId>>}
  <2>1. /\ one \in InheritCertStates
        /\ CanonicalFor(one, G)
        /\ Propose(certs[r], key, runId) = Merge(certs[r], one)
    BY <1>0, <2>0, ProposeIsMerge
  <2>2. G \in SUBSET Proposals
    BY <2>0 DEF Proposals
  <2>3. CanonicalFor(Merge(certs[r], one), heard[r] \union G)
    BY <1>0, <2>1, <2>2, MergeCanonical DEF IndInv, HoldsMinimumOfHeard
  <2>4. /\ certs' = [certs EXCEPT ![r] = Merge(certs[r], one)]
        /\ heard' = [heard EXCEPT ![r] = heard[r] \union G]
        /\ docs' = docs /\ count' \in [applied : Nat, changed : Nat]
    BY <1>0, <1>1, <2>1 DEF CrdtPropose
  <2> HIDE DEF one, G
  <2>5. QED
    BY <2>1, <2>2, <2>3, <2>4, JoinStep
<1>2. ASSUME NEW r \in Replicas, CrdtState(r)
      PROVE  IndInv' /\ \A q \in Replicas : Leq(certs[q], certs'[q])
  <2> DEFINE doc == [json |-> ToJson(certs[r]), from |-> r, heard |-> heard[r]]
  <2>1. doc \in StateDocs
    BY <1>0 DEF StateDocs
  <2>2. doc.json.certs = certs[r] /\ doc.heard = heard[r] /\ doc.from = r
    BY DEF ToJson
  <2>3. CanonicalFor(certs[r], heard[r]) /\ Leq(certs[r], certs[r])
    BY <1>0, LeqPartialOrder DEF IndInv, HoldsMinimumOfHeard
  <2>4. docs' = docs \union {doc} /\ UNCHANGED <<certs, heard, count>>
    BY <1>2 DEF CrdtState
  <2> HIDE DEF doc
  <2>5. QED
    BY <2>1, <2>2, <2>3, <2>4, DocsStep
<1>3. ASSUME NEW r \in Replicas, NEW doc \in docs, CrdtMerge(r, doc)
      PROVE  IndInv' /\ \A q \in Replicas : Leq(certs[q], certs'[q])
  <2>1. doc \in StateDocs
    BY <1>0, <1>3, DeltaDocShape DEF CrdtMerge
  <2> DEFINE m == doc.json.certs
  <2>2. m \in InheritCertStates /\ doc.heard \in SUBSET Proposals
        /\ ~IsDelta(doc) /\ FromJson(doc.json) = m
    BY <2>1, StateDocShape
  <2>3. CanonicalFor(m, doc.heard)
    BY <2>2 DEF IndInv, ExportsAreLowerBounds
  <2>4. CanonicalFor(Merge(certs[r], m), heard[r] \union doc.heard)
    BY <1>0, <2>2, <2>3, MergeCanonical DEF IndInv, HoldsMinimumOfHeard
  <2>5. /\ certs' = [certs EXCEPT ![r] = Merge(certs[r], m)]
        /\ heard' = [heard EXCEPT ![r] = heard[r] \union doc.heard]
        /\ docs' = docs /\ count' \in [applied : Nat, changed : Nat]
    BY <1>0, <1>3, <2>2 DEF CrdtMerge
  <2>6. QED
    BY <2>2, <2>4, <2>5, JoinStep
<1>4. ASSUME NEW r \in Replicas, NEW doc \in docs, CrdtDelta(r, doc)
      PROVE  IndInv' /\ \A q \in Replicas : Leq(certs[q], certs'[q])
  <2>1. doc \in StateDocs
    BY <1>0, <1>4, DeltaDocShape DEF CrdtDelta
  <2> DEFINE old   == doc.json.certs
             q     == doc.from
             delta == DeltaCompute(old, certs[r])
             new   == [json |-> DeltaToJson(delta), to |-> q, heard |-> heard[r]]
  <2>2. old \in InheritCertStates /\ q \in Replicas /\ ~IsDelta(doc)
        /\ FromJson(doc.json) = old
    BY <2>1, StateDocShape
  <2>3. Leq(old, certs[q])
    BY <2>2 DEF IndInv, ExportsAreLowerBounds
  <2>4. delta \in InheritCertStates
    BY <1>0, <2>2, DeltaComputeType
  <2>5. new \in DeltaDocs
    BY <1>0, <2>2, <2>4 DEF DeltaDocs
  <2>6. new.json.updates = delta /\ new.to = q /\ new.heard = heard[r]
    BY DEF DeltaToJson
  <2>7. DeltaApply(delta, certs[q]) = Merge(certs[q], certs[r])
    BY <1>0, <2>2, <2>3, <2>4, DeltaApplyIsMerge, StaleDelta
  <2>8. CanonicalFor(Merge(certs[q], certs[r]), heard[q] \union heard[r])
    BY <1>0, <2>2, MergeCanonical DEF IndInv, HoldsMinimumOfHeard
  <2>9. docs' = docs \union {new} /\ UNCHANGED <<certs, heard, count>>
    BY <1>4, <2>2 DEF CrdtDelta
  <2> HIDE DEF new, delta, old, q
  <2>10. QED
    BY <2>5, <2>6, <2>7, <2>8, <2>9, DocsStep
<1>5. ASSUME NEW doc \in docs, CrdtMergeDelta(doc)
      PROVE  IndInv' /\ \A q \in Replicas : Leq(certs[q], certs'[q])
  <2>1. doc \in DeltaDocs
    BY <1>0, <1>5, StateDocShape DEF CrdtMergeDelta
  <2> DEFINE r == doc.to
             u == doc.json.updates
  <2>2. r \in Replicas /\ u \in InheritCertStates /\ doc.heard \in SUBSET Proposals
        /\ IsDelta(doc)
    BY <2>1, DeltaDocShape
  <2>3. DeltaApply(u, certs[r]) = Merge(certs[r], u)
    BY <1>0, <2>2, DeltaApplyIsMerge
  <2>4. CanonicalFor(Merge(certs[r], u), heard[r] \union doc.heard)
    BY <2>2, <2>3 DEF IndInv, StaleDeltaSuffices
  <2>5. count' \in [applied : Nat, changed : Nat]
    BY <1>0, <1>5, <2>2, <2>3, MergeType, CountType DEF CrdtMergeDelta
  <2>6. /\ certs' = [certs EXCEPT ![r] = Merge(certs[r], u)]
        /\ heard' = [heard EXCEPT ![r] = heard[r] \union doc.heard]
        /\ docs' = docs
    BY <1>0, <1>5, <2>2, <2>3 DEF CrdtMergeDelta
  <2> HIDE DEF r, u
  <2>7. QED
    BY <2>2, <2>4, <2>5, <2>6, JoinStep
<1>6. ASSUME NEW doc \in docs, Drop(doc)
      PROVE  IndInv' /\ \A q \in Replicas : Leq(certs[q], certs'[q])
  BY <1>6, DocsStep DEF Drop
<1>7. CASE UNCHANGED vars
  BY <1>7, DocsStep DEF vars
<1>8. QED
  BY <1>1, <1>2, <1>3, <1>4, <1>5, <1>6, <1>7 DEF Next

-----------------------------------------------------------------------------

\* The inductive invariant holds throughout.
THEOREM Inductive == Spec => []IndInv
<1>1. IndInv /\ [Next]_vars => IndInv'
  BY NextInd
<1>2. QED
  BY <1>1, InitInd, PTL DEF Spec

\* Every registry's map, document and count is well typed.
THEOREM TypeCorrect == Spec => []TypeOK
<1>1. IndInv => TypeOK
  BY DEF IndInv
<1>2. QED
  BY <1>1, Inductive, PTL

\* A registry holds exactly the minimum of the proposals that reached it.
THEOREM MinimumOfHeard == Spec => []HoldsMinimumOfHeard
<1>1. IndInv => HoldsMinimumOfHeard
  BY DEF IndInv
<1>2. QED
  BY <1>1, Inductive, PTL

\* A delta that reaches its registry late is still as good as a full merge.
THEOREM StaleDeltas == Spec => []StaleDeltaSuffices
<1>1. IndInv => StaleDeltaSuffices
  BY DEF IndInv
<1>2. QED
  BY <1>1, Inductive, PTL

\* The convergence guarantee of the CRDT's documentation.
THEOREM StrongEventualConsistency == Spec => []Convergence
<1>1. ASSUME IndInv PROVE Convergence
  BY <1>1, CanonicalUnique DEF IndInv, TypeOK, HoldsMinimumOfHeard, Convergence
<1>2. QED
  BY <1>1, Inductive, PTL

\* No step makes a registry forget or worsen a certificate.
THEOREM MonotoneRegistries == Spec => NeverForgets
<1>1. IndInv /\ [Next]_vars => [\A r \in Replicas : Leq(certs[r], certs'[r])]_vars
  BY NextInd
<1>2. QED
  BY <1>1, Inductive, PTL DEF Spec, NeverForgets

\* Every key that applying a delta changes is counted: it is a new key, or it
\* now holds its own update.
LEMMA ChangesAreCounted ==
  ASSUME NEW a \in InheritCertStates, NEW d \in InheritCertStates
  PROVE  Cardinality(Changed(a, DeltaApply(d, a))) <= UpdatesApplied(a, d, DeltaApply(d, a))
<1> DEFINE b     == DeltaApply(d, a)
           added == DOMAIN b \ DOMAIN a
           held  == {k \in DOMAIN d : \E j \in DOMAIN d : b[j] = d[k]}
<1>1. b \in InheritCertStates
  BY DeltaApplyIsMerge, MergeType
<1>2. added \subseteq EffectKeys /\ held \subseteq EffectKeys
  BY <1>1, StateShape
<1>3. IsFiniteSet(added) /\ IsFiniteSet(held)
  BY <1>2, FS_Subset
<1>4. Changed(a, b) \subseteq added \union held
  <2> SUFFICES ASSUME NEW k \in DOMAIN b, k \in DOMAIN a, a[k] # b[k]
               PROVE  k \in held
    BY DEF Changed
  <2>1. k \in DOMAIN d /\ b[k] = RegMerge(a[k], d[k])
    BY DEF DeltaApply, Propose
  <2>2. b[k] = d[k]
    BY <2>1 DEF RegMerge
  <2>3. QED
    BY <2>1, <2>2
<1>5. /\ Cardinality(Changed(a, b)) <= Cardinality(added \union held)
      /\ Cardinality(Changed(a, b)) \in Nat
      /\ Cardinality(added \union held) \in Nat
  BY <1>3, <1>4, FS_Union, FS_Subset, FS_CardinalityType
<1>6. Cardinality(added \union held) <= Cardinality(added) + Cardinality(held)
  <2>1. added \intersect held \in SUBSET added
    OBVIOUS
  <2>2. IsFiniteSet(added \intersect held)
    BY <1>3, <2>1, FS_Subset
  <2>3. /\ Cardinality(added) \in Nat /\ Cardinality(held) \in Nat
        /\ Cardinality(added \intersect held) \in Nat
    BY <1>3, <2>2, FS_CardinalityType
  <2>4. Cardinality(added \union held)
          = Cardinality(added) + Cardinality(held) - Cardinality(added \intersect held)
    BY <1>3, FS_Union
  <2> HIDE DEF added, held
  <2>5. QED
    BY <2>3, <2>4
<1>7. UpdatesApplied(a, d, b) = Cardinality(added) + Cardinality(held)
  BY DEF UpdatesApplied
<1>8. Cardinality(added) \in Nat /\ Cardinality(held) \in Nat
  BY <1>3, FS_CardinalityType
<1> HIDE DEF b, added, held
<1>9. QED
  BY <1>5, <1>6, <1>7, <1>8 DEF b

\* The number that crdt_merge_delta reports never hides a change, although it
\* counts some keys twice and others that it left alone.
THEOREM ReportsCoverChanges == Spec => []ReportCoversChanges
<1>1. Init => ReportCoversChanges
  BY DEF Init, ReportCoversChanges
<1>2. ASSUME IndInv, ReportCoversChanges, [Next]_vars
      PROVE  ReportCoversChanges'
  <2>1. ASSUME NEW doc \in docs, CrdtMergeDelta(doc)
        PROVE  ReportCoversChanges'
    <3>1. docs \subseteq StateDocs \union DeltaDocs /\ certs \in [Replicas -> InheritCertStates]
      BY <1>2 DEF IndInv, TypeOK
    <3>2. doc.to \in Replicas /\ doc.json.updates \in InheritCertStates
      BY <2>1, <3>1, StateDocShape, DeltaDocShape DEF CrdtMergeDelta
    <3>3. certs[doc.to] \in InheritCertStates
      BY <3>1, <3>2
    <3>4. /\ count'.applied = UpdatesApplied(certs[doc.to], doc.json.updates,
                                             DeltaApply(doc.json.updates, certs[doc.to]))
          /\ count'.changed = Cardinality(Changed(certs[doc.to],
                                             DeltaApply(doc.json.updates, certs[doc.to])))
      BY <2>1 DEF CrdtMergeDelta
    <3>5. QED
      BY <3>2, <3>3, <3>4, ChangesAreCounted DEF ReportCoversChanges
  <2>2. CASE UNCHANGED count
    BY <1>2, <2>2 DEF ReportCoversChanges
  <2>3. QED
    BY <1>2, <2>1, <2>2
       DEF Next, vars, CrdtPropose, CrdtState, CrdtMerge, CrdtDelta, Drop
<1>3. QED
  BY <1>1, <1>2, Inductive, PTL DEF Spec

=============================================================================
