---------------------------- MODULE CertReplicas -----------------------------
(***************************************************************************)
(* Several registries, each holding an Inherit-Cert map, that exchange     *)
(* whole states and deltas as JSON documents (crates/registry).  Nothing   *)
(* schedules the exchanges: an operator or a script fetches a document     *)
(* from one registry and hands it to another, at any later time, more than *)
(* once, in any order or never.  Operations on one registry are atomic     *)
(* here; CertFile opens them up.                                           *)
(***************************************************************************)
EXTENDS InheritCert, FiniteSets

CONSTANTS Replicas,
          MaxDocs      \* documents that exist at the same time

ASSUME MaxDocsAssumption == MaxDocs \in Nat

\* There are finitely many SHA-256 digests.
ASSUME EffectKeysFinite == IsFiniteSet(EffectKeys)

VARIABLES
  certs,   \* certs[r]: the map registry r holds
  heard,   \* heard[r]: history, the proposals that have reached r
  docs,    \* exported documents that may still be delivered
  count    \* what the last crdt_merge_delta returned, and what it did

vars == <<certs, heard, docs, count>>

Proposals == EffectKeys \X RunIDs

\* A document with, as history, its source and the proposals behind it.
StateDocs ==
  [json : {ToJson(c) : c \in InheritCertStates},
   from : Replicas, heard : SUBSET Proposals]

\* A delta is computed for the registry whose state document was given.
DeltaDocs ==
  [json : {DeltaToJson(c) : c \in InheritCertStates},
   to : Replicas, heard : SUBSET Proposals]

IsDelta(doc) == doc.json.kind = DeltaKind

TypeOK ==
  /\ certs \in [Replicas -> InheritCertStates]
  /\ heard \in [Replicas -> SUBSET Proposals]
  /\ docs \subseteq StateDocs \union DeltaDocs
  /\ count \in [applied : Nat, changed : Nat]

Init ==
  /\ certs = [r \in Replicas |-> NewState]
  /\ heard = [r \in Replicas |-> {}]
  /\ docs = {}
  /\ count = [applied |-> 0, changed |-> 0]

-----------------------------------------------------------------------------

\* crdt-propose, or POST /crdt/propose, with the string the client sent
CrdtPropose(r, key, string) ==
  /\ IsValid(string)
  /\ certs' = [certs EXCEPT ![r] = Propose(@, key, string)]
  /\ heard' = [heard EXCEPT ![r] = @ \union {<<key, string>>}]
  /\ UNCHANGED <<docs, count>>

\* crdt-state, or GET /crdt/state
CrdtState(r) ==
  /\ Cardinality(docs) < MaxDocs
  /\ docs' = docs \union {[json |-> ToJson(certs[r]), from |-> r, heard |-> heard[r]]}
  /\ UNCHANGED <<certs, heard, count>>

\* crdt-merge, or POST /crdt/merge
CrdtMerge(r, doc) ==
  /\ WellFormed(doc.json)
  /\ certs' = [certs EXCEPT ![r] = Merge(@, FromJson(doc.json))]
  /\ heard' = [heard EXCEPT ![r] = @ \union doc.heard]
  /\ UNCHANGED <<docs, count>>

\* crdt-delta: what the registry that exported doc lacks of r's state
CrdtDelta(r, doc) ==
  /\ Cardinality(docs) < MaxDocs
  /\ WellFormed(doc.json)
  /\ LET delta == DeltaCompute(FromJson(doc.json), certs[r])
     IN docs' = docs \union {[json |-> DeltaToJson(delta), to |-> doc.from,
                              heard |-> heard[r]]}
  /\ UNCHANGED <<certs, heard, count>>

\* Variant of UpdatesApplied: only the keys that are new.
UpdatesAppliedNew(before, delta, after) == Cardinality(DOMAIN after \ DOMAIN before)

\* The number crdt_merge_delta computes: the keys it added, and every update
\* whose RunID some key of the delta now holds.
UpdatesApplied(before, delta, after) ==
  LET added == DOMAIN after \ DOMAIN before
      held  == {k \in DOMAIN delta : \E j \in DOMAIN delta : after[j] = delta[k]}
  IN Cardinality(added) + Cardinality(held)

Changed(before, after) ==
  {k \in DOMAIN after : ~(k \in DOMAIN before /\ before[k] = after[k])}

\* crdt_merge_delta, at the registry the delta was computed for
CrdtMergeDelta(doc) ==
  /\ IsDelta(doc)
  /\ LET r     == doc.to
         delta == doc.json.updates
         after == DeltaApply(delta, certs[r])
     IN /\ certs' = [certs EXCEPT ![r] = after]
        /\ heard' = [heard EXCEPT ![r] = @ \union doc.heard]
        /\ count' = [applied |-> UpdatesApplied(certs[r], delta, after),
                     changed |-> Cardinality(Changed(certs[r], after))]
  /\ UNCHANGED docs

\* A document that will not be delivered any more.
Drop(doc) ==
  /\ docs' = docs \ {doc}
  /\ UNCHANGED <<certs, heard, count>>

Next ==
  \/ \E r \in Replicas, key \in EffectKeys, string \in RunIDs \union {Malformed} :
       CrdtPropose(r, key, string)
  \/ \E r \in Replicas : CrdtState(r)
  \/ \E r \in Replicas, doc \in docs : CrdtMerge(r, doc)
  \/ \E r \in Replicas, doc \in docs : CrdtDelta(r, doc)
  \/ \E doc \in docs : CrdtMergeDelta(doc)
  \/ \E doc \in docs : Drop(doc)

Spec == Init /\ [][Next]_vars

-----------------------------------------------------------------------------

\* "Canonical": certs[r] is the smallest RunID heard, for each effect heard of.
CanonicalFor(c, H) ==
  /\ DOMAIN c = {p[1] : p \in H}
  /\ \A k \in DOMAIN c : <<k, c[k]>> \in H
  /\ \A p \in H : c[p[1]] <= p[2]

\* Whatever was merged, in whatever order and however often, a registry holds
\* exactly the minimum of the proposals that have reached it, and a delta has
\* carried as much as the state it was computed from.
HoldsMinimumOfHeard == \A r \in Replicas : CanonicalFor(certs[r], heard[r])

\* The convergence guarantee: replicas that have seen the same proposals hold
\* the same map, whichever way they came by them.
Convergence ==
  \A r, s \in Replicas : heard[r] = heard[s] => certs[r] = certs[s]

\* The delta that would be sent next to r brings it exactly to the merge of
\* both maps, even when r has moved on since the state it exported.
StaleDeltaSuffices ==
  \A doc \in {d \in docs : IsDelta(d)} :
    CanonicalFor(DeltaApply(doc.json.updates, certs[doc.to]),
                 heard[doc.to] \union doc.heard)

\* What makes StaleDeltaSuffices inductive: an exported state is the minimum of
\* the proposals behind it, and its source has only moved up since.
ExportsAreLowerBounds ==
  \A doc \in {d \in docs : ~IsDelta(d)} :
    /\ CanonicalFor(doc.json.certs, doc.heard)
    /\ Leq(doc.json.certs, certs[doc.from])

IndInv == TypeOK /\ HoldsMinimumOfHeard /\ ExportsAreLowerBounds /\ StaleDeltaSuffices

\* No step makes a registry forget or worsen a certificate.
NeverForgets == [][\A r \in Replicas : Leq(certs[r], certs'[r])]_vars

\* The number that crdt_merge_delta reports counts a key it added twice and a
\* key it left alone once, but it never hides a change: a caller that is told 0
\* holds what it held.
ReportCoversChanges == count.changed <= count.applied

=============================================================================
