----------------------------- MODULE InheritCert -----------------------------
(***************************************************************************)
(* The Inherit-Cert CRDT (crates/inherit_cert_crdt/src/lib.rs): a map from *)
(* effect keys to the smallest RunID proposed for each of them, merged by  *)
(* pointwise minimum.  The operators are pure; the systems that replicate  *)
(* and store such maps are CertReplicas and CertFile.                      *)
(*                                                                         *)
(* An effect key is a digest and is only compared for equality.  A RunID   *)
(* is "sha256:" and 64 lower-case hex digits: byte order on such strings   *)
(* is the order of the 256-bit numbers they denote, so a RunID is a Nat.   *)
(***************************************************************************)
EXTENDS Naturals

CONSTANTS EffectKeys,  \* the effects that runs may propose a RunID for
          RunIDs,      \* the well-formed RunIDs
          Malformed    \* stands for any string that is not a RunID

ASSUME RunIDsAreOrdered == RunIDs \subseteq Nat
ASSUME MalformedIsNoRunID == Malformed \notin RunIDs

IsValid(string) == string \in RunIDs

-----------------------------------------------------------------------------
(* MinRegister *)

\* Variant of RegMerge: the register keeps its first value.
RegMergeFirst(a, b) == a

RegMerge(a, b) == IF b < a THEN b ELSE a

\* A smaller value carries more information, hence the reversed order.
RegLeq(a, b) == a >= b

-----------------------------------------------------------------------------
(* InheritCertState *)

InheritCertStates == UNION {[keys -> RunIDs] : keys \in SUBSET EffectKeys}

NewState == [key \in {} |-> Malformed]

Propose(certs, key, runId) ==
  [k \in DOMAIN certs \union {key} |->
     IF k # key THEN certs[k]
     ELSE IF key \in DOMAIN certs THEN RegMerge(certs[key], runId)
     ELSE runId]

\* Variant of Merge: the other map's registers replace this one's.
MergeReplacing(certs, other) ==
  [k \in DOMAIN certs \union DOMAIN other |->
     IF k \in DOMAIN other THEN other[k] ELSE certs[k]]

\* merge and merge_into compute the same map, the latter in place.
Merge(certs, other) ==
  [k \in DOMAIN certs \union DOMAIN other |->
     IF k \notin DOMAIN other THEN certs[k]
     ELSE IF k \in DOMAIN certs THEN RegMerge(certs[k], other[k])
     ELSE other[k]]

Leq(certs, other) ==
  \A k \in DOMAIN certs : k \in DOMAIN other /\ RegLeq(certs[k], other[k])

-----------------------------------------------------------------------------
(* InheritCertDelta: a map from keys to RunIDs as well *)

\* Variant of DeltaCompute: sends the registers that are already small enough.
DeltaComputeInverted(from, to) ==
  LET wanted == {k \in DOMAIN to : k \in DOMAIN from => from[k] <= to[k]}
  IN [k \in wanted |-> to[k]]

DeltaCompute(from, to) ==
  LET stale == {k \in DOMAIN to : ~(k \in DOMAIN from /\ from[k] <= to[k])}
  IN [k \in stale |-> to[k]]

\* apply_to proposes each update; the keys of a delta are distinct, so the
\* order in which they are proposed is irrelevant.
DeltaApply(delta, certs) ==
  [k \in DOMAIN certs \union DOMAIN delta |->
     IF k \in DOMAIN delta THEN Propose(certs, k, delta[k])[k] ELSE certs[k]]

-----------------------------------------------------------------------------
(* The JSON wire format.  A document is well formed when its "certs"       *)
(* member is an object whose every value is a RunID: one bad value makes   *)
(* the whole document unusable, and so does the absence of the member,     *)
(* which is how a delta document is written.                               *)

StateKind == "fard/inherit_cert/v0.1"
DeltaKind == "fard/inherit_cert_delta/v0.1"

ToJson(certs) == [kind |-> StateKind, certs |-> certs]

DeltaToJson(delta) == [kind |-> DeltaKind, updates |-> delta]

WellFormed(doc) ==
  /\ "certs" \in DOMAIN doc
  /\ \A k \in DOMAIN doc.certs : IsValid(doc.certs[k])

FromJson(doc) == [k \in DOMAIN doc.certs |-> doc.certs[k]]

=============================================================================
