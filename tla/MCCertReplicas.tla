--------------------------- MODULE MCCertReplicas ----------------------------
(* CertReplicas on small sets; RunIDs are small numbers. *)
EXTENDS CertReplicas, TLC

Symmetry == Permutations(Replicas) \union Permutations(EffectKeys)
=============================================================================
