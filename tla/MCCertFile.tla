----------------------------- MODULE MCCertFile ------------------------------
(* CertFile on small sets; RunIDs are small numbers. *)
EXTENDS CertFile

CONSTANTS k1, k2

\* Two proposals for one effect, one for the other, and a remote state with
\* both effects, so that documents of both lengths are written.
MCRequests ==
  {[key |-> k1, runId |-> 1], [key |-> k1, runId |-> 2], [key |-> k2, runId |-> 2],
   [remote |-> [k \in {k1, k2} |-> IF k = k1 THEN 2 ELSE 1]]}

\* Documents of two lengths, and a RunID that loses against another.
MCFewRequests ==
  {[key |-> k1, runId |-> 1], [remote |-> [k \in {k1, k2} |-> 2]]}
=============================================================================
