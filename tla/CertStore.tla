------------------------------ MODULE CertStore ------------------------------
(***************************************************************************)
(* What a registry promises about the Inherit-Cert map it keeps: updates   *)
(* are joined into it one at a time, it never loses information, and it    *)
(* acknowledges an update only when the update is in it.  CertReplicas and *)
(* CertFile implement this specification, replica by replica.              *)
(***************************************************************************)
EXTENDS InheritCert

VARIABLES certs,  \* the map
          acked   \* the join of all updates acknowledged so far

vars == <<certs, acked>>

Init ==
  /\ certs = NewState
  /\ acked = NewState

Commit ==
  /\ \E update \in InheritCertStates : certs' = Merge(certs, update)
  /\ UNCHANGED acked

\* An update is acknowledged once it is in the map; the step that puts it
\* there may be the one that acknowledges it.
Acknowledge ==
  \E commit, update \in InheritCertStates :
    /\ certs' = Merge(certs, commit)
    /\ Leq(update, certs')
    /\ acked' = Merge(acked, update)

Next == Commit \/ Acknowledge

Spec == Init /\ [][Next]_vars
=============================================================================
