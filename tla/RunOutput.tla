------------------------------ MODULE RunOutput ------------------------------
(***************************************************************************)
(* What a run of fardrun leaves in its output directory, and the verifiers *)
(* that decide whether to trust it (src/verify/trace_verify.rs and         *)
(* src/verify/bundle_verify.rs, called by fardverify).                     *)
(*                                                                         *)
(* A digest stands for the bytes it was computed from: SHA-256 is taken to *)
(* be injective, so a file "has the digest d" when its content is d.       *)
(***************************************************************************)
EXTENDS Naturals, Sequences, FiniteSets

CONSTANTS Absent,   \* content of a file that does not exist
          Torn,     \* content of a file whose write was cut short
          NoTrace,  \* the digest "sha256:no-trace"
          NL        \* a newline in the trace

Files == {"trace", "graph", "result", "error", "digests"}

EmptyDir == [f \in Files |-> Absent]

Leaf(ok) == IF ok THEN "result" ELSE "error"

-----------------------------------------------------------------------------
(* The trace: events and newlines, in the order they were written.  Of an  *)
(* event only its tag, its keys, whether it was written with its keys      *)
(* sorted and the kind of a resolved module matter to the verifier.        *)

Tags ==
  {"module_resolve", "module_graph", "artifact_in", "artifact_in_named", "artifact_out",
   "artifact_dep", "artifact_derived", "error", "child_spawn", "child_receipt", "emit",
   "grow_node", "trace_info", "trace_warn", "trace_error", "trace_span", "witness_verify",
   "witnessed_failure", "while_start", "while_step", "while_end", "ffi_oracle", "ffi_checked",
   "spawn_ordered_complete"}

\* Events whose bytes are not compared with their canonical form.
CanonSkipped ==
  {"emit", "grow_node", "trace_info", "trace_warn", "trace_error", "trace_span",
   "witness_verify", "artifact_derived"}

\* Events that may have no other keys than these.
KeysAllowed ==
  [module_resolve |-> {"cid", "kind", "name", "t"},
   module_graph   |-> {"cid", "t"},
   artifact_in    |-> {"cid", "name", "t"},
   artifact_out   |-> {"cid", "name", "t"},
   error          |-> {"code", "e", "message", "t"}]

\* Each line holds one event, and only the last line may be empty.
LinesOK(trace) ==
  /\ trace # <<>> => trace[1] # NL
  /\ \A i \in 1 .. Len(trace) - 1 : (trace[i] = NL) # (trace[i + 1] = NL)

EventOK(e) ==
  /\ e.t \in Tags
  /\ e.t \notin CanonSkipped => e.sorted
  /\ e.t \in DOMAIN KeysAllowed => e.keys \subseteq KeysAllowed[e.t]
  /\ e.t = "module_resolve" => e.kind \in {"std", "rel", "abs", "vendor"}

Positions(trace, tag) == {i \in DOMAIN trace : trace[i] # NL /\ trace[i].t = tag}

\* Every module is resolved before anything else happens.
ResolvesFirst(trace) ==
  \A i \in Positions(trace, "module_resolve") :
    \A j \in 1 .. i : trace[j] # NL => trace[j].t = "module_resolve"

\* The last event is an error event, and no other event is one.
ErrorLast(trace) ==
  \A i \in Positions(trace, "error") :
    \A j \in DOMAIN trace : trace[j] # NL => j <= i

\* verify_trace_outdir
TraceAccepts(dir) ==
  LET trace  == dir.trace
      errors == Positions(trace, "error")
  IN /\ dir.digests \notin {Absent, Torn}
     /\ trace \notin {Absent, Torn}
     /\ LinesOK(trace)
     /\ \A i \in DOMAIN trace : trace[i] # NL => EventOK(trace[i])
     /\ ResolvesFirst(trace)
     /\ Cardinality(Positions(trace, "module_graph")) = 1
     /\ ErrorLast(trace)
     /\ IF dir.digests.ok
        THEN errors = {} /\ dir.result # Absent /\ dir.error = Absent
        ELSE Cardinality(errors) = 1 /\ dir.result = Absent /\ dir.error # Absent

-----------------------------------------------------------------------------
(* digests.json names the trace, the module graph and the leaf (the result *)
(* or the error).  The RunID is the digest of its canonical form.          *)

RunId(digests) == digests

\* Variant of HashesMatch: the trace is not compared.
HashesMatchLeaf(dir) ==
  /\ dir.digests.graph = dir.graph
  /\ dir.digests.leaf = dir[Leaf(dir.digests.ok)]

HashesMatch(dir) ==
  /\ dir.digests.trace = dir.trace
  /\ dir.digests.graph = dir.graph
  /\ dir.digests.leaf = dir[Leaf(dir.digests.ok)]

\* verify_bundle_outdir
BundleAccepts(dir) ==
  /\ dir.digests \notin {Absent, Torn}
  /\ dir.trace # Absent
  /\ dir.graph # Absent
  /\ dir[Leaf(dir.digests.ok)] # Absent
  /\ dir[Leaf(~dir.digests.ok)] = Absent
  /\ HashesMatch(dir)

=============================================================================
