------------------------------- MODULE FardRun -------------------------------
(***************************************************************************)
(* fardrun executing programs one after the other into one output          *)
(* directory (src/bin/fardrun.rs, main and Tracer).  A run appends events  *)
(* to the trace while it evaluates, then writes its other files in an      *)
(* order that depends on how the evaluation ended.  A program that asks    *)
(* for its own digest is run again, up to three times, in a directory that *)
(* is deleted in between.  A run may be killed before any of its writes,   *)
(* or during one.                                                          *)
(***************************************************************************)
EXTENDS RunOutput

CONSTANTS Programs,   \* the programs that are run
          MaxRuns,    \* bound on the number of runs
          Pending,    \* the text "sha256:pending"
          SelfMark    \* the text "sha256:self"

\* What a program does that its trace or its digests show.  Steps that the verifiers treat
\* alike are one: "emit" is also grow_node and std/trace, "import" also a relative module,
\* "import_pkg" the registry, "ffi" a checked call, "emit_artifact" a derived artifact.
Steps == {"import", "import_pkg", "emit", "emit_self", "self", "artifact",
          "import_artifact", "emit_artifact", "spawn_ordered", "compact_while", "ffi"}

\* How its evaluation ends.  A lockfile that cannot be loaded ends a run before its first
\* step as a result that cannot be written ends it after its last: nothing is written.
Outcomes == {"value", "self", "self_in_thread", "hash_of_self", "not_jsonable", "error", "qmark"}

ASSUME ProgramsAssumption ==
  \A p \in Programs :
    /\ p.steps \in Seq(Steps)
    /\ p.outcome \in Outcomes
    /\ p.outcome \in {"self", "hash_of_self"} => \E i \in DOMAIN p.steps : p.steps[i] = "self"

ASSUME MaxRunsAssumption == MaxRuns \in Nat

MaxAttempts == 3

VARIABLES
  dir,       \* the output directory
  run,       \* the process: what it has left to do, and its variables
  receipts,  \* receipts/sha256_<RunID>.json
  exit,      \* how the last run ended
  runs,      \* the number of runs so far
  sealed,    \* history: what was produced by each attempt that wrote digests
  passed     \* history: did the directory pass for a success when the last run began?

vars == <<dir, run, receipts, exit, runs, sealed, passed>>

NotRunning == [todo |-> <<>>]

Running == run # NotRunning

-----------------------------------------------------------------------------
(* What files may hold.  A RunID may occur in the contents it is a digest   *)
(* of, and a program is told at most two of them: Selfs are the texts that  *)
(* the builtin self_digest can return, by the number of the attempt.        *)

Keys == {"boundary", "chain_hex", "cid", "code", "count", "h", "kind", "message", "name",
         "parents", "partial_trace_digest", "path", "result_digest", "run_digest", "run_id", "s",
         "spawn_id", "steps", "symbol", "t", "v"}

Written == Tags \union {"torn"}

Events(selfs) ==
  [t : Written, keys : SUBSET Keys, sorted : BOOLEAN]
  \union [t : Written, keys : SUBSET Keys, sorted : BOOLEAN, kind : {"std", "pkg"}]
  \union [t : Written, keys : SUBSET Keys, sorted : BOOLEAN, value : selfs]
  \union [t : Written, keys : SUBSET Keys, sorted : BOOLEAN, uuid : Nat \X Nat]

Traces(selfs) == Seq(Events(selfs) \union {NL})

Names == {p.name : p \in Programs}

Graphs == [main : Names]

Results(selfs) == [self : selfs] \union [hash : selfs] \union [value : Names]

Failures(selfs) ==
  [code : Outcomes \union {"type_errors"}, partial : Traces(selfs) \union {Absent}]

Leaves(selfs) == Results(selfs) \union Failures(selfs) \union [self : {SelfMark}]

RunIdsOf(selfs) ==
  [trace : Traces(selfs) \union {NoTrace}, graph : Graphs, leaf : Leaves(selfs), ok : BOOLEAN]

FirstSelfs  == {Pending}
SecondSelfs == FirstSelfs \union RunIdsOf(FirstSelfs)
Selfs       == SecondSelfs \union RunIdsOf(SecondSelfs)

RunIds == RunIdsOf(Selfs)

\* The constants are none of the contents they are told from.
ASSUME MarkersAssumption ==
  /\ \A m \in {Absent, Torn} :
       m \notin RunIds /\ m \notin Leaves(Selfs) /\ m \notin Graphs /\ m \notin Traces(Selfs)
  /\ NoTrace # Absent /\ NoTrace \notin Traces(Selfs)
  /\ NL \notin Events(Selfs)
  /\ SelfMark \notin Selfs
  /\ Pending \notin RunIds

-----------------------------------------------------------------------------
(* Tracer *)

Event(t, keys, sorted) == [t |-> t, keys |-> keys, sorted |-> sorted]

Resolve(kind) ==
  [t |-> "module_resolve", keys |-> {"cid", "kind", "name", "t"}, sorted |-> TRUE, kind |-> kind]

Emit(value) == [t |-> "emit", keys |-> {"t", "v"}, sorted |-> TRUE, value |-> value]

ArtifactDep == Event("artifact_dep", {"run_id", "t"}, TRUE)

Child(t, keys, uuid) == [t |-> t, keys |-> keys, sorted |-> TRUE, uuid |-> uuid]

\* The events of each step, by the digest the program is told and the UUID of its
\* children; those formatted by hand start with "t".
EventsFor(step, self, uuid) ==
  CASE step = "import"          -> <<Resolve("std")>>
    [] step = "import_pkg"      -> <<Resolve("pkg")>>
    [] step = "emit"            -> <<Event("emit", {"t", "v"}, TRUE)>>
    [] step = "emit_self"       -> <<Emit(self)>>
    [] step = "self"            -> <<>>
    [] step = "import_artifact" -> <<Event("artifact_in", {"cid", "name", "path", "t"}, TRUE)>>
    [] step = "emit_artifact"   -> <<Event("artifact_out", {"cid", "name", "parents", "t"}, TRUE)>>
    [] step = "spawn_ordered"   ->
         <<Child("child_spawn", {"spawn_id", "t"}, uuid),
           Child("child_receipt", {"result_digest", "run_digest", "spawn_id", "t"}, uuid),
           Event("spawn_ordered_complete", {"count", "t"}, FALSE)>>
    [] step = "compact_while"   ->
         <<Event("while_start", {"t"}, TRUE), Event("while_step", {"h", "s", "t"}, FALSE),
           Event("while_end", {"chain_hex", "steps", "t"}, FALSE)>>
    [] step = "ffi"             -> <<Event("ffi_oracle", {"boundary", "symbol", "t"}, FALSE)>>
    [] step = "failure_event"   ->
         <<Event("witnessed_failure", {"code", "partial_trace_digest", "t"}, TRUE)>>
    [] step = "graph_event"     -> <<Event("module_graph", {"cid", "t"}, TRUE)>>
    [] step = "error_event"     -> <<Event("error", {"code", "message", "t"}, TRUE)>>

\* A child's identifier is a fresh UUID: no two attempts have one in common.
Uuid == <<runs, run.attempt>>

EventsOf(step) == EventsFor(step, run.self, Uuid)

\* A newline is written before each event, except the first of the trace.
Lines(first, events) ==
  IF first
  THEN [i \in 1 .. 2 * Len(events) - 1 |-> IF i % 2 = 1 THEN events[(i + 1) \div 2] ELSE NL]
  ELSE [i \in 1 .. 2 * Len(events) |-> IF i % 2 = 0 THEN events[i \div 2] ELSE NL]

\* What the run's handle on its trace file shows.
SetTrace(trace) ==
  IF run.sink = "trace" THEN [dir EXCEPT !.trace = trace] ELSE dir

-----------------------------------------------------------------------------
(* What a run writes once the evaluation is over, in order. *)

OkTail == <<"result", "graph", "graph_event", "digests", "settle">>

\* Variant of ErrorTail: the error event is written as soon as error.json is.
ErrorTailGraphLast ==
  <<"graph", "failure_event", "error", "error_event", "graph", "graph_event", "digests", "fail">>

ErrorTail ==
  <<"graph", "failure_event", "error", "graph", "graph_event", "error_event", "digests", "fail">>

QmarkTail == <<"failure_event", "error", "error_event", "graph", "graph_event", "digests", "fail">>

TailOf(outcome) ==
  CASE outcome = "error"        -> ErrorTail
    [] outcome = "qmark"        -> QmarkTail
    [] outcome = "not_jsonable" -> <<"fail">>
    [] OTHER                    -> OkTail

ToDo(program) == program.steps \o TailOf(program.outcome)

Ok == run.program.outcome \notin {"error", "qmark"}

\* The value of result.json.  A promise runs in a thread, and self_digest
\* reads a thread-local there, which was never set.
Result ==
  CASE run.program.outcome = "self"           -> [self |-> run.self]
    [] run.program.outcome = "self_in_thread" -> [self |-> Pending]
    [] run.program.outcome = "hash_of_self"   -> [hash |-> run.self]
    [] OTHER                                  -> [value |-> run.program.name]

\* error.json holds the digest of the trace as it was when the run failed.
Failure == [code |-> run.program.outcome, partial |-> run.partial]

\* The module graph holds the digest of the main program.
Graph == [main |-> run.program.name]

\* write_m5_digests replaces the previous digest in the leaf by a placeholder.
Normalised(leaf) ==
  IF run.prev # Absent /\ leaf = [self |-> run.prev] THEN [self |-> SelfMark] ELSE leaf

DigestsOf(d) ==
  [trace |-> IF run.noTrace THEN NoTrace ELSE d.trace, graph |-> d.graph,
   leaf |-> Normalised(d[Leaf(Ok)]), ok |-> Ok]

-----------------------------------------------------------------------------
(* Actions.  The first item of run.todo is what the process does next. *)

Next1(item) == Running /\ Head(run.todo) = item

Started(program, noTrace, fresh) ==
  [program |-> program, noTrace |-> noTrace, fresh |-> fresh, todo |-> ToDo(program),
   attempt |-> 1, sink |-> IF noTrace THEN "devnull" ELSE "trace", trace |-> <<>>,
   first |-> TRUE, partial |-> Absent, accessed |-> FALSE, self |-> Pending,
   prev |-> Absent, deps |-> 0]

\* What fardverify takes for the outcome of a successful run.
Succeeds(d) == TraceAccepts(d) /\ BundleAccepts(d) /\ d.digests.ok

Init ==
  /\ dir = EmptyDir
  /\ run = NotRunning
  /\ receipts = {}
  /\ exit = [code |-> "none"]
  /\ runs = 0
  /\ sealed = {}
  /\ passed = FALSE

\* Variant of Start: the trace of the previous run is not truncated.
StartAppending(program, noTrace) ==
  /\ ~Running
  /\ runs < MaxRuns
  /\ runs' = runs + 1
  /\ LET old == IF dir.trace = Absent THEN <<>> ELSE dir.trace
     IN /\ run' = [Started(program, noTrace, dir = EmptyDir) EXCEPT !.trace = old]
        /\ dir' = IF noTrace THEN dir ELSE [dir EXCEPT !.trace = old]
  /\ exit' = [code |-> "none"]
  /\ passed' = Succeeds(dir)
  /\ UNCHANGED <<receipts, sealed>>

\* Tracer::new truncates the trace; the other files of an earlier run stay.
Start(program, noTrace) ==
  /\ ~Running
  /\ runs < MaxRuns
  /\ runs' = runs + 1
  /\ run' = Started(program, noTrace, dir = EmptyDir)
  /\ dir' = IF noTrace THEN dir ELSE [dir EXCEPT !.trace = <<>>]
  /\ exit' = [code |-> "none"]
  /\ passed' = Succeeds(dir)
  /\ UNCHANGED <<receipts, sealed>>

Ended(code, program, fresh, noTrace) ==
  [code |-> code, program |-> program, fresh |-> fresh, noTrace |-> noTrace]

\* --strict-types found errors: only error.json is written.
RejectTypes(program) ==
  /\ ~Running
  /\ runs < MaxRuns
  /\ runs' = runs + 1
  /\ dir' = [dir EXCEPT !.error = [code |-> "type_errors", partial |-> Absent]]
  /\ exit' = Ended("rejected", program, FALSE, FALSE)
  /\ passed' = Succeeds(dir)
  /\ UNCHANGED <<run, receipts, sealed>>

WriteEvents(events, accessed, partial) ==
  LET trace == run.trace \o Lines(run.first, events)
  IN /\ dir' = SetTrace(trace)
     /\ run' = [run EXCEPT !.todo = Tail(@), !.trace = trace, !.first = @ /\ events = <<>>,
                           !.accessed = @ \/ accessed, !.partial = partial]
     /\ UNCHANGED <<receipts, exit, runs, sealed, passed>>

\* Evaluation of the program, one visible step at a time.
Evaluate ==
  \E step \in Steps \ {"artifact"} :
    /\ Next1(step)
    /\ WriteEvents(EventsOf(step), step \in {"self", "emit_self"}, run.partial)

\* The artifact_dep event is written without a newline before it and with one
\* after it, and the tracer does not notice that it is the first.
EvaluateArtifact ==
  /\ Next1("artifact")
  /\ LET trace == run.trace \o <<ArtifactDep, NL>>
     IN /\ dir' = SetTrace(trace)
        /\ run' = [run EXCEPT !.todo = Tail(@), !.trace = trace, !.deps = @ + 1]
  /\ UNCHANGED <<receipts, exit, runs, sealed, passed>>

WitnessFailure ==
  /\ Next1("failure_event")
  /\ WriteEvents(EventsOf("failure_event"), FALSE,
                 run.trace)

WriteEvent ==
  \E item \in {"graph_event", "error_event"} :
    /\ Next1(item)
    /\ WriteEvents(EventsOf(item), FALSE, run.partial)

WriteFile ==
  \E file \in {"result", "graph", "error"} :
    /\ Next1(file)
    /\ dir' = [dir EXCEPT ![file] = CASE file = "result" -> Result
                                      [] file = "graph"  -> Graph
                                      [] file = "error"  -> Failure]
    /\ run' = [run EXCEPT !.todo = Tail(@)]
    /\ UNCHANGED <<receipts, exit, runs, sealed, passed>>

\* The digests are those of the files as they are on disk.
WriteDigests ==
  /\ Next1("digests")
  /\ dir' = [dir EXCEPT !.digests = DigestsOf(dir)]
  /\ sealed' = sealed \union
       {[program |-> run.program, noTrace |-> run.noTrace, attempt |-> run.attempt,
         trace |-> run.trace, graph |-> Graph, leaf |-> IF Ok THEN Result ELSE Failure,
         ok |-> Ok, id |-> RunId(DigestsOf(dir))]}
  /\ run' = [run EXCEPT !.todo = Tail(@)]
  /\ UNCHANGED <<receipts, exit, runs, passed>>

Fail(code) ==
  /\ exit' = Ended(code, run.program, run.fresh, run.noTrace)
  /\ run' = NotRunning

WriteReceipt(id) ==
  /\ receipts' = {r \in receipts : r.run_id # id} \union
                   {[run_id |-> id, output |-> dir.result, derived_from |-> run.deps]}
  /\ exit' = Ended("ok", run.program, run.fresh, run.noTrace)
  /\ run' = NotRunning

\* Variant of Converged: the second attempt is taken for the fixed point.
ConvergedOnRetry(id) == run.prev # Absent

\* The digest the program was given is the one its run has.
Converged(id) == run.prev = id

MayRetry == run.attempt < MaxAttempts

\* The fixed-point check: a program that used its digest is run again until
\* the digest it used is the one it gets.
Settle ==
  /\ Next1("settle")
  /\ LET id      == RunId(dir.digests)
         settled == ~run.accessed \/ Converged(id)
     IN \/ /\ ~settled
           /\ MayRetry
           /\ run' = [run EXCEPT !.prev = id, !.self = id,
                                 !.todo = <<"truncate", "remove", "reopen">>]
           /\ UNCHANGED <<receipts, exit>>
        \/ /\ ~settled
           /\ ~MayRetry
           /\ Fail("diverged")
           /\ UNCHANGED receipts
        \/ /\ settled
           /\ WriteReceipt(id)
  /\ UNCHANGED <<dir, runs, sealed, passed>>

Truncate ==
  /\ Next1("truncate")
  /\ dir' = [dir EXCEPT !.trace = <<>>]
  /\ run' = [run EXCEPT !.todo = Tail(@)]
  /\ UNCHANGED <<receipts, exit, runs, sealed, passed>>

Remove ==
  /\ Next1("remove")
  /\ dir' = EmptyDir
  /\ run' = [run EXCEPT !.todo = Tail(@)]
  /\ UNCHANGED <<receipts, exit, runs, sealed, passed>>

\* Variant of Reopen: the dependencies of the attempt before are kept.
ReopenKeepingDeps ==
  /\ Next1("reopen")
  /\ dir' = [dir EXCEPT !.trace = <<>>]
  /\ run' = [run EXCEPT !.todo = ToDo(run.program), !.attempt = @ + 1, !.sink = "trace",
                        !.trace = <<>>, !.first = TRUE, !.accessed = FALSE]
  /\ UNCHANGED <<receipts, exit, runs, sealed, passed>>

\* The next attempt writes to the output directory even with --no-trace.
Reopen ==
  /\ Next1("reopen")
  /\ dir' = [dir EXCEPT !.trace = <<>>]
  /\ run' = [run EXCEPT !.todo = ToDo(run.program), !.attempt = @ + 1, !.sink = "trace",
                        !.trace = <<>>, !.first = TRUE, !.accessed = FALSE, !.deps = 0]
  /\ UNCHANGED <<receipts, exit, runs, sealed, passed>>

ExitFailed ==
  /\ Next1("fail")
  /\ Fail("failed")
  /\ UNCHANGED <<dir, receipts, runs, sealed, passed>>

EventItems == {"graph_event", "error_event", "failure_event"}

TornEvent == Event("torn", {}, FALSE)

\* What a kill leaves of the events of an item: some of them, half of one.
PartOf(item) ==
  LET lines == IF item = "artifact" THEN <<ArtifactDep, NL>> ELSE Lines(run.first, EventsOf(item))
  IN {SubSeq(lines, 1, n) \o half : n \in 0 .. Len(lines), half \in {<<>>, <<TornEvent>>}}

\* What a kill leaves behind: part of the events, a torn file, or a directory
\* half removed.
Damaged ==
  LET item == Head(run.todo)
  IN CASE item \in {"result", "graph", "error", "digests"} -> {dir, [dir EXCEPT ![item] = Torn]}
       [] item \in Steps \union EventItems ->
            {SetTrace(run.trace \o part) : part \in PartOf(item)}
       [] item = "remove" -> {[f \in Files |-> IF f \in gone THEN Absent ELSE dir[f]] :
                                gone \in SUBSET Files}
       [] OTHER -> {dir}

Kill ==
  /\ Running
  /\ dir' \in Damaged
  /\ exit' = Ended("killed", run.program, run.fresh, run.noTrace)
  /\ run' = NotRunning
  /\ UNCHANGED <<receipts, runs, sealed, passed>>

Next ==
  \/ \E program \in Programs, noTrace \in BOOLEAN : Start(program, noTrace)
  \/ \E program \in Programs : RejectTypes(program)
  \/ Evaluate
  \/ EvaluateArtifact
  \/ WitnessFailure
  \/ WriteEvent
  \/ WriteFile
  \/ WriteDigests
  \/ Settle
  \/ Truncate
  \/ Remove
  \/ Reopen
  \/ ExitFailed
  \/ Kill

Spec == Init /\ [][Next]_vars

-----------------------------------------------------------------------------
(* Properties *)

Does(program, step) == \E i \in DOMAIN program.steps : program.steps[i] = step

\* A program that uses its digest and whose RunID is another at each attempt.
Unstable(program, noTrace) ==
  \/ program.outcome = "hash_of_self"
  \/ /\ ~noTrace
     /\ program.outcome \notin {"error", "qmark", "not_jsonable"}
     /\ \/ Does(program, "emit_self")
        \/ Does(program, "self") /\ Does(program, "spawn_ordered")

\* A program whose run leaves files that both verifiers accept.
Acceptable(program) ==
  LET steps == program.steps
      After(step, others) ==
        \A i \in DOMAIN steps : steps[i] = step => \A j \in 1 .. i : steps[j] \in others
  IN /\ program.outcome \notin {"qmark", "self", "not_jsonable"}
     /\ \A i \in DOMAIN steps : steps[i] \in {"import", "self", "emit", "emit_self", "artifact"}
     /\ After("import", {"import", "self"})
     /\ After("artifact", {"artifact", "self"})

Items == Steps \union EventItems \union Files
           \union {"settle", "fail", "truncate", "remove", "reopen"}

\* What the process holds.
RunStates ==
  [program : Programs, noTrace : BOOLEAN, fresh : BOOLEAN, todo : Seq(Items) \ {<<>>},
   attempt : 1 .. MaxAttempts, sink : {"trace", "devnull"}, trace : Traces(Selfs),
   first : BOOLEAN, partial : Traces(Selfs) \union {Absent}, accessed : BOOLEAN,
   self : Selfs, prev : RunIds \union {Absent}, deps : Nat]

TypeOK ==
  /\ dir \in [trace   : Traces(Selfs) \union {Absent},
              graph   : Graphs \union {Absent, Torn},
              result  : Results(Selfs) \union {Absent, Torn},
              error   : Failures(Selfs) \union {Absent, Torn},
              digests : RunIds \union {Absent, Torn}]
  /\ run \in RunStates \union {NotRunning}
  /\ receipts \subseteq [run_id : RunIds, output : Results(Selfs), derived_from : Nat]
  /\ exit \in [code : {"none"}] \union
              [code : {"ok", "failed", "diverged", "rejected", "killed"},
               program : Programs, fresh : BOOLEAN, noTrace : BOOLEAN]
  /\ runs \in 0 .. MaxRuns
  /\ sealed \subseteq
       [program : Programs, noTrace : BOOLEAN, attempt : 1 .. MaxAttempts, trace : Traces(Selfs),
        graph : Graphs, leaf : Results(Selfs) \union Failures(Selfs), ok : BOOLEAN, id : RunIds]
  /\ passed \in BOOLEAN

Sealed == dir.digests \notin {Absent, Torn}

Finished == ~Running /\ exit.code \in {"ok", "failed", "diverged"} /\ ~exit.noTrace

Verifies == TraceAccepts(dir) /\ BundleAccepts(dir)

\* What fardverify accepts as a bundle is the work of one attempt of one run,
\* never a mixture of files that several runs left in the directory, whatever
\* was killed on the way.
SealedIsOneAttempt ==
  BundleAccepts(dir) =>
    \E s \in sealed :
      /\ s.ok = dir.digests.ok
      /\ s.trace = dir.trace
      /\ s.graph = dir.graph
      /\ s.leaf = dir[Leaf(s.ok)]

\* A program has the same RunID each time it is run, whatever its predecessors
\* left in the directory, unless its digests are about the UUIDs of children: those
\* of the trace, or of the partial trace that a failure witnesses, even with --no-trace.
RunIdsAreDeterministic ==
  \A s, t \in sealed :
    /\ s.program = t.program /\ s.noTrace = t.noTrace /\ s.attempt = t.attempt
    /\ ~Does(s.program, "spawn_ordered") \/ (s.noTrace /\ s.ok)
    => s.id = t.id

\* The digest that a program was given as its own is the RunID of its receipt,
\* exactly if it did not ask for it in a thread.
SelfDigestIsRunId ==
  \A r \in receipts : DOMAIN r.output = {"self"} =>
    (r.output.self = r.run_id
       <=> \A s \in sealed : s.id = r.run_id => s.program.outcome # "self_in_thread")

\* A receipt derives from as many artifacts as its trace shows.
ReceiptsListTheirArtifacts ==
  \A r \in receipts :
    r.run_id.trace # NoTrace =>
      r.derived_from = Cardinality(Positions(r.run_id.trace, "artifact_dep"))

\* The partial trace that error.json witnesses is the trace up to the event
\* that reports the failure.
PartialTraceIsPrefix ==
  BundleAccepts(dir) /\ ~dir.digests.ok =>
    LET partial == dir.error.partial
        failure == Positions(dir.trace, "witnessed_failure")
    IN /\ SubSeq(dir.trace, 1, Len(partial)) = partial
       /\ \A i \in failure : i > Len(partial)

\* A run that ended in failure leaves a directory that passes for the outcome of
\* a successful run in two cases and in no other: it did not reach the fixed point
\* and fails after it has written the files of a success, which the verifiers accept
\* as they would of that program otherwise; or it fails without writing anything, its
\* result being no JSON, with --no-trace, and leaves the directory as it found it.
FailureVerifiesExactlyIf ==
  ~Running /\ exit.code \in {"failed", "rejected", "diverged"} =>
    (Succeeds(dir) <=>
       \/ exit.code = "diverged" /\ ~exit.noTrace /\ Acceptable(exit.program)
       \/ /\ exit.code = "failed" /\ exit.noTrace
          /\ exit.program.outcome = "not_jsonable"
          /\ passed)

\* Whoever uses its digest without writing it to the trace or deriving
\* something from it, and has no children, reaches the fixed point in the
\* attempts it has, and nobody else does.
DivergesExactlyIf ==
  /\ exit.code = "diverged" => Unstable(exit.program, exit.noTrace)
  /\ exit.code = "ok" => ~Unstable(exit.program, exit.noTrace)

\* The verifiers accept what a run leaves in an empty directory exactly when
\* its program avoids what they refuse: an import after something else
\* happened, an artifact after anything but artifacts, the events that are
\* formatted by hand or carry more keys, a top-level `?`, a result that holds
\* its own digest or cannot be written.
VerifiesExactlyIf ==
  Finished /\ exit.fresh => (Verifies <=> Acceptable(exit.program))

\* A run ends with the one digest that its program determines: it does not
\* depend on what lies in the directory, it is the digest the program was
\* told, and exactly the programs that have such a digest do not diverge.
DigestsSettle == RunIdsAreDeterministic /\ SelfDigestIsRunId /\ DivergesExactlyIf

\* What the files say of the trace is in the trace: the artifacts of the
\* receipt, and the partial trace of a failure.
RecordsMatchTrace == ReceiptsListTheirArtifacts /\ PartialTraceIsPrefix
=============================================================================
