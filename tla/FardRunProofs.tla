---------------------------- MODULE FardRunProofs ----------------------------
(***************************************************************************)
(* Proofs about FardRun: what fardverify accepts as a bundle is the work   *)
(* of one attempt, the records agree with the trace they are about, what a *)
(* failed run leaves passes for a success in two cases only, a program     *)
(* ends with the one RunID that it determines, and the verifiers accept    *)
(* what a run leaves exactly if its program avoids what they refuse.       *)
(*                                                                         *)
(* The invariant says of the process where it stands in its plan, counted  *)
(* from the end (Left), and of the directory which files the attempt has   *)
(* written by then.  What other runs left there is anything of the right   *)
(* type.                                                                   *)
(***************************************************************************)
EXTENDS FardRun, FiniteSetTheorems, SequenceTheorems, WellFoundedInduction, TLAPS

Left == Len(run.todo)

CleaningUp == Head(run.todo) \in {"truncate", "remove", "reopen"}

Attempting == Running /\ ~CleaningUp

Failing == {"error", "qmark"}

\* The self digest that the given attempt can be told.
SelfsAt(n) == IF n = 1 THEN FirstSelfs ELSE IF n = 2 THEN SecondSelfs ELSE Selfs

\* The attempt whose program sees run.self.
Telling == IF CleaningUp THEN run.attempt + 1 ELSE run.attempt

-----------------------------------------------------------------------------
(* The invariant *)

\* What is left of an attempt is the end of its plan.
OnPlan(todo, steps, tail) ==
  /\ Len(todo) <= Len(steps) + Len(tail)
  /\ \A i \in 1 .. Len(todo) :
       LET left == Len(todo) + 1 - i
       IN todo[i] = IF left <= Len(tail) THEN tail[Len(tail) + 1 - left]
                    ELSE steps[Len(steps) + Len(tail) + 1 - left]

PlanInv == Running =>
  IF CleaningUp
  THEN /\ run.todo \in {<<"truncate", "remove", "reopen">>, <<"remove", "reopen">>, <<"reopen">>}
       /\ TailOf(run.program.outcome) = OkTail
       /\ run.attempt < MaxAttempts
  ELSE OnPlan(run.todo, run.program.steps, TailOf(run.program.outcome))

\* A RunID that the program is told is one of fewer attempts.
SelfInv == Running =>
  /\ run.self \in SelfsAt(Telling)
  /\ run.prev = IF Telling = 1 THEN Absent ELSE run.self
  /\ run.trace \in Traces(SelfsAt(run.attempt))
  /\ run.partial \in Traces(SelfsAt(run.attempt)) \union {Absent}

\* The trace on disk is the one in the process, unless there is to be none.
TraceInv == Attempting =>
  /\ run.sink = "trace" => dir.trace = run.trace
  /\ run.sink = "devnull" => run.noTrace /\ run.attempt = 1

\* The files that this attempt has written by now hold what it writes there.
FilesInv == Attempting =>
  /\ TailOf(run.program.outcome) = OkTail =>
       /\ Left <= 4 => dir.result = Result
       /\ Left <= 3 => dir.graph = Graph
       /\ Left <= 1 => dir.digests = DigestsOf(dir)
  /\ run.program.outcome = "error" =>
       /\ Left <= 7 => dir.graph = Graph
       /\ Left <= 5 => dir.error = Failure
       /\ Left <= 1 => dir.digests = DigestsOf(dir)
  /\ run.program.outcome = "qmark" =>
       /\ Left <= 5 => dir.error = Failure
       /\ Left <= 3 => dir.graph = Graph
       /\ Left <= 1 => dir.digests = DigestsOf(dir)

Lacks(trace, tag) == \A i \in DOMAIN trace : trace[i] # NL => trace[i].t # tag

IsPartial(partial, trace) ==
  /\ partial \in Traces(Selfs)
  /\ Len(partial) <= Len(trace)
  /\ \A i \in DOMAIN partial : trace[i] = partial[i]
  /\ Lacks(partial, "witnessed_failure")

\* The failure is witnessed once.
PartialInv == Attempting =>
  IF run.program.outcome \in Failing /\ Left <= 6
  THEN IsPartial(run.partial, run.trace)
  ELSE Lacks(run.trace, "witnessed_failure")

\* A run that cannot write its result does not get to the module graph.
GraphInv ==
  Attempting /\ run.program.outcome = "not_jsonable" => Lacks(run.trace, "module_graph")

DepsInv == Running => run.deps = Cardinality(Positions(run.trace, "artifact_dep"))

SealOf(s) ==
  /\ s.ok = (s.program.outcome \notin Failing)
  /\ s.id.ok = s.ok
  /\ s.id.graph = s.graph
  /\ s.id.trace \in {NoTrace, s.trace}
  /\ s.id.leaf \in {s.leaf, [self |-> SelfMark]}
  /\ s.ok => s.leaf \in Results(Selfs)
  /\ ~s.ok => s.leaf \in Failures(Selfs) /\ IsPartial(s.leaf.partial, s.trace)

SealedInv ==
  /\ \A s \in sealed : SealOf(s)
  /\ Sealed => \E s \in sealed : s.id = dir.digests

IndInv ==
  /\ TypeOK
  /\ PlanInv
  /\ SelfInv
  /\ TraceInv
  /\ FilesInv
  /\ PartialInv
  /\ GraphInv
  /\ DepsInv
  /\ SealedInv
  /\ ReceiptsListTheirArtifacts

-----------------------------------------------------------------------------
(* What is told at which attempt *)

LEMMA TracesGrow ==
  ASSUME NEW S, NEW T, S \subseteq T
  PROVE  Events(S) \subseteq Events(T) /\ Traces(S) \subseteq Traces(T)
<1>1. Events(S) \subseteq Events(T)
  BY DEF Events
<1>2. QED
  BY <1>1 DEF Traces

LEMMA RunIdsGrow ==
  ASSUME NEW S, NEW T, S \subseteq T
  PROVE  /\ Results(S) \subseteq Results(T)
         /\ Failures(S) \subseteq Failures(T)
         /\ RunIdsOf(S) \subseteq RunIdsOf(T)
<1>1. Traces(S) \subseteq Traces(T)
  BY TracesGrow
<1>2. Results(S) \subseteq Results(T)
  BY DEF Results
<1>3. Failures(S) \subseteq Failures(T)
  BY <1>1 DEF Failures
<1>4. Leaves(S) \subseteq Leaves(T)
  BY <1>2, <1>3 DEF Leaves
<1>5. QED
  BY <1>1, <1>2, <1>3, <1>4 DEF RunIdsOf

LEMMA SelfsGrow ==
  ASSUME NEW n \in 1 .. MaxAttempts
  PROVE  /\ SelfsAt(n) \subseteq Selfs
         /\ Traces(SelfsAt(n)) \subseteq Traces(Selfs)
         /\ RunIdsOf(SelfsAt(n)) \subseteq RunIds
         /\ n < MaxAttempts => /\ RunIdsOf(SelfsAt(n)) \subseteq SelfsAt(n + 1)
                               /\ SelfsAt(n) \subseteq SelfsAt(n + 1)
<1>1. FirstSelfs \subseteq SecondSelfs
  BY DEF SecondSelfs
<1>2. SecondSelfs \subseteq Selfs
  BY DEF Selfs
<1>3. SelfsAt(n) \subseteq Selfs
  BY <1>1, <1>2 DEF SelfsAt
<1>4. Traces(SelfsAt(n)) \subseteq Traces(Selfs)
  BY <1>3, TracesGrow
<1>5. RunIdsOf(SelfsAt(n)) \subseteq RunIds
  BY <1>3, RunIdsGrow DEF RunIds
<1>6. ASSUME n < MaxAttempts
      PROVE  RunIdsOf(SelfsAt(n)) \subseteq SelfsAt(n + 1) /\ SelfsAt(n) \subseteq SelfsAt(n + 1)
  <2>1. CASE n = 1
    BY <2>1, <1>1 DEF SelfsAt, SecondSelfs
  <2>2. CASE n = 2
    BY <2>2, <1>2 DEF SelfsAt, Selfs
  <2>3. QED
    BY <1>6, <2>1, <2>2 DEF MaxAttempts
<1>7. QED
  BY <1>3, <1>4, <1>5, <1>6

-----------------------------------------------------------------------------
(* Where the process stands *)

LEMMA RunIsTyped ==
  ASSUME TypeOK, Running
  PROVE  /\ run \in RunStates
         /\ run.program \in Programs /\ run.program.outcome \in Outcomes
         /\ run.program.steps \in Seq(Steps)
         /\ run.noTrace \in BOOLEAN /\ run.fresh \in BOOLEAN
         /\ run.todo \in Seq(Items) /\ run.todo # <<>>
         /\ run.attempt \in 1 .. 3 /\ run.sink \in {"trace", "devnull"}
         /\ run.trace \in Traces(Selfs) /\ run.first \in BOOLEAN
         /\ run.partial \in Traces(Selfs) \union {Absent} /\ run.accessed \in BOOLEAN
         /\ run.self \in Selfs /\ run.prev \in RunIds \union {Absent} /\ run.deps \in Nat
<1>1. run \in RunStates
  BY DEF TypeOK, Running
<1>2. QED
  BY <1>1, ProgramsAssumption DEF RunStates, MaxAttempts

LEMMA RunStatesRun ==
  ASSUME NEW r \in RunStates
  PROVE  r # NotRunning
<1>1. r.todo # <<>> /\ NotRunning.todo = <<>>
  BY DEF RunStates, NotRunning
<1>2. QED
  BY <1>1

LEMMA Tails ==
  ASSUME NEW outcome \in Outcomes
  PROVE  /\ outcome \in Outcomes \ {"error", "qmark", "not_jsonable"} <=> TailOf(outcome) = OkTail
         /\ outcome \in Outcomes \ {"error", "qmark", "not_jsonable"} =>
              /\ Len(TailOf(outcome)) = 5 /\ TailOf(outcome)[1] = "result"
              /\ TailOf(outcome)[2] = "graph" /\ TailOf(outcome)[3] = "graph_event"
              /\ TailOf(outcome)[4] = "digests" /\ TailOf(outcome)[5] = "settle"
         /\ outcome = "error" =>
              /\ Len(TailOf(outcome)) = 8 /\ TailOf(outcome)[1] = "graph"
              /\ TailOf(outcome)[2] = "failure_event" /\ TailOf(outcome)[3] = "error"
              /\ TailOf(outcome)[4] = "graph" /\ TailOf(outcome)[5] = "graph_event"
              /\ TailOf(outcome)[6] = "error_event" /\ TailOf(outcome)[7] = "digests"
              /\ TailOf(outcome)[8] = "fail"
         /\ outcome = "qmark" =>
              /\ Len(TailOf(outcome)) = 7 /\ TailOf(outcome)[1] = "failure_event"
              /\ TailOf(outcome)[2] = "error" /\ TailOf(outcome)[3] = "error_event"
              /\ TailOf(outcome)[4] = "graph" /\ TailOf(outcome)[5] = "graph_event"
              /\ TailOf(outcome)[6] = "digests" /\ TailOf(outcome)[7] = "fail"
         /\ outcome = "not_jsonable" => Len(TailOf(outcome)) = 1 /\ TailOf(outcome)[1] = "fail"
  BY DEF TailOf, OkTail, ErrorTail, QmarkTail, Outcomes

\* Each item stands in one place of each plan.
LEMMA Control ==
  ASSUME TypeOK, PlanInv, Attempting,
         NEW outcome, outcome = run.program.outcome, NEW item, item = Head(run.todo)
  PROVE  /\ Left \in Nat \ {0}
         /\ Left > Len(TailOf(outcome)) => item \in Steps
         /\ Left <= Len(TailOf(outcome)) =>
              item = TailOf(outcome)[Len(TailOf(outcome)) + 1 - Left]
<1>1. run.todo \in Seq(Items) /\ run.todo # <<>> /\ Running
  BY RunIsTyped DEF Attempting
<1>2. Left \in Nat \ {0} /\ item = run.todo[1]
  BY <1>1 DEF Left
<1>3. OnPlan(run.todo, run.program.steps, TailOf(outcome))
  BY DEF PlanInv, Attempting
<1>4. run.program.steps \in Seq(Steps) /\ Len(TailOf(outcome)) \in Nat
  BY RunIsTyped, <1>1, Tails
<1>5. 1 \in 1 .. Len(run.todo)
  BY <1>1
<1>6. item = IF Left <= Len(TailOf(outcome)) THEN TailOf(outcome)[Len(TailOf(outcome)) + 1 - Left]
             ELSE run.program.steps[Len(run.program.steps) + Len(TailOf(outcome)) + 1 - Left]
  <2>1. Len(run.todo) + 1 - 1 = Left
    BY <1>2 DEF Left
  <2>2. QED
    BY <1>2, <1>3, <1>5, <2>1 DEF OnPlan
<1>7. Left <= Len(run.program.steps) + Len(TailOf(outcome))
  BY <1>3 DEF OnPlan, Left
<1>8. ASSUME Left > Len(TailOf(outcome))
      PROVE  item \in Steps
  <2> DEFINE k == Len(run.program.steps) + Len(TailOf(outcome)) + 1 - Left
  <2>1. k \in 1 .. Len(run.program.steps)
    <3>1. Len(run.program.steps) \in Nat
      BY <1>4
    <3>2. QED
      <4>1. \A a, b, c \in Nat : c > b /\ c <= a + b => a + b + 1 - c \in 1 .. a
        OBVIOUS
      <4>2. QED
        BY <1>2, <1>4, <1>7, <1>8, <3>1, <4>1
  <2>2. item = run.program.steps[k]
    BY <1>2, <1>4, <1>6, <1>8
  <2> HIDE DEF k
  <2>3. QED
    BY <2>1, <2>2, <1>4
<1>9. QED
  BY <1>2, <1>6, <1>8

LEMMA Places ==
  ASSUME TypeOK, PlanInv, Attempting,
         NEW outcome, outcome = run.program.outcome, NEW item, item = Head(run.todo)
  PROVE  /\ item = "result" => TailOf(outcome) = OkTail /\ Left = 5
         /\ item = "graph" => \/ TailOf(outcome) = OkTail /\ Left = 4
                              \/ outcome = "error" /\ Left \in {8, 5}
                              \/ outcome = "qmark" /\ Left = 4
         /\ item = "error" => outcome \in Failing /\ Left = 6
         /\ item = "digests" => (TailOf(outcome) = OkTail \/ outcome \in Failing) /\ Left = 2
         /\ item = "failure_event" => outcome \in Failing /\ Left = 7
         /\ item = "graph_event" => \/ TailOf(outcome) = OkTail /\ Left = 3
                                    \/ outcome = "error" /\ Left = 4
                                    \/ outcome = "qmark" /\ Left = 3
         /\ item = "error_event" => \/ outcome = "error" /\ Left = 3
                                    \/ outcome = "qmark" /\ Left = 5
         /\ item = "settle" => TailOf(outcome) = OkTail /\ Left = 1
         /\ item = "fail" => outcome \in Failing \union {"not_jsonable"} /\ Left = 1
         /\ item \in Steps => Left > Len(TailOf(outcome))
         /\ item \notin {"settle", "fail"} => Left > 1
<1>1. outcome \in Outcomes
  BY RunIsTyped DEF Attempting
<1>2. /\ Left \in Nat \ {0}
      /\ Left > Len(TailOf(outcome)) => item \in Steps
      /\ Left <= Len(TailOf(outcome)) => item = TailOf(outcome)[Len(TailOf(outcome)) + 1 - Left]
  BY Control
<1>3. CASE outcome \in Outcomes \ {"error", "qmark", "not_jsonable"}
  <2>1. Len(TailOf(outcome)) = 5 /\ TailOf(outcome) = OkTail
    BY <1>1, <1>3, Tails
  <2>2. CASE Left > 5
    BY <2>1, <2>2, <1>2 DEF Steps
  <2>3. CASE Left <= 5
    BY <2>1, <2>3, <1>1, <1>2, <1>3, Tails DEF Steps
  <2>4. QED
    BY <2>2, <2>3, <1>2
<1>4. CASE outcome = "error"
  <2>1. Len(TailOf(outcome)) = 8
    BY <1>1, <1>4, Tails
  <2>2. CASE Left > 8
    BY <2>1, <2>2, <1>2, <1>4 DEF Steps
  <2>3. CASE Left <= 8
    <3>1. Left \in 1 .. 8 /\ item = TailOf("error")[9 - Left]
      BY <2>1, <2>3, <1>2, <1>4
    <3>2. /\ Left = 8 => item = "graph"
          /\ Left = 7 => item = "failure_event"
          /\ Left = 6 => item = "error"
          /\ Left = 5 => item = "graph"
          /\ Left = 4 => item = "graph_event"
          /\ Left = 3 => item = "error_event"
          /\ Left = 2 => item = "digests"
          /\ Left = 1 => item = "fail"
      BY <1>1, <1>4, <3>1, Tails
    <3>3. QED
      <4>1. /\ item = "graph" <=> Left \in {8, 5}
            /\ item = "failure_event" <=> Left = 7
            /\ item = "error" <=> Left = 6
            /\ item = "graph_event" <=> Left = 4
            /\ item = "error_event" <=> Left = 3
            /\ item = "digests" <=> Left = 2
            /\ item = "fail" <=> Left = 1
            /\ item \notin Steps /\ item # "settle" /\ item # "result"
        BY <3>1, <3>2 DEF Steps
      <4>2. QED
        BY <3>1, <4>1, <1>4 DEF Failing
  <2>4. QED
    BY <2>2, <2>3, <1>2
<1>5. CASE outcome = "qmark"
  <2>1. Len(TailOf(outcome)) = 7
    BY <1>1, <1>5, Tails
  <2>2. CASE Left > 7
    BY <2>1, <2>2, <1>2, <1>5 DEF Steps
  <2>3. CASE Left <= 7
    BY <2>1, <2>3, <1>1, <1>2, <1>5, Tails DEF Steps, Failing
  <2>4. QED
    BY <2>2, <2>3, <1>2
<1>6. CASE outcome = "not_jsonable"
  <2>1. Len(TailOf(outcome)) = 1 /\ TailOf(outcome)[1] = "fail"
    BY <1>1, <1>6, Tails
  <2>2. CASE Left > 1
    BY <2>1, <2>2, <1>2, <1>6 DEF Steps
  <2>3. CASE Left <= 1
    BY <2>1, <2>3, <1>2, <1>6 DEF Steps, Failing
  <2>4. QED
    BY <2>2, <2>3, <1>2
<1>7. QED
  BY <1>1, <1>3, <1>4, <1>5, <1>6

\* What is left when the first item is done, if it is not the last.
LEMMA Advance ==
  ASSUME TypeOK, PlanInv, Attempting, Head(run.todo) \notin {"settle", "fail"}
  PROVE  /\ Tail(run.todo) \in Seq(Items) \ {<<>>}
         /\ Len(Tail(run.todo)) = Left - 1
         /\ OnPlan(Tail(run.todo), run.program.steps, TailOf(run.program.outcome))
         /\ Head(Tail(run.todo)) \notin {"truncate", "remove", "reopen"}
<1> DEFINE todo  == run.todo
           steps == run.program.steps
           tail  == TailOf(run.program.outcome)
           rest  == Tail(run.todo)
<1>1. todo \in Seq(Items) /\ steps \in Seq(Steps) /\ run.program.outcome \in Outcomes
  BY RunIsTyped DEF Attempting
<1>2. Left > 1 /\ Left = Len(todo) /\ Left \in Nat
  BY Places, <1>1 DEF Left
<1>3. OnPlan(todo, steps, tail)
  BY DEF PlanInv, Attempting
<1>4. /\ rest \in Seq(Items) /\ Len(rest) = Left - 1
      /\ \A i \in 1 .. Len(rest) : rest[i] = todo[i + 1]
  BY <1>1, <1>2, HeadTailProperties DEF Left
<1>5. Len(steps) \in Nat /\ Len(tail) \in Nat
  BY <1>1, Tails
<1> HIDE DEF todo, steps, tail, rest
<1>6. OnPlan(rest, steps, tail)
  <2>1. Len(rest) <= Len(steps) + Len(tail)
    BY <1>2, <1>3, <1>4, <1>5 DEF OnPlan
  <2>2. ASSUME NEW i \in 1 .. Len(rest)
        PROVE  /\ i + 1 \in 1 .. Len(todo)
               /\ Len(rest) + 1 - i = Len(todo) + 1 - (i + 1)
               /\ rest[i] = todo[i + 1]
    BY <1>2, <1>4
  <2>3. QED
    BY <2>1, <2>2, <1>3 DEF OnPlan
<1>7. Head(rest) \notin {"truncate", "remove", "reopen"}
  <2> DEFINE left == Left - 1
  <2>1. Head(rest) = rest[1] /\ 1 \in 1 .. Len(rest) /\ left \in Nat \ {0}
    BY <1>2, <1>4
  <2>2. Len(rest) + 1 - 1 = left /\ left <= Len(steps) + Len(tail)
    BY <1>2, <1>4, <1>6 DEF OnPlan
  <2>3. rest[1] = IF left <= Len(tail) THEN tail[Len(tail) + 1 - left]
                        ELSE steps[Len(steps) + Len(tail) + 1 - left]
    BY <2>1, <2>2, <1>6 DEF OnPlan
  <2>4. CASE left > Len(tail)
    <3>1. \A a, b, c \in Nat : c > b /\ c <= a + b => a + b + 1 - c \in 1 .. a
      OBVIOUS
    <3>2. Len(steps) + Len(tail) + 1 - left \in 1 .. Len(steps)
      BY <3>1, <2>1, <2>2, <2>4, <1>5
    <3>3. rest[1] \in Steps
      BY <3>2, <2>1, <2>3, <2>4, <1>1, <1>5
    <3>4. QED
      BY <3>3, <2>1 DEF Steps
  <2>5. CASE left <= Len(tail)
    <3>1. \A i \in 1 .. Len(tail) : tail[i] \notin {"truncate", "remove", "reopen"}
      BY <1>1 DEF tail, TailOf, OkTail, ErrorTail, QmarkTail, Outcomes
    <3>2. Len(tail) + 1 - left \in 1 .. Len(tail)
      <4>1. \A b, c \in Nat : c > 0 /\ c <= b => b + 1 - c \in 1 .. b
        OBVIOUS
      <4>2. left \in Nat /\ left > 0
        BY <2>1, <1>2
      <4> HIDE DEF left
      <4>3. QED
        BY <4>1, <4>2, <2>5, <1>5
    <3>3. QED
      BY <2>1, <2>3, <2>5, <3>1, <3>2
  <2>6. QED
    BY <2>1, <2>4, <2>5, <1>5
<1>8. rest # <<>>
  <2>1. Len(rest) # 0
    BY <1>2, <1>4
  <2>2. QED
    BY <2>1
<1>9. QED
  BY <1>4, <1>6, <1>7, <1>8 DEF todo, steps, tail, rest

\* An attempt begins at the start of its plan.
LEMMA PlanBegins ==
  ASSUME NEW program \in Programs
  PROVE  /\ ToDo(program) \in Seq(Items) \ {<<>>}
         /\ OnPlan(ToDo(program), program.steps, TailOf(program.outcome))
         /\ Len(ToDo(program)) = Len(program.steps) + Len(TailOf(program.outcome))
         /\ Head(ToDo(program)) \notin {"truncate", "remove", "reopen"}
<1> DEFINE steps == program.steps
           tail  == TailOf(program.outcome)
           todo  == steps \o tail
<1>1. steps \in Seq(Steps) /\ program.outcome \in Outcomes
  BY ProgramsAssumption
<1>2. tail \in Seq(Items) /\ Len(tail) \in Nat \ {0}
  <2>1. Len(tail) \in Nat \ {0}
    BY <1>1, Tails
  <2>2. tail \in Seq(Items)
    <3>1. OkTail \in Seq(Items)
      BY DEF OkTail, Items, Files, EventItems
    <3>2. ErrorTail \in Seq(Items)
      BY DEF ErrorTail, Items, Files, EventItems
    <3>3. QmarkTail \in Seq(Items)
      BY DEF QmarkTail, Items, Files, EventItems
    <3>4. <<"fail">> \in Seq(Items)
      BY DEF Items
    <3>5. QED
      BY <1>1, <3>1, <3>2, <3>3, <3>4 DEF TailOf, Outcomes
  <2>3. QED
    BY <2>1, <2>2
<1>3. steps \in Seq(Items) /\ Len(steps) \in Nat
  BY <1>1 DEF Items
<1>4. todo = ToDo(program)
  BY DEF ToDo
<1> HIDE DEF steps, tail
<1>5. /\ todo \in Seq(Items) /\ Len(todo) = Len(steps) + Len(tail)
      /\ \A i \in 1 .. Len(todo) :
           todo[i] = IF i <= Len(steps) THEN steps[i] ELSE tail[i - Len(steps)]
  BY <1>2, <1>3
<1> HIDE DEF todo
<1>6. OnPlan(todo, steps, tail)
  BY <1>2, <1>3, <1>5 DEF OnPlan
<1>7. todo # <<>> /\ Head(todo) = todo[1] /\ 1 \in 1 .. Len(todo)
  BY <1>2, <1>3, <1>5
<1>8. Head(todo) \notin {"truncate", "remove", "reopen"}
  <2>1. CASE Len(steps) > 0
    <3>1. steps[1] \in Steps
      BY <2>1, <1>1, <1>3 DEF steps
    <3>2. QED
      BY <2>1, <3>1, <1>3, <1>5, <1>7 DEF Steps
  <2>2. CASE Len(steps) = 0
    <3>1. tail[1] \notin {"truncate", "remove", "reopen"}
      BY <1>1 DEF tail, TailOf, OkTail, ErrorTail, QmarkTail, Outcomes
    <3>2. QED
      BY <2>2, <3>1, <1>3, <1>5, <1>7
  <2>3. QED
    BY <2>1, <2>2, <1>3
<1>9. QED
  BY <1>4, <1>5, <1>6, <1>7, <1>8 DEF steps, tail

-----------------------------------------------------------------------------
(* What is added to a trace *)

LEMMA LinesAre ==
  ASSUME NEW S, NEW events \in Seq(S), NEW first \in BOOLEAN
  PROVE  /\ Lines(first, events) \in Seq(S \union {NL})
         /\ \A i \in DOMAIN Lines(first, events) :
              \/ Lines(first, events)[i] = NL
              \/ \E j \in DOMAIN events : Lines(first, events)[i] = events[j]
<1> DEFINE n == Len(events)
<1>1. n \in Nat /\ DOMAIN events = 1 .. n /\ \A j \in 1 .. n : events[j] \in S
  OBVIOUS
<1> HIDE DEF n
<1>2. CASE first
  <2> DEFINE lines == [i \in 1 .. 2 * n - 1 |-> IF i % 2 = 1 THEN events[(i + 1) \div 2] ELSE NL]
  <2>1. Lines(first, events) = lines
    BY <1>2 DEF Lines, n
  <2>2. ASSUME NEW i \in 1 .. 2 * n - 1
        PROVE  (i + 1) \div 2 \in 1 .. n
    BY <1>1
  <2>3. \A i \in 1 .. 2 * n - 1 : lines[i] \in S \union {NL}
    BY <1>1, <2>2
  <2>4. lines \in Seq(S \union {NL})
    <3>1. CASE n = 0
      <4>1. 1 .. 2 * n - 1 = {} /\ 1 .. 0 = {}
        BY <3>1
      <4>2. \E k \in Nat : lines \in [1 .. k -> S \union {NL}]
        BY <4>1, <2>3
      <4> HIDE DEF lines
      <4>3. QED
        BY <4>2, SeqDef
    <3>2. CASE n > 0
      <4>1. 2 * n - 1 \in Nat /\ lines \in [1 .. 2 * n - 1 -> S \union {NL}]
        BY <3>2, <1>1, <2>3
      <4> HIDE DEF lines
      <4>2. QED
        BY <4>1, SeqDef
    <3>3. QED
      BY <3>1, <3>2, <1>1
  <2>5. QED
    BY <1>1, <2>1, <2>2, <2>4
<1>3. CASE ~first
  <2> DEFINE lines == [i \in 1 .. 2 * n |-> IF i % 2 = 0 THEN events[i \div 2] ELSE NL]
  <2>1. Lines(first, events) = lines
    BY <1>3 DEF Lines, n
  <2>2. ASSUME NEW i \in 1 .. 2 * n, i % 2 = 0
        PROVE  i \div 2 \in 1 .. n
    BY <1>1, <2>2
  <2>3. \A i \in 1 .. 2 * n : lines[i] \in S \union {NL}
    BY <1>1, <2>2
  <2>4. lines \in Seq(S \union {NL})
    <3>1. 2 * n \in Nat /\ lines \in [1 .. 2 * n -> S \union {NL}]
      BY <1>1, <2>3
    <3> HIDE DEF lines
    <3>2. QED
      BY <3>1, SeqDef
  <2>5. QED
    BY <1>1, <2>1, <2>2, <2>4
<1>4. QED
  BY <1>2, <1>3

\* No step but one writes a failure, a module graph, or a dependency.
LEMMA EventsAre ==
  ASSUME TypeOK, Running, NEW selfs, run.self \in selfs,
         NEW step \in (Steps \ {"artifact"}) \union EventItems
  PROVE  /\ EventsOf(step) \in Seq(Events(selfs))
         /\ \A i \in DOMAIN EventsOf(step) :
              /\ EventsOf(step)[i].t # "artifact_dep"
              /\ step # "failure_event" => EventsOf(step)[i].t # "witnessed_failure"
              /\ step # "graph_event" => EventsOf(step)[i].t # "module_graph"
<1>1. <<runs, run.attempt>> \in Nat \X Nat
  BY RunIsTyped, MaxRunsAssumption DEF TypeOK
<1>2. \A t \in Written, keys \in SUBSET Keys, sorted \in BOOLEAN :
        Event(t, keys, sorted) \in Events(selfs) /\ Event(t, keys, sorted).t = t
  BY DEF Event, Events
<1>3. \A t \in Written, keys \in SUBSET Keys :
        Child(t, keys, Uuid) \in Events(selfs) /\ Child(t, keys, Uuid).t = t
  BY <1>1 DEF Child, Uuid, Events
<1>4. \A kind \in {"std", "pkg"} :
        Resolve(kind) \in Events(selfs) /\ Resolve(kind).t = "module_resolve"
  <2>1. {"cid", "kind", "name", "t"} \in SUBSET Keys /\ "module_resolve" \in Written
    BY DEF Keys, Written, Tags
  <2>2. QED
    BY <2>1 DEF Resolve, Events
<1>5. Emit(run.self) \in Events(selfs) /\ Emit(run.self).t = "emit"
  <2>1. {"t", "v"} \in SUBSET Keys /\ "emit" \in Written
    BY DEF Keys, Written, Tags
  <2>2. QED
    BY <2>1 DEF Emit, Events
<1>6. CASE step = "import"
  <2> DEFINE e == Resolve("std")
  <2>1. EventsOf(step) = <<e>>
    BY <1>6 DEF EventsOf, EventsFor
  <2>2. e \in Events(selfs) /\ e.t = "module_resolve"
    BY <1>4
  <2> HIDE DEF e
  <2>3. EventsOf(step) \in Seq(Events(selfs)) /\ \A i \in DOMAIN EventsOf(step) : EventsOf(step)[i] = e
    BY <2>1, <2>2
  <2>4. QED
    BY <1>6, <2>2, <2>3
<1>7. CASE step = "import_pkg"
  <2> DEFINE e == Resolve("pkg")
  <2>1. EventsOf(step) = <<e>>
    BY <1>7 DEF EventsOf, EventsFor
  <2>2. e \in Events(selfs) /\ e.t = "module_resolve"
    BY <1>4
  <2> HIDE DEF e
  <2>3. EventsOf(step) \in Seq(Events(selfs)) /\ \A i \in DOMAIN EventsOf(step) : EventsOf(step)[i] = e
    BY <2>1, <2>2
  <2>4. QED
    BY <1>7, <2>2, <2>3
<1>8. CASE step = "emit"
  <2> DEFINE e == Event("emit", {"t", "v"}, TRUE)
  <2>1. EventsOf(step) = <<e>>
    BY <1>8 DEF EventsOf, EventsFor
  <2>2. e \in Events(selfs) /\ e.t = "emit"
    BY <1>2 DEF Keys, Written, Tags
  <2> HIDE DEF e
  <2>3. EventsOf(step) \in Seq(Events(selfs)) /\ \A i \in DOMAIN EventsOf(step) : EventsOf(step)[i] = e
    BY <2>1, <2>2
  <2>4. QED
    BY <1>8, <2>2, <2>3
<1>9. CASE step = "emit_self"
  <2> DEFINE e == Emit(run.self)
  <2>1. EventsOf(step) = <<e>>
    BY <1>9 DEF EventsOf, EventsFor
  <2>2. e \in Events(selfs) /\ e.t = "emit"
    BY <1>5
  <2> HIDE DEF e
  <2>3. EventsOf(step) \in Seq(Events(selfs)) /\ \A i \in DOMAIN EventsOf(step) : EventsOf(step)[i] = e
    BY <2>1, <2>2
  <2>4. QED
    BY <1>9, <2>2, <2>3
<1>10. CASE step = "import_artifact"
  <2> DEFINE e == Event("artifact_in", {"cid", "name", "path", "t"}, TRUE)
  <2>1. EventsOf(step) = <<e>>
    BY <1>10 DEF EventsOf, EventsFor
  <2>2. e \in Events(selfs) /\ e.t = "artifact_in"
    BY <1>2 DEF Keys, Written, Tags
  <2> HIDE DEF e
  <2>3. EventsOf(step) \in Seq(Events(selfs)) /\ \A i \in DOMAIN EventsOf(step) : EventsOf(step)[i] = e
    BY <2>1, <2>2
  <2>4. QED
    BY <1>10, <2>2, <2>3
<1>11. CASE step = "ffi"
  <2> DEFINE e == Event("ffi_oracle", {"boundary", "symbol", "t"}, FALSE)
  <2>1. EventsOf(step) = <<e>>
    BY <1>11 DEF EventsOf, EventsFor
  <2>2. e \in Events(selfs) /\ e.t = "ffi_oracle"
    BY <1>2 DEF Keys, Written, Tags
  <2> HIDE DEF e
  <2>3. EventsOf(step) \in Seq(Events(selfs)) /\ \A i \in DOMAIN EventsOf(step) : EventsOf(step)[i] = e
    BY <2>1, <2>2
  <2>4. QED
    BY <1>11, <2>2, <2>3
<1>12. CASE step = "failure_event"
  <2> DEFINE e == Event("witnessed_failure", {"code", "partial_trace_digest", "t"}, TRUE)
  <2>1. EventsOf(step) = <<e>>
    BY <1>12 DEF EventsOf, EventsFor
  <2>2. e \in Events(selfs) /\ e.t = "witnessed_failure"
    BY <1>2 DEF Keys, Written, Tags
  <2> HIDE DEF e
  <2>3. EventsOf(step) \in Seq(Events(selfs)) /\ \A i \in DOMAIN EventsOf(step) : EventsOf(step)[i] = e
    BY <2>1, <2>2
  <2>4. QED
    BY <1>12, <2>2, <2>3
<1>13. CASE step = "graph_event"
  <2> DEFINE e == Event("module_graph", {"cid", "t"}, TRUE)
  <2>1. EventsOf(step) = <<e>>
    BY <1>13 DEF EventsOf, EventsFor
  <2>2. e \in Events(selfs) /\ e.t = "module_graph"
    BY <1>2 DEF Keys, Written, Tags
  <2> HIDE DEF e
  <2>3. EventsOf(step) \in Seq(Events(selfs)) /\ \A i \in DOMAIN EventsOf(step) : EventsOf(step)[i] = e
    BY <2>1, <2>2
  <2>4. QED
    BY <1>13, <2>2, <2>3
<1>14. CASE step = "error_event"
  <2> DEFINE e == Event("error", {"code", "message", "t"}, TRUE)
  <2>1. EventsOf(step) = <<e>>
    BY <1>14 DEF EventsOf, EventsFor
  <2>2. e \in Events(selfs) /\ e.t = "error"
    BY <1>2 DEF Keys, Written, Tags
  <2> HIDE DEF e
  <2>3. EventsOf(step) \in Seq(Events(selfs)) /\ \A i \in DOMAIN EventsOf(step) : EventsOf(step)[i] = e
    BY <2>1, <2>2
  <2>4. QED
    BY <1>14, <2>2, <2>3
<1>15. CASE step = "self"
  BY <1>15 DEF EventsOf, EventsFor
<1>16. CASE step = "spawn_ordered"
  <2> DEFINE e1 == Child("child_spawn", {"spawn_id", "t"}, Uuid)
             e2 == Child("child_receipt", {"result_digest", "run_digest", "spawn_id", "t"}, Uuid)
             e3 == Event("spawn_ordered_complete", {"count", "t"}, FALSE)
  <2>1. EventsOf(step) = <<e1, e2, e3>>
    BY <1>16 DEF EventsOf, EventsFor
  <2>2. /\ e1 \in Events(selfs) /\ e1.t = "child_spawn"
        /\ e2 \in Events(selfs) /\ e2.t = "child_receipt"
        /\ e3 \in Events(selfs) /\ e3.t = "spawn_ordered_complete"
    BY <1>2, <1>3 DEF Keys, Written, Tags
  <2> HIDE DEF e1, e2, e3
  <2>3. /\ EventsOf(step) \in Seq(Events(selfs))
        /\ \A i \in DOMAIN EventsOf(step) : EventsOf(step)[i] \in {e1, e2, e3}
    BY <2>1, <2>2
  <2>4. QED
    BY <1>16, <2>2, <2>3
<1>17. CASE step = "compact_while"
  <2> DEFINE e1 == Event("while_start", {"t"}, TRUE)
             e2 == Event("while_step", {"h", "s", "t"}, FALSE)
             e3 == Event("while_end", {"chain_hex", "steps", "t"}, FALSE)
  <2>1. EventsOf(step) = <<e1, e2, e3>>
    BY <1>17 DEF EventsOf, EventsFor
  <2>2. /\ e1 \in Events(selfs) /\ e1.t = "while_start"
        /\ e2 \in Events(selfs) /\ e2.t = "while_step"
        /\ e3 \in Events(selfs) /\ e3.t = "while_end"
    BY <1>2, <1>3 DEF Keys, Written, Tags
  <2> HIDE DEF e1, e2, e3
  <2>3. /\ EventsOf(step) \in Seq(Events(selfs))
        /\ \A i \in DOMAIN EventsOf(step) : EventsOf(step)[i] \in {e1, e2, e3}
    BY <2>1, <2>2
  <2>4. QED
    BY <1>17, <2>2, <2>3
<1>18. CASE step = "emit_artifact"
  <2> DEFINE e == Event("artifact_out", {"cid", "name", "parents", "t"}, TRUE)
  <2>1. EventsOf(step) = <<e>>
    BY <1>18 DEF EventsOf, EventsFor
  <2>2. e \in Events(selfs) /\ e.t = "artifact_out"
    BY <1>2 DEF Keys, Written, Tags
  <2> HIDE DEF e
  <2>3. EventsOf(step) \in Seq(Events(selfs)) /\ \A i \in DOMAIN EventsOf(step) : EventsOf(step)[i] = e
    BY <2>1, <2>2
  <2>4. QED
    BY <1>18, <2>2, <2>3
<1>19. QED
  BY <1>6, <1>7, <1>8, <1>9, <1>10, <1>11, <1>12, <1>13, <1>14, <1>15, <1>16, <1>17, <1>18
     DEF Steps, EventItems

LEMMA TraceExtends ==
  ASSUME NEW S, NEW a \in Traces(S), NEW b \in Traces(S)
  PROVE  /\ a \o b \in Traces(S)
         /\ Len(a \o b) >= Len(a)
         /\ \A i \in DOMAIN a : (a \o b)[i] = a[i]
         /\ \A tag : Lacks(a, tag) /\ Lacks(b, tag) => Lacks(a \o b, tag)
         /\ \A tag : Lacks(b, tag) => Positions(a \o b, tag) = Positions(a, tag)
         /\ \A partial : IsPartial(partial, a) => IsPartial(partial, a \o b)
<1> DEFINE c == a \o b
<1>1. /\ a \in Seq(Events(S) \union {NL}) /\ b \in Seq(Events(S) \union {NL})
      /\ Len(a) \in Nat /\ Len(b) \in Nat
      /\ DOMAIN a = 1 .. Len(a) /\ DOMAIN b = 1 .. Len(b)
  BY DEF Traces
<1>2. c \in Traces(S) /\ Len(c) = Len(a) + Len(b) /\ DOMAIN c = 1 .. Len(a) + Len(b)
  BY <1>1 DEF Traces
<1>3. \A i \in 1 .. Len(a) : c[i] = a[i]
  BY <1>1
<1>4. ASSUME NEW i \in 1 .. Len(a) + Len(b), i > Len(a)
      PROVE  i - Len(a) \in 1 .. Len(b) /\ c[i] = b[i - Len(a)]
  BY <1>1, <1>4
<1> HIDE DEF c
<1>5. ASSUME NEW tag, Lacks(a, tag), Lacks(b, tag)
      PROVE  Lacks(c, tag)
  <2>1. ASSUME NEW i \in 1 .. Len(a) + Len(b), c[i] # NL
        PROVE  c[i].t # tag
    <3>1. CASE i <= Len(a)
      BY <1>1, <1>3, <1>5, <2>1, <3>1 DEF Lacks
    <3>2. CASE i > Len(a)
      BY <1>1, <1>4, <1>5, <2>1, <3>2 DEF Lacks
    <3>3. QED
      BY <1>1, <3>1, <3>2
  <2>2. QED
    BY <1>2, <2>1 DEF Lacks
<1>6. ASSUME NEW tag, Lacks(b, tag)
      PROVE  Positions(c, tag) = Positions(a, tag)
  <2>1. ASSUME NEW i \in 1 .. Len(a) + Len(b), i > Len(a)
        PROVE  c[i] = NL \/ c[i].t # tag
    BY <1>1, <1>4, <1>6, <2>1 DEF Lacks
  <2>2. QED
    BY <1>1, <1>2, <1>3, <2>1 DEF Positions
<1>7. ASSUME NEW partial, IsPartial(partial, a)
      PROVE  IsPartial(partial, c)
  <2>1. partial \in Seq(Events(Selfs) \union {NL}) /\ Len(partial) <= Len(a)
        /\ \A i \in DOMAIN partial : a[i] = partial[i]
    BY <1>7 DEF IsPartial, Traces
  <2>2. Len(partial) \in Nat /\ DOMAIN partial = 1 .. Len(partial)
    BY <2>1
  <2>3. \A i \in DOMAIN partial : i \in 1 .. Len(a) /\ c[i] = partial[i]
    BY <1>1, <1>3, <2>1, <2>2
  <2>4. Len(partial) <= Len(c)
    BY <1>1, <1>2, <2>1, <2>2
  <2>5. QED
    BY <1>7, <2>3, <2>4 DEF IsPartial
<1>8. Len(c) >= Len(a)
  BY <1>1, <1>2
<1>9. QED
  BY <1>1, <1>2, <1>3, <1>5, <1>6, <1>7, <1>8 DEF c

LEMMA PositionsFinite ==
  ASSUME NEW S, NEW a \in Traces(S), NEW tag
  PROVE  /\ IsFiniteSet(Positions(a, tag))
         /\ Cardinality(Positions(a, tag)) \in Nat
<1>1. Positions(a, tag) \subseteq 1 .. Len(a) /\ Len(a) \in Nat
  BY DEF Positions, Traces
<1>2. IsFiniteSet(1 .. Len(a))
  BY <1>1, FS_Interval
<1>3. QED
  BY <1>1, <1>2, FS_Subset, FS_CardinalityType

-----------------------------------------------------------------------------
(* The steps of an attempt *)

\* Which item comes at which place: the converse of Places.
LEMMA Due ==
  ASSUME TypeOK, PlanInv, Attempting,
         NEW outcome, outcome = run.program.outcome, NEW item, item = Head(run.todo)
  PROVE  /\ TailOf(outcome) = OkTail =>
              /\ Left = 5 => item = "result"
              /\ Left = 4 => item = "graph"
              /\ Left = 2 => item = "digests"
         /\ outcome = "error" =>
              /\ Left = 8 => item = "graph"
              /\ Left = 7 => item = "failure_event"
              /\ Left = 6 => item = "error"
              /\ Left = 2 => item = "digests"
         /\ outcome = "qmark" =>
              /\ Left = 7 => item = "failure_event"
              /\ Left = 6 => item = "error"
              /\ Left = 4 => item = "graph"
              /\ Left = 2 => item = "digests"
<1>1. outcome \in Outcomes
  BY RunIsTyped DEF Attempting
<1>2. /\ Left \in Nat
      /\ Left <= Len(TailOf(outcome)) => item = TailOf(outcome)[Len(TailOf(outcome)) + 1 - Left]
  BY Control
<1>3. CASE TailOf(outcome) = OkTail
  <2>1. outcome \in Outcomes \ {"error", "qmark", "not_jsonable"}
    BY <1>1, <1>3, Tails
  <2>2. /\ Len(TailOf(outcome)) = 5
        /\ TailOf(outcome)[1] = "result"
        /\ TailOf(outcome)[2] = "graph"
        /\ TailOf(outcome)[4] = "digests"
    BY <1>1, <2>1, Tails
  <2>3. Left <= 5 => item = TailOf(outcome)[6 - Left]
    BY <1>2, <2>2
  <2>4. Left = 5 => item = "result"
    BY <2>2, <2>3
  <2>5. Left = 4 => item = "graph"
    BY <2>2, <2>3
  <2>6. Left = 2 => item = "digests"
    BY <2>2, <2>3
  <2>7. QED
    BY <1>3, <2>4, <2>5, <2>6, Tails, <1>1
<1>4. CASE outcome = "error"
  <2>1. /\ Len(TailOf(outcome)) = 8
        /\ TailOf(outcome)[1] = "graph"
        /\ TailOf(outcome)[2] = "failure_event"
        /\ TailOf(outcome)[3] = "error"
        /\ TailOf(outcome)[7] = "digests"
    BY <1>1, <1>4, Tails
  <2>2. Left <= 8 => item = TailOf(outcome)[9 - Left]
    BY <1>2, <2>1
  <2>3. Left = 8 => item = "graph"
    BY <2>1, <2>2
  <2>4. Left = 7 => item = "failure_event"
    BY <2>1, <2>2
  <2>5. Left = 6 => item = "error"
    BY <2>1, <2>2
  <2>6. Left = 2 => item = "digests"
    BY <2>1, <2>2
  <2>7. QED
    BY <1>4, <2>3, <2>4, <2>5, <2>6, Tails, <1>1
<1>5. CASE outcome = "qmark"
  <2>1. /\ Len(TailOf(outcome)) = 7
        /\ TailOf(outcome)[1] = "failure_event"
        /\ TailOf(outcome)[2] = "error"
        /\ TailOf(outcome)[4] = "graph"
        /\ TailOf(outcome)[6] = "digests"
    BY <1>1, <1>5, Tails
  <2>2. Left <= 7 => item = TailOf(outcome)[8 - Left]
    BY <1>2, <2>1
  <2>3. Left = 7 => item = "failure_event"
    BY <2>1, <2>2
  <2>4. Left = 6 => item = "error"
    BY <2>1, <2>2
  <2>5. Left = 4 => item = "graph"
    BY <2>1, <2>2
  <2>6. Left = 2 => item = "digests"
    BY <2>1, <2>2
  <2>7. QED
    BY <1>5, <2>3, <2>4, <2>5, <2>6, Tails, <1>1
<1>6. QED
  BY <1>3, <1>4, <1>5

\* The process has done the first item and goes on with the attempt.
Advances ==
  /\ run' \in RunStates
  /\ run'.todo = Tail(run.todo)
  /\ run'.program = run.program /\ run'.noTrace = run.noTrace /\ run'.attempt = run.attempt
  /\ run'.fresh = run.fresh /\ run'.sink = run.sink /\ run'.self = run.self /\ run'.prev = run.prev

LEMMA AdvancesInPlan ==
  ASSUME TypeOK, PlanInv, SelfInv, Attempting, Head(run.todo) \notin {"settle", "fail"}, Advances
  PROVE  /\ Running' /\ Attempting'
         /\ Left' = Left - 1 /\ Left \in Nat /\ Left > 1
         /\ PlanInv'
         /\ (run.self \in SelfsAt(Telling))' /\ (run.prev = IF Telling = 1 THEN Absent ELSE run.self)'
         /\ run.self \in SelfsAt(run.attempt)
<1>1. /\ Tail(run.todo) \in Seq(Items) \ {<<>>}
      /\ Len(Tail(run.todo)) = Left - 1
      /\ OnPlan(Tail(run.todo), run.program.steps, TailOf(run.program.outcome))
      /\ Head(Tail(run.todo)) \notin {"truncate", "remove", "reopen"}
  BY Advance
<1>2. Running'
  BY RunStatesRun DEF Advances, Running
<1>3. ~CleaningUp'
  BY <1>1 DEF Advances, CleaningUp
<1>4. Left' = Left - 1 /\ Left \in Nat /\ Left > 1
  BY <1>1, Places, Control DEF Advances, Left
<1>5. PlanInv'
  BY <1>1, <1>3 DEF Advances, PlanInv, CleaningUp
<1>6. Telling = run.attempt /\ Telling' = run.attempt
  BY <1>3 DEF Telling, Attempting, Advances
<1>7. /\ run.self \in SelfsAt(run.attempt)
      /\ run.prev = IF run.attempt = 1 THEN Absent ELSE run.self
  BY <1>6 DEF SelfInv, Attempting
<1>8. QED
  BY <1>2, <1>3, <1>4, <1>5, <1>6, <1>7 DEF Attempting, Advances

\* The files other than the trace are left alone by an event.
LEMMA FilesStay ==
  ASSUME TypeOK, PlanInv, SelfInv, FilesInv, Attempting,
         Head(run.todo) \in Steps \union EventItems, Advances,
         dir'.result = dir.result, dir'.graph = dir.graph, dir'.error = dir.error,
         Head(run.todo) # "failure_event" => run'.partial = run.partial
  PROVE  FilesInv'
<1> DEFINE item    == Head(run.todo)
           outcome == run.program.outcome
<1>1. Left' = Left - 1 /\ Left \in Nat /\ Left > 1
  BY AdvancesInPlan DEF Steps, EventItems
<1>2. Result' = Result /\ Graph' = Graph
  BY DEF Result, Graph, Advances
<1>3. item \notin {"result", "graph", "error", "digests"}
  BY DEF Steps, EventItems
<1>4. item # "failure_event" => Failure' = Failure
  BY DEF Failure, Advances
<1>5. outcome' = outcome
  BY DEF Advances
<1> HIDE DEF item, outcome
<1>6. CASE TailOf(outcome) = OkTail
  <2>1. Left # 5 /\ Left # 4 /\ Left # 2
    BY <1>3, <1>6, Due DEF item, outcome
  <2>2. /\ Left <= 4 => dir.result = Result
        /\ Left <= 3 => dir.graph = Graph
    BY <1>6 DEF FilesInv, outcome
  <2>3. outcome # "error" /\ outcome # "qmark"
    BY <1>6, Tails DEF Outcomes
  <2>4. QED
    BY <1>1, <1>2, <1>5, <1>6, <2>1, <2>2, <2>3 DEF FilesInv, outcome
<1>7. CASE outcome = "error"
  <2>1. Left # 8 /\ Left # 6 /\ Left # 2
    BY <1>3, <1>7, Due DEF item, outcome
  <2>2. /\ Left <= 7 => dir.graph = Graph
        /\ Left <= 5 => dir.error = Failure
    BY <1>7, Tails DEF FilesInv, outcome, Outcomes
  <2>3. item = "failure_event" => Left = 7
    BY Places DEF item
  <2>4. QED
    BY <1>1, <1>2, <1>4, <1>5, <1>7, <2>1, <2>2, <2>3, Tails DEF FilesInv, outcome, Outcomes
<1>8. CASE outcome = "qmark"
  <2>1. Left # 6 /\ Left # 4 /\ Left # 2
    BY <1>3, <1>8, Due DEF item, outcome
  <2>2. /\ Left <= 5 => dir.error = Failure
        /\ Left <= 3 => dir.graph = Graph
    BY <1>8, Tails DEF FilesInv, outcome, Outcomes
  <2>3. item = "failure_event" => Left = 7
    BY Places DEF item
  <2>4. QED
    BY <1>1, <1>2, <1>4, <1>5, <1>8, <2>1, <2>2, <2>3, Tails DEF FilesInv, outcome, Outcomes
<1>9. CASE TailOf(outcome) # OkTail /\ outcome \notin Failing
  BY <1>5, <1>9 DEF FilesInv, outcome, Failing
<1>10. QED
  BY <1>6, <1>7, <1>8, <1>9 DEF Failing

\* A step that only adds to the trace.
LEMMA TraceStep ==
  ASSUME IndInv, Attempting, Head(run.todo) \in Steps \union EventItems, Advances,
         NEW lines \in Traces(SelfsAt(run.attempt)),
         run'.trace = run.trace \o lines,
         dir' = SetTrace(run.trace \o lines),
         run'.deps = Cardinality(Positions(run.trace \o lines, "artifact_dep")),
         run'.partial = IF Head(run.todo) = "failure_event" THEN run.trace ELSE run.partial,
         Head(run.todo) # "failure_event" => Lacks(lines, "witnessed_failure"),
         Head(run.todo) # "graph_event" => Lacks(lines, "module_graph"),
         UNCHANGED <<receipts, exit, runs, sealed, passed>>
  PROVE  IndInv'
<1> DEFINE item  == Head(run.todo)
           trace == run.trace \o lines
           selfs == SelfsAt(run.attempt)
<1>1. /\ TypeOK /\ PlanInv /\ SelfInv /\ TraceInv /\ FilesInv /\ PartialInv /\ GraphInv
      /\ DepsInv /\ SealedInv /\ ReceiptsListTheirArtifacts
  BY DEF IndInv
<1>2. item \notin {"settle", "fail"}
  BY DEF Steps, EventItems
<1>3. /\ Running' /\ Attempting' /\ Left' = Left - 1 /\ Left \in Nat /\ Left > 1
      /\ PlanInv'
      /\ (run.self \in SelfsAt(Telling))'
      /\ (run.prev = IF Telling = 1 THEN Absent ELSE run.self)'
  BY <1>1, <1>2, AdvancesInPlan
<1>4. run.attempt \in 1 .. MaxAttempts
  BY <1>1, RunIsTyped DEF Attempting, MaxAttempts
<1>5. /\ run.trace \in Traces(selfs) /\ run.partial \in Traces(selfs) \union {Absent}
      /\ Traces(selfs) \subseteq Traces(Selfs)
  BY <1>1, <1>4, SelfsGrow DEF SelfInv, Attempting
<1>6. /\ trace \in Traces(selfs) /\ trace \in Traces(Selfs)
      /\ \A tag : Lacks(run.trace, tag) /\ Lacks(lines, tag) => Lacks(trace, tag)
      /\ \A partial : IsPartial(partial, run.trace) => IsPartial(partial, trace)
      /\ Len(trace) >= Len(run.trace) /\ \A i \in DOMAIN run.trace : trace[i] = run.trace[i]
  BY <1>5, TraceExtends
<1>7. dir' = IF run.sink = "trace" THEN [dir EXCEPT !.trace = trace] ELSE dir
  BY DEF SetTrace
<1> HIDE DEF trace, selfs
<1>8. /\ dir'.result = dir.result /\ dir'.graph = dir.graph /\ dir'.error = dir.error
      /\ dir'.digests = dir.digests
      /\ run.sink = "trace" => dir'.trace = trace
  BY <1>1, <1>7 DEF TypeOK
<1>9. TypeOK'
  <2>1. dir' \in [trace   : Traces(Selfs) \union {Absent},
                  graph   : Graphs \union {Absent, Torn},
                  result  : Results(Selfs) \union {Absent, Torn},
                  error   : Failures(Selfs) \union {Absent, Torn},
                  digests : RunIds \union {Absent, Torn}]
    BY <1>1, <1>6, <1>7 DEF TypeOK
  <2>2. run' \in RunStates
    BY DEF Advances
  <2>3. QED
    BY <1>1, <2>1, <2>2 DEF TypeOK
<1>10. SelfInv'
  <2>1. run'.trace \in Traces(selfs) /\ run'.partial \in Traces(selfs) \union {Absent}
    BY <1>5, <1>6 DEF trace
  <2>2. QED
    BY <1>3, <2>1 DEF SelfInv, Advances, selfs
<1>11. TraceInv'
  BY <1>1, <1>3, <1>8 DEF TraceInv, Advances, trace
<1>12. FilesInv'
  <2>1. item # "failure_event" => run'.partial = run.partial
    OBVIOUS
  <2>2. QED
    BY <1>1, <1>8, <2>1, FilesStay
<1>13. PartialInv'
  <2> DEFINE outcome == run.program.outcome
  <2>1. CASE item = "failure_event"
    <3>1. outcome \in Failing /\ Left = 7
      BY <1>1, <2>1, Places
    <3>2. Lacks(run.trace, "witnessed_failure")
      BY <1>1, <3>1 DEF PartialInv
    <3>3. IsPartial(run.trace, trace)
      BY <1>5, <1>6, <3>2 DEF IsPartial
    <3>4. QED
      BY <1>3, <2>1, <3>1, <3>3 DEF PartialInv, Advances, trace
  <2>2. CASE item # "failure_event"
    <3>1. run'.partial = run.partial /\ run'.trace = trace /\ Lacks(lines, "witnessed_failure")
      BY <2>2 DEF trace
    <3>2. CASE outcome \in Failing /\ Left <= 6
      <4>1. IsPartial(run.partial, trace)
        BY <1>1, <1>6, <3>2 DEF PartialInv
      <4>2. QED
        BY <1>3, <3>1, <3>2, <4>1 DEF PartialInv, Advances
    <3>3. CASE ~(outcome \in Failing /\ Left <= 6)
      <4>1. outcome \in Failing => Left # 7
        BY <1>1, <2>2, Due DEF Failing
      <4>2. Lacks(trace, "witnessed_failure")
        BY <1>1, <1>6, <3>1, <3>3 DEF PartialInv
      <4>3. QED
        BY <1>3, <3>1, <3>3, <4>1, <4>2 DEF PartialInv, Advances
    <3>4. QED
      BY <3>2, <3>3
  <2>3. QED
    BY <2>1, <2>2
<1>14. GraphInv'
  <2>1. ASSUME run.program.outcome = "not_jsonable"
        PROVE  Lacks(trace, "module_graph")
    <3>1. item # "graph_event"
      BY <1>1, <2>1, Places, Tails DEF Outcomes
    <3>2. QED
      BY <1>1, <1>6, <2>1, <3>1 DEF GraphInv
  <2>2. QED
    BY <1>3, <2>1 DEF GraphInv, Advances, trace
<1>15. DepsInv'
  BY DEF DepsInv
<1>16. SealedInv'
  BY <1>1, <1>8 DEF SealedInv, Sealed
<1>17. ReceiptsListTheirArtifacts'
  BY <1>1, <1>3 DEF ReceiptsListTheirArtifacts
<1>18. QED
  BY <1>3, <1>9, <1>10, <1>11, <1>12, <1>13, <1>14, <1>15, <1>16, <1>17 DEF IndInv

LEMMA EventsInd ==
  ASSUME IndInv, NEW item \in (Steps \ {"artifact"}) \union EventItems, Next1(item),
         NEW accessed \in BOOLEAN,
         WriteEvents(EventsOf(item), accessed,
                     IF item = "failure_event" THEN run.trace ELSE run.partial)
  PROVE  IndInv'
<1> DEFINE lines == Lines(run.first, EventsOf(item))
           trace == run.trace \o lines
           selfs == SelfsAt(run.attempt)
           partial == IF item = "failure_event" THEN run.trace ELSE run.partial
<1>1. TypeOK /\ PlanInv /\ SelfInv /\ DepsInv
  BY DEF IndInv
<1>2. Attempting /\ Running /\ Head(run.todo) = item
  BY DEF Next1, Attempting, CleaningUp, Steps, EventItems
<1>3. /\ run \in RunStates /\ run.first \in BOOLEAN /\ run.accessed \in BOOLEAN
      /\ run.attempt \in 1 .. MaxAttempts
  BY <1>1, <1>2, RunIsTyped DEF MaxAttempts
<1>4. run.self \in selfs /\ run.trace \in Traces(selfs)
      /\ run.partial \in Traces(selfs) \union {Absent}
  BY <1>1, <1>2 DEF SelfInv, Telling, Attempting
<1>5. Traces(selfs) \subseteq Traces(Selfs)
  BY <1>3, SelfsGrow
<1> HIDE DEF selfs
<1>6. /\ EventsOf(item) \in Seq(Events(selfs))
      /\ \A i \in DOMAIN EventsOf(item) :
           /\ EventsOf(item)[i].t # "artifact_dep"
           /\ item # "failure_event" => EventsOf(item)[i].t # "witnessed_failure"
           /\ item # "graph_event" => EventsOf(item)[i].t # "module_graph"
  BY <1>1, <1>2, <1>4, EventsAre
<1>7. /\ lines \in Traces(selfs)
      /\ \A i \in DOMAIN lines : lines[i] = NL \/ \E j \in DOMAIN EventsOf(item) : lines[i] = EventsOf(item)[j]
  BY <1>3, <1>6, LinesAre DEF Traces
<1> HIDE DEF lines
<1>8. /\ Lacks(lines, "artifact_dep")
      /\ item # "failure_event" => Lacks(lines, "witnessed_failure")
      /\ item # "graph_event" => Lacks(lines, "module_graph")
  BY <1>6, <1>7 DEF Lacks
<1>9. trace \in Traces(selfs) /\ Positions(trace, "artifact_dep") = Positions(run.trace, "artifact_dep")
  BY <1>4, <1>7, <1>8, TraceExtends
<1>10. /\ Tail(run.todo) \in Seq(Items) \ {<<>>}
  BY <1>1, <1>2, Advance DEF Steps, EventItems
<1>11. /\ run' = [run EXCEPT !.todo = Tail(@), !.trace = trace, !.first = @ /\ EventsOf(item) = <<>>,
                             !.accessed = @ \/ accessed, !.partial = partial]
       /\ dir' = SetTrace(trace)
       /\ UNCHANGED <<receipts, exit, runs, sealed, passed>>
  BY DEF WriteEvents, lines
<1>12. trace \in Traces(Selfs) /\ partial \in Traces(Selfs) \union {Absent}
  BY <1>4, <1>5, <1>9
<1> HIDE DEF trace, partial
<1>13. /\ Advances
       /\ run'.trace = trace /\ run'.partial = partial /\ run'.deps = run.deps
  <2>1. \A b \in BOOLEAN : (b /\ EventsOf(item) = <<>>) \in BOOLEAN /\ (b \/ accessed) \in BOOLEAN
    OBVIOUS
  <2>2. run' \in RunStates
    BY <1>3, <1>10, <1>11, <1>12, <2>1 DEF RunStates
  <2>3. QED
    BY <1>3, <1>11, <2>2 DEF Advances, RunStates
<1>14. run'.deps = Cardinality(Positions(trace, "artifact_dep"))
  BY <1>1, <1>2, <1>9, <1>13 DEF DepsInv
<1>15. QED
  BY <1>2, <1>7, <1>8, <1>11, <1>13, <1>14, TraceStep DEF trace, partial, selfs

LEMMA EvaluateArtifactInd ==
  ASSUME IndInv, EvaluateArtifact
  PROVE  IndInv'
<1> DEFINE lines == <<ArtifactDep, NL>>
           trace == run.trace \o lines
           selfs == SelfsAt(run.attempt)
<1>1. TypeOK /\ PlanInv /\ SelfInv /\ DepsInv
  BY DEF IndInv
<1>2. Attempting /\ Running /\ Head(run.todo) = "artifact"
  BY DEF EvaluateArtifact, Next1, Attempting, CleaningUp
<1>3. run \in RunStates /\ run.attempt \in 1 .. MaxAttempts /\ run.deps \in Nat
  BY <1>1, <1>2, RunIsTyped DEF MaxAttempts
<1>4. run.trace \in Traces(selfs)
  BY <1>1, <1>2 DEF SelfInv
<1>5. Traces(selfs) \subseteq Traces(Selfs) /\ Events(selfs) \subseteq Events(Selfs)
  BY <1>3, SelfsGrow, TracesGrow
<1> HIDE DEF selfs
<1>6. ArtifactDep \in Events(selfs) /\ ArtifactDep.t = "artifact_dep"
  <2>1. {"run_id", "t"} \in SUBSET Keys /\ "artifact_dep" \in Written
    BY DEF Keys, Written, Tags
  <2>2. QED
    BY <2>1 DEF ArtifactDep, Event, Events
<1>7. ArtifactDep # NL
  BY <1>5, <1>6, MarkersAssumption
<1>8. lines \in Traces(selfs) /\ Len(lines) = 2 /\ lines[1] = ArtifactDep /\ lines[2] = NL
  BY <1>6 DEF Traces
<1> HIDE DEF lines
<1>9. /\ trace \in Traces(selfs)
      /\ \A i \in DOMAIN run.trace : trace[i] = run.trace[i]
  BY <1>4, <1>8, TraceExtends
<1>10. /\ Len(run.trace) \in Nat /\ DOMAIN run.trace = 1 .. Len(run.trace)
       /\ DOMAIN trace = 1 .. Len(run.trace) + 2
       /\ trace[Len(run.trace) + 1] = ArtifactDep /\ trace[Len(run.trace) + 2] = NL
  <2>1. /\ run.trace \in Seq(Events(selfs) \union {NL}) /\ lines \in Seq(Events(selfs) \union {NL})
        /\ Len(run.trace) \in Nat
    BY <1>4, <1>8 DEF Traces
  <2>2. /\ trace \in Seq(Events(selfs) \union {NL})
        /\ Len(trace) = Len(run.trace) + Len(lines)
        /\ \A i \in 1 .. Len(run.trace) + Len(lines) :
             trace[i] = IF i <= Len(run.trace) THEN run.trace[i] ELSE lines[i - Len(run.trace)]
    BY <2>1, ConcatProperties
  <2>3. /\ trace[Len(run.trace) + 1] = lines[1]
        /\ trace[Len(run.trace) + 2] = lines[2]
    <3>1. \A n \in Nat : /\ n + 1 \in 1 .. n + 2 /\ n + 2 \in 1 .. n + 2
                         /\ ~(n + 1 <= n) /\ ~(n + 2 <= n)
                         /\ n + 1 - n = 1 /\ n + 2 - n = 2
      OBVIOUS
    <3> HIDE DEF trace
    <3>2. PICK n \in Nat : n = Len(run.trace)
      BY <2>1
    <3>3. \A i \in 1 .. n + 2 : trace[i] = IF i <= n THEN run.trace[i] ELSE lines[i - n]
      BY <1>8, <2>2, <3>2
    <3>4. trace[n + 1] = lines[n + 1 - n] /\ trace[n + 2] = lines[n + 2 - n]
      BY <3>1, <3>3
    <3>5. QED
      BY <3>1, <3>2, <3>4
  <2> HIDE DEF trace
  <2>4. QED
    BY <1>8, <2>1, <2>2, <2>3
<1> HIDE DEF trace
<1>11. Cardinality(Positions(trace, "artifact_dep")) = run.deps + 1
  <2> DEFINE n == Len(run.trace) + 1
  <2>1. n \notin Positions(run.trace, "artifact_dep")
    BY <1>10 DEF Positions
  <2>2. Positions(trace, "artifact_dep") = Positions(run.trace, "artifact_dep") \union {n}
    BY <1>6, <1>7, <1>9, <1>10 DEF Positions
  <2>3. IsFiniteSet(Positions(run.trace, "artifact_dep"))
    BY <1>4, PositionsFinite
  <2> HIDE DEF n
  <2>4. Cardinality(Positions(run.trace, "artifact_dep") \union {n})
          = Cardinality(Positions(run.trace, "artifact_dep")) + 1
    BY <2>1, <2>3, FS_AddElement
  <2>5. QED
    BY <2>2, <2>4, <1>1, <1>2 DEF DepsInv
<1>12. Lacks(lines, "witnessed_failure") /\ Lacks(lines, "module_graph")
  <2>1. DOMAIN lines = {1, 2}
    BY <1>8 DEF Traces
  <2>2. QED
    BY <1>6, <1>8, <2>1 DEF Lacks
<1>13. Tail(run.todo) \in Seq(Items) \ {<<>>}
  BY <1>1, <1>2, Advance
<1>14. /\ run' = [run EXCEPT !.todo = Tail(@), !.trace = trace, !.deps = @ + 1]
       /\ dir' = SetTrace(trace)
       /\ UNCHANGED <<receipts, exit, runs, sealed, passed>>
  BY DEF EvaluateArtifact, trace, lines
<1>15. /\ Advances
       /\ run'.trace = trace /\ run'.partial = run.partial /\ run'.deps = run.deps + 1
  <2>1. trace \in Traces(Selfs) /\ run.deps + 1 \in Nat
    BY <1>3, <1>5, <1>9
  <2>2. run' \in RunStates
    BY <1>3, <1>13, <1>14, <2>1 DEF RunStates
  <2>3. QED
    BY <1>3, <1>14, <2>2 DEF Advances, RunStates
<1>16. QED
  BY <1>2, <1>8, <1>11, <1>12, <1>14, <1>15, TraceStep DEF trace, selfs, Steps

\* What a file that an attempt writes holds has the types that its digest
\* may have.
LEMMA ContentsAre ==
  ASSUME TypeOK, SelfInv, Attempting
  PROVE  /\ Result \in Results(SelfsAt(run.attempt)) /\ Result \in Results(Selfs)
         /\ Failure \in Failures(SelfsAt(run.attempt)) /\ Failure \in Failures(Selfs)
         /\ Graph \in Graphs
<1>1. /\ run.program \in Programs /\ run.program.outcome \in Outcomes
      /\ run.attempt \in 1 .. MaxAttempts
  BY RunIsTyped DEF Attempting, MaxAttempts
<1>2. run.program.name \in Names
  BY <1>1 DEF Names
<1>3. /\ run.self \in SelfsAt(run.attempt)
      /\ run.partial \in Traces(SelfsAt(run.attempt)) \union {Absent}
  BY DEF SelfInv, Attempting, Telling
<1>4. Pending \in SelfsAt(run.attempt)
  BY DEF SelfsAt, FirstSelfs, SecondSelfs, Selfs
<1>5. Result \in Results(SelfsAt(run.attempt))
  BY <1>1, <1>2, <1>3, <1>4 DEF Result, Results, Outcomes
<1>6. Failure \in Failures(SelfsAt(run.attempt))
  BY <1>1, <1>3 DEF Failure, Failures
<1>7. Graph \in Graphs
  BY <1>2 DEF Graph, Graphs
<1>8. QED
  BY <1>1, <1>5, <1>6, <1>7, SelfsGrow, RunIdsGrow

\* The process goes on with nothing new but what is on disk.
LEMMA TodoAdvances ==
  ASSUME TypeOK, PlanInv, SelfInv, Attempting, Head(run.todo) \notin {"settle", "fail"},
         run' = [run EXCEPT !.todo = Tail(@)]
  PROVE  /\ Advances
         /\ run'.trace = run.trace /\ run'.partial = run.partial /\ run'.deps = run.deps
         /\ Result' = Result /\ Graph' = Graph /\ Failure' = Failure
         /\ SelfInv'
         /\ DepsInv' <=> DepsInv
<1>1. run \in RunStates
  BY RunIsTyped DEF Attempting
<1>2. Tail(run.todo) \in Seq(Items) \ {<<>>}
  BY Advance
<1>3. /\ Advances
      /\ run'.trace = run.trace /\ run'.partial = run.partial /\ run'.deps = run.deps
  <2>1. run' \in RunStates
    BY <1>1, <1>2 DEF RunStates
  <2>2. QED
    BY <1>1, <2>1 DEF Advances, RunStates
<1>4. Result' = Result /\ Graph' = Graph /\ Failure' = Failure
  BY <1>3 DEF Result, Graph, Failure, Advances
<1>5. Running /\ Running' /\ Attempting'
      /\ (run.self \in SelfsAt(Telling))' /\ (run.prev = IF Telling = 1 THEN Absent ELSE run.self)'
  BY <1>3, AdvancesInPlan DEF Attempting
<1>6. SelfInv'
  <2>1. run.trace \in Traces(SelfsAt(run.attempt))
        /\ run.partial \in Traces(SelfsAt(run.attempt)) \union {Absent}
    BY DEF SelfInv, Attempting
  <2>2. QED
    BY <1>3, <1>5, <2>1 DEF SelfInv, Advances
<1>7. DepsInv' <=> DepsInv
  BY <1>3, <1>5 DEF DepsInv
<1>8. QED
  BY <1>3, <1>4, <1>6, <1>7

\* A step that writes a file other than the trace.
LEMMA FileStep ==
  ASSUME IndInv, Attempting, Head(run.todo) \in {"result", "graph", "error", "digests"},
         run' = [run EXCEPT !.todo = Tail(@)],
         TypeOK', FilesInv', SealedInv',
         dir'.trace = dir.trace, UNCHANGED <<receipts, exit, runs, passed>>
  PROVE  IndInv'
<1>1. /\ TypeOK /\ PlanInv /\ SelfInv /\ TraceInv /\ FilesInv /\ PartialInv /\ GraphInv
      /\ DepsInv /\ SealedInv /\ ReceiptsListTheirArtifacts
  BY DEF IndInv
<1>2. /\ Advances
      /\ run'.trace = run.trace /\ run'.partial = run.partial
      /\ SelfInv' /\ DepsInv'
  BY <1>1, TodoAdvances
<1>3. /\ Running' /\ Attempting' /\ Left' = Left - 1 /\ Left \in Nat /\ Left > 1 /\ PlanInv'
  BY <1>1, <1>2, AdvancesInPlan
<1>4. TraceInv'
  BY <1>1, <1>2, <1>3 DEF TraceInv, Advances
<1>5. PartialInv'
  <2>1. run.program.outcome \in Failing => Left # 7
    BY <1>1, Due DEF Failing
  <2>2. QED
    BY <1>1, <1>2, <1>3, <2>1 DEF PartialInv, Advances
<1>6. GraphInv'
  BY <1>1, <1>2, <1>3 DEF GraphInv, Advances
<1>7. ReceiptsListTheirArtifacts'
  BY <1>1, <1>3 DEF ReceiptsListTheirArtifacts
<1>8. QED
  BY <1>2, <1>3, <1>4, <1>5, <1>6, <1>7 DEF IndInv

LEMMA WriteFileInd ==
  ASSUME IndInv, WriteFile
  PROVE  IndInv'
<1>1. /\ TypeOK /\ PlanInv /\ SelfInv /\ FilesInv /\ SealedInv
  BY DEF IndInv
<1>2. PICK file \in {"result", "graph", "error"} :
        /\ Next1(file)
        /\ dir' = [dir EXCEPT ![file] = CASE file = "result" -> Result
                                          [] file = "graph"  -> Graph
                                          [] file = "error"  -> Failure]
        /\ run' = [run EXCEPT !.todo = Tail(@)]
        /\ UNCHANGED <<receipts, exit, runs, sealed, passed>>
  BY DEF WriteFile
<1>3. Attempting /\ Running /\ Head(run.todo) = file
  BY <1>2 DEF Next1, Attempting, CleaningUp
<1>4. /\ Result \in Results(Selfs) /\ Failure \in Failures(Selfs) /\ Graph \in Graphs
  BY <1>1, <1>3, ContentsAre
<1>5. /\ Advances /\ Result' = Result /\ Graph' = Graph /\ Failure' = Failure
  BY <1>1, <1>2, <1>3, TodoAdvances
<1>6. /\ Running' /\ Attempting' /\ Left' = Left - 1 /\ Left \in Nat /\ Left > 1
  BY <1>1, <1>3, <1>5, AdvancesInPlan
<1>7. /\ dir'.trace = dir.trace /\ dir'.digests = dir.digests
      /\ dir'.result = IF file = "result" THEN Result ELSE dir.result
      /\ dir'.graph = IF file = "graph" THEN Graph ELSE dir.graph
      /\ dir'.error = IF file = "error" THEN Failure ELSE dir.error
      /\ dir' \in [trace   : Traces(Selfs) \union {Absent},
                   graph   : Graphs \union {Absent, Torn},
                   result  : Results(Selfs) \union {Absent, Torn},
                   error   : Failures(Selfs) \union {Absent, Torn},
                   digests : RunIds \union {Absent, Torn}]
  <2>1. CASE file = "result"
    BY <1>1, <1>2, <1>4, <2>1 DEF TypeOK
  <2>2. CASE file = "graph"
    BY <1>1, <1>2, <1>4, <2>2 DEF TypeOK
  <2>3. CASE file = "error"
    BY <1>1, <1>2, <1>4, <2>3 DEF TypeOK
  <2>4. QED
    BY <2>1, <2>2, <2>3
<1>8. TypeOK'
  <2>1. run' \in RunStates
    BY <1>5 DEF Advances
  <2>2. QED
    BY <1>1, <1>2, <1>7, <2>1 DEF TypeOK
<1>9. FilesInv'
  <2> DEFINE outcome == run.program.outcome
  <2>1. outcome' = outcome
    BY <1>5 DEF Advances
  <2> HIDE DEF outcome
  <2>2. ASSUME TailOf(outcome) = OkTail
        PROVE  /\ Left' <= 4 => dir'.result = Result
               /\ Left' <= 3 => dir'.graph = Graph
               /\ Left' > 1
    <3>1. /\ Left = 5 => file = "result"
          /\ Left = 4 => file = "graph"
          /\ Left # 2
      BY <1>1, <1>2, <1>3, <2>2, Due DEF outcome
    <3>2. /\ Left <= 4 => dir.result = Result
          /\ Left <= 3 => dir.graph = Graph
      BY <1>1, <1>3, <2>2 DEF FilesInv, outcome
    <3>3. QED
      BY <1>6, <1>7, <3>1, <3>2
  <2>3. ASSUME outcome = "error"
        PROVE  /\ Left' <= 7 => dir'.graph = Graph
               /\ Left' <= 5 => dir'.error = Failure
               /\ Left' > 1
    <3>1. /\ Left = 8 => file = "graph"
          /\ Left = 6 => file = "error"
          /\ Left # 2
      BY <1>1, <1>2, <1>3, <2>3, Due DEF outcome
    <3>2. /\ Left <= 7 => dir.graph = Graph
          /\ Left <= 5 => dir.error = Failure
      BY <1>1, <1>3, <2>3 DEF FilesInv, outcome
    <3>3. QED
      BY <1>6, <1>7, <3>1, <3>2
  <2>4. ASSUME outcome = "qmark"
        PROVE  /\ Left' <= 5 => dir'.error = Failure
               /\ Left' <= 3 => dir'.graph = Graph
               /\ Left' > 1
    <3>1. /\ Left = 4 => file = "graph"
          /\ Left = 6 => file = "error"
          /\ Left # 2
      BY <1>1, <1>2, <1>3, <2>4, Due DEF outcome
    <3>2. /\ Left <= 5 => dir.error = Failure
          /\ Left <= 3 => dir.graph = Graph
      BY <1>1, <1>3, <2>4 DEF FilesInv, outcome
    <3>3. QED
      BY <1>6, <1>7, <3>1, <3>2
  <2>5. QED
    BY <1>5, <1>6, <2>1, <2>2, <2>3, <2>4 DEF FilesInv, outcome
<1>10. SealedInv'
  BY <1>1, <1>2, <1>7 DEF SealedInv, Sealed
<1>11. QED
  BY <1>2, <1>3, <1>7, <1>8, <1>9, <1>10, FileStep

\* The digests of an attempt that has written its files are its own.
LEMMA DigestsAre ==
  ASSUME TypeOK, PlanInv, SelfInv, TraceInv, FilesInv, Attempting,
         Left <= 2, run.program.outcome # "not_jsonable",
         NEW leaf, leaf = IF Ok THEN Result ELSE Failure
  PROVE  /\ DigestsOf(dir) \in RunIdsOf(SelfsAt(run.attempt)) /\ DigestsOf(dir) \in RunIds
         /\ DigestsOf(dir).trace = (IF run.noTrace THEN NoTrace ELSE run.trace)
         /\ DigestsOf(dir).graph = Graph
         /\ DigestsOf(dir).leaf = Normalised(leaf)
         /\ DigestsOf(dir).leaf \in {leaf, [self |-> SelfMark]}
         /\ DigestsOf(dir).ok = Ok
         /\ dir[Leaf(Ok)] = leaf /\ dir.graph = Graph
         /\ (Ok /\ TailOf(run.program.outcome) = OkTail) \/ (~Ok /\ run.program.outcome \in Failing)
<1> DEFINE selfs   == SelfsAt(run.attempt)
           outcome == run.program.outcome
<1>1. /\ run.attempt \in 1 .. MaxAttempts /\ outcome \in Outcomes /\ run.noTrace \in BOOLEAN
      /\ run.sink \in {"trace", "devnull"}
  BY RunIsTyped DEF Attempting, MaxAttempts
<1>2. /\ Result \in Results(selfs) /\ Failure \in Failures(selfs) /\ Graph \in Graphs
  BY ContentsAre
<1>3. run.trace \in Traces(selfs)
  BY DEF SelfInv, Attempting
<1>4. ~run.noTrace => dir.trace = run.trace
  BY <1>1 DEF TraceInv
<1>5. Left \in Nat
  BY Control
<1>6. /\ dir[Leaf(Ok)] = leaf /\ dir.graph = Graph
      /\ (Ok /\ TailOf(outcome) = OkTail) \/ (~Ok /\ outcome \in Failing)
  <2>1. CASE outcome \in Failing
    <3>1. ~Ok
      BY <2>1 DEF Ok, Failing
    <3>2. dir.error = Failure /\ dir.graph = Graph
      BY <1>5, <2>1 DEF FilesInv, Failing
    <3>3. QED
      BY <2>1, <3>1, <3>2 DEF Leaf
  <2>2. CASE outcome \notin Failing
    <3>1. TailOf(outcome) = OkTail
      BY <1>1, <2>2, Tails DEF Failing
    <3>2. Ok
      BY <2>2 DEF Ok, Failing
    <3>3. dir.result = Result /\ dir.graph = Graph
      BY <1>5, <3>1 DEF FilesInv
    <3>4. QED
      BY <3>1, <3>2, <3>3 DEF Leaf
  <2>3. QED
    BY <2>1, <2>2
<1>7. leaf \in Results(selfs) \union Failures(selfs) /\ Ok \in BOOLEAN
  BY <1>2 DEF Ok
<1>8. /\ Normalised(leaf) \in {leaf, [self |-> SelfMark]}
       /\ Normalised(leaf) \in Leaves(selfs)
  BY <1>7 DEF Normalised, Leaves
<1>9. DigestsOf(dir) = [trace |-> IF run.noTrace THEN NoTrace ELSE run.trace, graph |-> Graph,
                         leaf |-> Normalised(leaf), ok |-> Ok]
  BY <1>4, <1>6 DEF DigestsOf
<1>10. DigestsOf(dir) \in RunIdsOf(selfs)
  BY <1>1, <1>2, <1>3, <1>7, <1>8, <1>9 DEF RunIdsOf
<1>11. DigestsOf(dir) \in RunIds
  BY <1>1, <1>10, SelfsGrow
<1>12. QED
  BY <1>6, <1>8, <1>9, <1>10, <1>11

LEMMA WriteDigestsInd ==
  ASSUME IndInv, WriteDigests
  PROVE  IndInv'
<1> DEFINE leaf == IF Ok THEN Result ELSE Failure
           id   == DigestsOf(dir)
           seal == [program |-> run.program, noTrace |-> run.noTrace, attempt |-> run.attempt,
                    trace |-> run.trace, graph |-> Graph, leaf |-> leaf, ok |-> Ok, id |-> id]
<1>1. /\ TypeOK /\ PlanInv /\ SelfInv /\ TraceInv /\ FilesInv /\ PartialInv /\ SealedInv
  BY DEF IndInv
<1>2. Attempting /\ Running /\ Head(run.todo) = "digests"
  BY DEF WriteDigests, Next1, Attempting, CleaningUp
<1>3. /\ dir' = [dir EXCEPT !.digests = id]
      /\ sealed' = sealed \union {seal}
      /\ run' = [run EXCEPT !.todo = Tail(@)]
      /\ UNCHANGED <<receipts, exit, runs, passed>>
  BY DEF WriteDigests, RunId
<1>4. /\ Left = 2 /\ (TailOf(run.program.outcome) = OkTail \/ run.program.outcome \in Failing)
  BY <1>1, <1>2, Places
<1>5. /\ run.program \in Programs /\ run.program.outcome \in Outcomes /\ run.noTrace \in BOOLEAN
      /\ run.attempt \in 1 .. MaxAttempts /\ run.trace \in Traces(Selfs)
  BY <1>1, <1>2, RunIsTyped DEF MaxAttempts
<1>6. run.program.outcome # "not_jsonable"
  BY <1>4, <1>5, Tails DEF Failing
<1>7. /\ id \in RunIds
      /\ id.trace = (IF run.noTrace THEN NoTrace ELSE run.trace)
      /\ id.graph = Graph
      /\ id.leaf \in {leaf, [self |-> SelfMark]}
      /\ id.ok = Ok
      /\ (Ok /\ TailOf(run.program.outcome) = OkTail) \/ (~Ok /\ run.program.outcome \in Failing)
  BY <1>1, <1>2, <1>4, <1>6, DigestsAre
<1>8. Result \in Results(Selfs) /\ Failure \in Failures(Selfs) /\ Graph \in Graphs
  BY <1>1, <1>2, ContentsAre
<1> HIDE DEF id, leaf
<1>9. /\ dir'.trace = dir.trace /\ dir'.digests = id /\ dir'.result = dir.result
      /\ dir'.graph = dir.graph /\ dir'.error = dir.error
  BY <1>1, <1>3 DEF TypeOK
<1>10. /\ Advances /\ Result' = Result /\ Graph' = Graph /\ Failure' = Failure
  BY <1>1, <1>2, <1>3, TodoAdvances
<1>11. /\ Running' /\ Attempting' /\ Left' = Left - 1
  BY <1>1, <1>2, <1>10, AdvancesInPlan
<1>12. leaf \in Results(Selfs) \union Failures(Selfs) /\ Ok \in BOOLEAN
  BY <1>8 DEF leaf, Ok
<1>13. TypeOK'
  <2>1. run' \in RunStates
    BY <1>10 DEF Advances
  <2>2. seal \in [program : Programs, noTrace : BOOLEAN, attempt : 1 .. MaxAttempts,
                  trace : Traces(Selfs), graph : Graphs,
                  leaf : Results(Selfs) \union Failures(Selfs), ok : BOOLEAN, id : RunIds]
    BY <1>5, <1>7, <1>8, <1>12
  <2> HIDE DEF seal
  <2>3. dir' \in [trace   : Traces(Selfs) \union {Absent},
                  graph   : Graphs \union {Absent, Torn},
                  result  : Results(Selfs) \union {Absent, Torn},
                  error   : Failures(Selfs) \union {Absent, Torn},
                  digests : RunIds \union {Absent, Torn}]
    BY <1>1, <1>3, <1>7 DEF TypeOK
  <2>4. QED
    BY <1>1, <1>3, <2>1, <2>2, <2>3 DEF TypeOK
<1>14. FilesInv'
  <2>1. DigestsOf(dir)' = id
    <3>1. (Ok' <=> Ok) /\ run'.noTrace = run.noTrace /\ run'.prev = run.prev
      BY <1>10 DEF Ok, Advances
    <3>2. dir'[Leaf(Ok')] = dir[Leaf(Ok)]
      BY <1>9, <3>1 DEF Leaf
    <3>3. QED
      BY <1>9, <3>1, <3>2 DEF id, DigestsOf, Normalised, Leaf
  <2>2. QED
    BY <1>1, <1>2, <1>4, <1>9, <1>10, <1>11, <2>1 DEF FilesInv, Advances
<1>15. SealedInv'
  <2>1. SealOf(seal)
    <3>1. Ok = (run.program.outcome \notin Failing)
      BY DEF Ok, Failing
    <3>2. Ok => leaf \in Results(Selfs)
      BY <1>8 DEF leaf
    <3>3. ~Ok => leaf \in Failures(Selfs) /\ IsPartial(leaf.partial, run.trace)
      BY <1>1, <1>2, <1>4, <1>7, <1>8 DEF leaf, PartialInv, Failure
    <3>4. QED
      BY <1>7, <3>1, <3>2, <3>3 DEF SealOf
  <2>2. seal.id = id
    OBVIOUS
  <2> HIDE DEF seal
  <2>3. QED
    BY <1>1, <1>3, <1>9, <2>1, <2>2 DEF SealedInv, Sealed
<1>16. QED
  BY <1>2, <1>3, <1>9, <1>13, <1>14, <1>15, FileStep DEF IndInv

-----------------------------------------------------------------------------
(* The steps between attempts and runs *)

LEMMA NothingRuns ==
  ASSUME TypeOK', SealedInv', ReceiptsListTheirArtifacts', run' = NotRunning
  PROVE  IndInv'
<1>1. ~Running' /\ ~Attempting'
  BY DEF Running, Attempting
<1>2. QED
  BY <1>1 DEF IndInv, PlanInv, SelfInv, TraceInv, FilesInv, PartialInv, GraphInv, DepsInv

LEMMA SettleInd ==
  ASSUME IndInv, Settle
  PROVE  IndInv'
<1> DEFINE id == dir.digests
<1>1. /\ TypeOK /\ PlanInv /\ SelfInv /\ TraceInv /\ FilesInv /\ PartialInv /\ GraphInv
      /\ DepsInv /\ SealedInv /\ ReceiptsListTheirArtifacts
  BY DEF IndInv
<1>2. Attempting /\ Running /\ Head(run.todo) = "settle" /\ UNCHANGED <<dir, runs, sealed, passed>>
  BY DEF Settle, Next1, Attempting, CleaningUp
<1>3. Left = 1 /\ TailOf(run.program.outcome) = OkTail
  BY <1>1, <1>2, Places
<1>4. /\ run \in RunStates /\ run.program \in Programs /\ run.program.outcome \in Outcomes
      /\ run.noTrace \in BOOLEAN /\ run.fresh \in BOOLEAN
      /\ run.attempt \in 1 .. MaxAttempts /\ run.trace \in Traces(Selfs) /\ run.deps \in Nat
  BY <1>1, <1>2, RunIsTyped DEF MaxAttempts
<1>5. run.program.outcome \notin Failing /\ run.program.outcome # "not_jsonable"
  BY <1>3, <1>4, Tails DEF Failing
<1>6. Ok
  BY <1>5 DEF Ok, Failing
<1>7. dir.digests = DigestsOf(dir) /\ dir.result = Result
  BY <1>2, <1>3, <1>1 DEF FilesInv
<1>8. /\ id \in RunIdsOf(SelfsAt(run.attempt)) /\ id \in RunIds
      /\ id.trace = (IF run.noTrace THEN NoTrace ELSE run.trace)
  BY <1>1, <1>2, <1>3, <1>5, <1>7, DigestsAre
<1>9. Result \in Results(Selfs)
  BY <1>1, <1>2, ContentsAre
<1>10. CASE /\ MayRetry
            /\ run' = [run EXCEPT !.prev = id, !.self = id,
                                  !.todo = <<"truncate", "remove", "reopen">>]
            /\ UNCHANGED <<receipts, exit>>
  <2>1. run.attempt < MaxAttempts
    BY <1>10 DEF MayRetry
  <2>2. id \in SelfsAt(run.attempt + 1) /\ id \in Selfs
    BY <1>4, <1>8, <2>1, SelfsGrow DEF MaxAttempts
  <2>3. <<"truncate", "remove", "reopen">> \in Seq(Items) \ {<<>>}
    BY DEF Items
  <2>4. run' \in RunStates
    BY <1>4, <1>8, <1>10, <2>2, <2>3 DEF RunStates
  <2>5. /\ run'.program = run.program /\ run'.attempt = run.attempt /\ run'.trace = run.trace
        /\ run'.partial = run.partial
        /\ run'.deps = run.deps /\ run'.prev = id /\ run'.self = id
        /\ run'.todo = <<"truncate", "remove", "reopen">>
    BY <1>4, <1>10 DEF RunStates
  <2>6. Running' /\ CleaningUp' /\ ~Attempting'
    BY <2>4, <2>5, RunStatesRun DEF Running, CleaningUp, Attempting
  <2>7. Telling' = run.attempt + 1 /\ Telling' # 1
    BY <1>4, <2>5, <2>6 DEF Telling
  <2>8. TypeOK'
    BY <1>1, <1>2, <1>10, <2>4 DEF TypeOK
  <2>9. PlanInv'
    BY <1>3, <2>1, <2>5, <2>6 DEF PlanInv
  <2>10. SelfInv'
    BY <1>1, <1>2, <2>2, <2>5, <2>6, <2>7 DEF SelfInv
  <2>11. TraceInv' /\ FilesInv' /\ PartialInv' /\ GraphInv'
    BY <2>6 DEF TraceInv, FilesInv, PartialInv, GraphInv
  <2>12. DepsInv'
    BY <1>1, <1>2, <2>5, <2>6 DEF DepsInv
  <2>13. SealedInv' /\ ReceiptsListTheirArtifacts'
    BY <1>1, <1>2, <1>10, <2>6 DEF SealedInv, Sealed, ReceiptsListTheirArtifacts
  <2>14. QED
    BY <2>8, <2>9, <2>10, <2>11, <2>12, <2>13 DEF IndInv
<1>11. ASSUME NEW code \in {"ok", "diverged"}, Fail(code)
       PROVE  /\ run' = NotRunning
              /\ exit' \in [code : {"none"}] \union
                             [code : {"ok", "failed", "diverged", "rejected", "killed"},
                              program : Programs, fresh : BOOLEAN, noTrace : BOOLEAN]
  BY <1>4, <1>11 DEF Fail, Ended
<1>12. CASE Fail("diverged") /\ UNCHANGED receipts
  <2>1. TypeOK'
    BY <1>1, <1>2, <1>11, <1>12 DEF TypeOK
  <2>2. QED
    BY <1>1, <1>2, <1>11, <1>12, <2>1, NothingRuns DEF SealedInv, Sealed, ReceiptsListTheirArtifacts
<1>13. CASE WriteReceipt(id)
  <2> DEFINE receipt == [run_id |-> id, output |-> dir.result, derived_from |-> run.deps]
  <2>1. Fail("ok") /\ receipts' = {r \in receipts : r.run_id # id} \union {receipt}
    BY <1>13 DEF WriteReceipt, Fail
  <2>2. receipt \in [run_id : RunIds, output : Results(Selfs), derived_from : Nat]
    BY <1>4, <1>7, <1>8, <1>9
  <2>3. TypeOK'
    BY <1>1, <1>2, <1>11, <2>1, <2>2 DEF TypeOK
  <2>4. receipt.run_id.trace # NoTrace =>
          receipt.derived_from = Cardinality(Positions(receipt.run_id.trace, "artifact_dep"))
    BY <1>1, <1>2, <1>8 DEF DepsInv
  <2> HIDE DEF receipt
  <2>5. ReceiptsListTheirArtifacts'
    BY <1>1, <2>1, <2>4 DEF ReceiptsListTheirArtifacts
  <2>6. QED
    BY <1>1, <1>2, <1>11, <2>1, <2>3, <2>5, NothingRuns DEF SealedInv, Sealed
<1>14. QED
  BY <1>10, <1>12, <1>13 DEF Settle, RunId

LEMMA CleaningFields ==
  ASSUME IndInv, NEW item \in {"truncate", "remove", "reopen"}, Next1(item)
  PROVE  /\ Running /\ CleaningUp /\ ~Attempting /\ run \in RunStates
         /\ TailOf(run.program.outcome) = OkTail
         /\ run.attempt \in 1 .. MaxAttempts /\ run.attempt < MaxAttempts
         /\ Telling = run.attempt + 1
         /\ run.self \in SelfsAt(run.attempt + 1) /\ run.prev = run.self
         /\ item = "truncate" => run.todo = <<"truncate", "remove", "reopen">>
         /\ item = "remove" => run.todo = <<"remove", "reopen">>
<1>1. Running /\ CleaningUp /\ Head(run.todo) = item
  BY DEF Next1, CleaningUp
<1>2. run \in RunStates /\ run.attempt \in 1 .. MaxAttempts
  BY <1>1, RunIsTyped DEF IndInv, MaxAttempts
<1>3. /\ run.todo \in {<<"truncate", "remove", "reopen">>, <<"remove", "reopen">>, <<"reopen">>}
      /\ TailOf(run.program.outcome) = OkTail
      /\ run.attempt < MaxAttempts
  BY <1>1 DEF IndInv, PlanInv
<1>4. Telling = run.attempt + 1
  BY <1>1 DEF Telling
<1>5. run.self \in SelfsAt(run.attempt + 1) /\ run.prev = run.self
  BY <1>1, <1>2, <1>4 DEF IndInv, SelfInv
<1>6. QED
  BY <1>1, <1>2, <1>3, <1>4, <1>5 DEF Attempting

\* A step of the cleaning up, before the next attempt begins.
LEMMA CleaningInd ==
  ASSUME IndInv, NEW item \in {"truncate", "remove"}, Next1(item),
         run' = [run EXCEPT !.todo = Tail(@)],
         dir' \in [trace   : Traces(Selfs) \union {Absent},
                   graph   : Graphs \union {Absent, Torn},
                   result  : Results(Selfs) \union {Absent, Torn},
                   error   : Failures(Selfs) \union {Absent, Torn},
                   digests : RunIds \union {Absent, Torn}],
         dir'.digests \in {dir.digests, Absent},
         UNCHANGED <<receipts, exit, runs, sealed, passed>>
  PROVE  IndInv'
<1>1. /\ Running /\ CleaningUp /\ run \in RunStates
      /\ TailOf(run.program.outcome) = OkTail
      /\ run.attempt \in 1 .. MaxAttempts /\ run.attempt < MaxAttempts
      /\ run.self \in SelfsAt(run.attempt + 1) /\ run.prev = run.self
      /\ item = "truncate" => run.todo = <<"truncate", "remove", "reopen">>
      /\ item = "remove" => run.todo = <<"remove", "reopen">>
  BY CleaningFields
<1>2. /\ Tail(run.todo) \in {<<"remove", "reopen">>, <<"reopen">>}
      /\ Tail(run.todo) \in Seq(Items) \ {<<>>}
      /\ Head(Tail(run.todo)) \in {"remove", "reopen"}
  <2>1. Tail(run.todo) \in {<<"remove", "reopen">>, <<"reopen">>}
    <3>1. /\ Tail(<<"truncate", "remove", "reopen">>) = <<"remove", "reopen">>
          /\ Tail(<<"remove", "reopen">>) = <<"reopen">>
      OBVIOUS
    <3>2. QED
      BY <1>1, <3>1
  <2>2. /\ <<"remove", "reopen">> \in Seq(Items) \ {<<>>}
        /\ <<"reopen">> \in Seq(Items) \ {<<>>}
    BY DEF Items
  <2>3. Head(<<"remove", "reopen">>) = "remove" /\ Head(<<"reopen">>) = "reopen"
    OBVIOUS
  <2>4. QED
    BY <2>1, <2>2, <2>3
<1>3. run' \in RunStates
  BY <1>1, <1>2 DEF RunStates
<1>4. /\ run'.program = run.program /\ run'.attempt = run.attempt /\ run'.trace = run.trace
      /\ run'.partial = run.partial
      /\ run'.deps = run.deps /\ run'.prev = run.prev /\ run'.self = run.self
      /\ run'.todo = Tail(run.todo)
  BY <1>1 DEF RunStates
<1>5. Running' /\ CleaningUp' /\ ~Attempting'
  BY <1>2, <1>3, <1>4, RunStatesRun DEF Running, CleaningUp, Attempting
<1>6. Telling' = run.attempt + 1 /\ Telling' # 1
  BY <1>1, <1>4, <1>5 DEF Telling
<1>7. TypeOK'
  BY <1>3 DEF IndInv, TypeOK
<1>8. PlanInv'
  BY <1>1, <1>2, <1>4, <1>5 DEF PlanInv
<1>9. SelfInv'
  BY <1>1, <1>4, <1>5, <1>6 DEF IndInv, SelfInv
<1>10. TraceInv' /\ FilesInv' /\ PartialInv' /\ GraphInv'
  BY <1>5 DEF TraceInv, FilesInv, PartialInv, GraphInv
<1>11. DepsInv'
  BY <1>1, <1>4, <1>5 DEF IndInv, DepsInv
<1>12. SealedInv' /\ ReceiptsListTheirArtifacts'
  BY <1>5 DEF IndInv, SealedInv, Sealed, ReceiptsListTheirArtifacts
<1>13. QED
  BY <1>7, <1>8, <1>9, <1>10, <1>11, <1>12 DEF IndInv

LEMMA TruncateInd ==
  ASSUME IndInv, Truncate
  PROVE  IndInv'
<1>1. <<>> \in Traces(Selfs)
  BY DEF Traces
<1>2. dir' = [dir EXCEPT !.trace = <<>>]
  BY DEF Truncate
<1>3. /\ dir' \in [trace   : Traces(Selfs) \union {Absent},
                   graph   : Graphs \union {Absent, Torn},
                   result  : Results(Selfs) \union {Absent, Torn},
                   error   : Failures(Selfs) \union {Absent, Torn},
                   digests : RunIds \union {Absent, Torn}]
      /\ dir'.digests = dir.digests
  BY <1>1, <1>2 DEF IndInv, TypeOK
<1>4. QED
  BY <1>3, CleaningInd DEF Truncate

LEMMA RemoveInd ==
  ASSUME IndInv, Remove
  PROVE  IndInv'
<1>1. /\ EmptyDir \in [trace   : Traces(Selfs) \union {Absent},
                       graph   : Graphs \union {Absent, Torn},
                       result  : Results(Selfs) \union {Absent, Torn},
                       error   : Failures(Selfs) \union {Absent, Torn},
                       digests : RunIds \union {Absent, Torn}]
      /\ EmptyDir.digests = Absent
  BY DEF EmptyDir, Files
<1>2. QED
  BY <1>1, CleaningInd DEF Remove

\* The first step of an attempt.
LEMMA BeginInd ==
  ASSUME TypeOK', SealedInv', ReceiptsListTheirArtifacts',
         run' \in RunStates, run'.todo = ToDo(run'.program),
         run'.trace = <<>>, run'.deps = 0,
         run'.self \in SelfsAt(run'.attempt),
         run'.prev = IF run'.attempt = 1 THEN Absent ELSE run'.self,
         run'.partial \in Traces(SelfsAt(run'.attempt)) \union {Absent},
         run'.sink = "trace" => dir'.trace = <<>>,
         run'.sink = "devnull" => run'.noTrace /\ run'.attempt = 1
  PROVE  IndInv'
<1> DEFINE program == run'.program
           tail    == TailOf(program.outcome)
<1>1. program \in Programs /\ program.outcome \in Outcomes /\ program.steps \in Seq(Steps)
  BY ProgramsAssumption DEF RunStates
<1>2. /\ OnPlan(run'.todo, program.steps, tail)
      /\ Len(run'.todo) = Len(program.steps) + Len(tail)
      /\ Head(run'.todo) \notin {"truncate", "remove", "reopen"}
  BY <1>1, PlanBegins
<1>3. Running' /\ ~CleaningUp' /\ Attempting' /\ Telling' = run'.attempt
  BY <1>2, RunStatesRun DEF Running, CleaningUp, Attempting, Telling
<1>4. Left' >= Len(tail) /\ Left' \in Nat /\ Len(tail) \in Nat
  <2>1. Len(program.steps) \in Nat /\ Len(tail) \in Nat
    BY <1>1, Tails
  <2>2. Left' = Len(program.steps) + Len(tail)
    BY <1>2 DEF Left
  <2> HIDE DEF tail
  <2>3. QED
    BY <2>1, <2>2
<1>5. /\ tail = OkTail => Left' >= 5
      /\ program.outcome = "error" => Left' >= 8
      /\ program.outcome = "qmark" => Left' >= 7
  <2>1. /\ tail = OkTail => Len(tail) = 5
        /\ program.outcome = "error" => Len(tail) = 8
        /\ program.outcome = "qmark" => Len(tail) = 7
    BY <1>1, Tails
  <2> HIDE DEF tail
  <2>2. QED
    BY <1>4, <2>1
<1>6. PlanInv'
  BY <1>2, <1>3 DEF PlanInv
<1>7. \A S : <<>> \in Traces(S)
  BY DEF Traces
<1>8. SelfInv'
  BY <1>3, <1>7 DEF SelfInv
<1>9. TraceInv'
  BY <1>3 DEF TraceInv
<1>10. FilesInv'
  BY <1>3, <1>4, <1>5 DEF FilesInv
<1>11. \A tag : Lacks(<<>>, tag) /\ Positions(<<>>, tag) = {}
  BY DEF Lacks, Positions
<1>12. PartialInv' /\ GraphInv'
  BY <1>3, <1>4, <1>5, <1>11 DEF PartialInv, GraphInv, Failing
<1>13. DepsInv'
  BY <1>11, FS_EmptySet DEF DepsInv
<1>14. QED
  BY <1>6, <1>8, <1>9, <1>10, <1>12, <1>13 DEF IndInv

LEMMA ReopenInd ==
  ASSUME IndInv, Reopen
  PROVE  IndInv'
<1>1. /\ run \in RunStates /\ run.attempt \in 1 .. MaxAttempts /\ run.attempt < MaxAttempts
      /\ run.self \in SelfsAt(run.attempt + 1) /\ run.prev = run.self /\ Running
  BY CleaningFields DEF Reopen
<1>2. /\ dir' = [dir EXCEPT !.trace = <<>>]
      /\ run' = [run EXCEPT !.todo = ToDo(run.program), !.attempt = @ + 1, !.sink = "trace",
                            !.trace = <<>>, !.first = TRUE, !.accessed = FALSE, !.deps = 0]
      /\ UNCHANGED <<receipts, exit, runs, sealed, passed>>
  BY DEF Reopen
<1>3. run.program \in Programs /\ run.attempt + 1 \in 1 .. MaxAttempts /\ run.attempt + 1 # 1
  BY <1>1 DEF RunStates, MaxAttempts
<1>4. ToDo(run.program) \in Seq(Items) \ {<<>>}
  BY <1>3, PlanBegins
<1>5. <<>> \in Traces(Selfs)
  BY DEF Traces
<1>6. run' \in RunStates
  BY <1>1, <1>2, <1>3, <1>4, <1>5 DEF RunStates
<1>7. /\ run'.todo = ToDo(run.program) /\ run'.program = run.program /\ run'.trace = <<>>
      /\ run'.deps = 0 /\ run'.self = run.self /\ run'.prev = run.prev
      /\ run'.partial = run.partial /\ run'.attempt = run.attempt + 1 /\ run'.sink = "trace"
  BY <1>1, <1>2 DEF RunStates
<1>8. dir'.trace = <<>> /\ dir'.digests = dir.digests
      /\ dir' \in [trace   : Traces(Selfs) \union {Absent},
                   graph   : Graphs \union {Absent, Torn},
                   result  : Results(Selfs) \union {Absent, Torn},
                   error   : Failures(Selfs) \union {Absent, Torn},
                   digests : RunIds \union {Absent, Torn}]
  BY <1>2, <1>5 DEF IndInv, TypeOK
<1>9. TypeOK' /\ SealedInv' /\ ReceiptsListTheirArtifacts'
  BY <1>2, <1>6, <1>8 DEF IndInv, TypeOK, SealedInv, Sealed, ReceiptsListTheirArtifacts
<1>10. run.partial \in Traces(SelfsAt(run.attempt + 1)) \union {Absent}
  <2>1. run.partial \in Traces(SelfsAt(run.attempt)) \union {Absent}
    BY <1>1 DEF IndInv, SelfInv
  <2>2. SelfsAt(run.attempt) \subseteq SelfsAt(run.attempt + 1)
    BY <1>1, SelfsGrow
  <2>3. QED
    BY <2>1, <2>2, TracesGrow
<1>11. QED
  BY <1>1, <1>3, <1>6, <1>7, <1>8, <1>9, <1>10, BeginInd

LEMMA StartInd ==
  ASSUME IndInv, NEW program \in Programs, NEW noTrace \in BOOLEAN, Start(program, noTrace)
  PROVE  IndInv'
<1>1. /\ run' = Started(program, noTrace, dir = EmptyDir)
      /\ dir' = IF noTrace THEN dir ELSE [dir EXCEPT !.trace = <<>>]
      /\ exit' = [code |-> "none"] /\ runs' = runs + 1 /\ runs < MaxRuns
      /\ passed' = Succeeds(dir) /\ UNCHANGED <<receipts, sealed>>
  BY DEF Start
<1>2. ToDo(program) \in Seq(Items) \ {<<>>}
  BY PlanBegins
<1>3. <<>> \in Traces(Selfs) /\ Pending \in Selfs /\ Pending \in SelfsAt(1)
  BY DEF Traces, Selfs, SecondSelfs, FirstSelfs, SelfsAt
<1>4. run' \in RunStates
  <2>1. (dir = EmptyDir) \in BOOLEAN
    OBVIOUS
  <2>2. 1 \in 1 .. MaxAttempts
    BY DEF MaxAttempts
  <2>3. QED
    BY <1>1, <1>2, <1>3, <2>1, <2>2 DEF Started, RunStates
<1>5. /\ run'.todo = ToDo(run'.program) /\ run'.trace = <<>>
      /\ run'.deps = 0 /\ run'.self = Pending /\ run'.prev = Absent
      /\ run'.partial = Absent /\ run'.attempt = 1 /\ run'.noTrace = noTrace
      /\ run'.sink = IF noTrace THEN "devnull" ELSE "trace"
  BY <1>1 DEF Started
<1>6. /\ dir'.digests = dir.digests
      /\ ~noTrace => dir'.trace = <<>>
      /\ dir' \in [trace   : Traces(Selfs) \union {Absent},
                   graph   : Graphs \union {Absent, Torn},
                   result  : Results(Selfs) \union {Absent, Torn},
                   error   : Failures(Selfs) \union {Absent, Torn},
                   digests : RunIds \union {Absent, Torn}]
  BY <1>1, <1>3 DEF IndInv, TypeOK
<1>7. runs' \in 0 .. MaxRuns /\ passed' \in BOOLEAN
  <2>1. passed' \in BOOLEAN
    BY <1>1 DEF Succeeds
  <2>2. QED
    BY <1>1, <2>1, MaxRunsAssumption DEF IndInv, TypeOK
<1>8. TypeOK' /\ SealedInv' /\ ReceiptsListTheirArtifacts'
  BY <1>1, <1>4, <1>6, <1>7 DEF IndInv, TypeOK, SealedInv, Sealed, ReceiptsListTheirArtifacts
<1>9. QED
  BY <1>3, <1>4, <1>5, <1>6, <1>8, BeginInd

LEMMA RejectTypesInd ==
  ASSUME IndInv, NEW program \in Programs, RejectTypes(program)
  PROVE  IndInv'
<1> DEFINE failure == [code |-> "type_errors", partial |-> Absent]
<1>1. /\ run = NotRunning /\ run' = run /\ runs' = runs + 1 /\ runs < MaxRuns
      /\ dir' = [dir EXCEPT !.error = failure]
      /\ exit' = Ended("rejected", program, FALSE, FALSE)
      /\ passed' = Succeeds(dir) /\ UNCHANGED <<receipts, sealed>>
  BY DEF RejectTypes, Running
<1>2. failure \in Failures(Selfs)
  BY DEF Failures
<1> HIDE DEF failure
<1>3. /\ dir'.digests = dir.digests /\ dir'.error \in Failures(Selfs)
      /\ dir' \in [trace   : Traces(Selfs) \union {Absent},
                   graph   : Graphs \union {Absent, Torn},
                   result  : Results(Selfs) \union {Absent, Torn},
                   error   : Failures(Selfs) \union {Absent, Torn},
                   digests : RunIds \union {Absent, Torn}]
  BY <1>1, <1>2 DEF IndInv, TypeOK
<1>4. /\ exit' \in [code : {"ok", "failed", "diverged", "rejected", "killed"},
                    program : Programs, fresh : BOOLEAN, noTrace : BOOLEAN]
      /\ exit'.code = "rejected"
  BY <1>1 DEF Ended
<1>5. runs' \in 0 .. MaxRuns /\ passed' \in BOOLEAN
  <2>1. passed' \in BOOLEAN
    BY <1>1 DEF Succeeds
  <2>2. QED
    BY <1>1, <2>1, MaxRunsAssumption DEF IndInv, TypeOK
<1>6. TypeOK'
  BY <1>1, <1>3, <1>4, <1>5 DEF IndInv, TypeOK
<1>7. SealedInv' /\ ReceiptsListTheirArtifacts'
  BY <1>1, <1>3 DEF IndInv, SealedInv, Sealed, ReceiptsListTheirArtifacts
<1>8. QED
  BY <1>1, <1>6, <1>7, NothingRuns

LEMMA ExitFailedInd ==
  ASSUME IndInv, ExitFailed
  PROVE  IndInv'
<1>1. Running
  BY DEF ExitFailed, Next1
<1>2. /\ exit' = Ended("failed", run.program, run.fresh, run.noTrace)
      /\ run' = NotRunning
      /\ UNCHANGED <<dir, receipts, runs, sealed, passed>>
  BY DEF ExitFailed, Fail
<1>3. run.program \in Programs /\ run.noTrace \in BOOLEAN /\ run.fresh \in BOOLEAN
  BY <1>1, RunIsTyped DEF IndInv
<1>4. exit' \in [code : {"ok", "failed", "diverged", "rejected", "killed"},
                 program : Programs, fresh : BOOLEAN, noTrace : BOOLEAN]
  BY <1>2, <1>3 DEF Ended
<1>5. TypeOK'
  BY <1>2, <1>4 DEF IndInv, TypeOK
<1>6. QED
  BY <1>2, <1>5, NothingRuns DEF IndInv, SealedInv, Sealed, ReceiptsListTheirArtifacts

LEMMA PartIsTrace ==
  ASSUME TypeOK, SelfInv, Running, NEW item \in Steps \union EventItems, NEW part \in PartOf(item)
  PROVE  part \in Traces(Selfs)
<1> DEFINE E     == Events(Selfs) \union {NL}
           lines == IF item = "artifact" THEN <<ArtifactDep, NL>>
                    ELSE Lines(run.first, EventsOf(item))
<1>1. run.self \in Selfs /\ run.first \in BOOLEAN
  BY RunIsTyped
<1>2. lines \in Seq(E)
  <2>1. CASE item = "artifact"
    <3>1. {"run_id", "t"} \in SUBSET Keys /\ "artifact_dep" \in Written
      BY DEF Keys, Written, Tags
    <3>2. ArtifactDep \in E
      BY <3>1 DEF ArtifactDep, Event, Events
    <3>3. QED
      BY <2>1, <3>2
  <2>2. CASE item # "artifact"
    <3>1. EventsOf(item) \in Seq(Events(Selfs))
      BY <1>1, <2>2, EventsAre
    <3>2. Lines(run.first, EventsOf(item)) \in Seq(E)
      BY <1>1, <3>1, LinesAre
    <3>3. QED
      BY <2>2, <3>2
  <2>3. QED
    BY <2>1, <2>2
<1>3. PICK n \in 0 .. Len(lines), half \in {<<>>, <<TornEvent>>} : part = SubSeq(lines, 1, n) \o half
  BY DEF PartOf
<1> HIDE DEF lines
<1>4. half \in Seq(E)
  <2>1. {} \in SUBSET Keys /\ "torn" \in Written
    BY DEF Written
  <2>2. TornEvent \in E
    BY <2>1 DEF TornEvent, Event, Events
  <2> HIDE DEF E
  <2>3. <<>> \in Seq(E) /\ <<TornEvent>> \in Seq(E)
    BY <2>2
  <2>4. QED
    BY <1>3, <2>3
<1>5. SubSeq(lines, 1, n) \in Seq(E)
  <2>1. Len(lines) \in Nat /\ \A i \in 1 .. n : lines[i] \in E
    BY <1>2, <1>3
  <2>2. QED
    BY <1>2, <1>3, <2>1, SubSeqProperties
<1>6. QED
  BY <1>3, <1>4, <1>5 DEF Traces

\* What a kill leaves behind, by what the process was doing.
LEMMA DamagedAre ==
  ASSUME NEW item, item = Head(run.todo)
  PROVE  /\ item \in {"result", "graph", "error", "digests"} =>
              Damaged = {dir, [dir EXCEPT ![item] = Torn]}
         /\ item \in Steps \union EventItems =>
              Damaged = {SetTrace(run.trace \o part) : part \in PartOf(item)}
         /\ item = "remove" =>
              Damaged = {[f \in Files |-> IF f \in gone THEN Absent ELSE dir[f]] :
                           gone \in SUBSET Files}
         /\ item \notin {"result", "graph", "error", "digests", "remove"}
                      \union Steps \union EventItems => Damaged = {dir}
<1> DEFINE F == {"result", "graph", "error", "digests"}
           A1 == {dir, [dir EXCEPT ![item] = Torn]}
           A2 == {SetTrace(run.trace \o part) : part \in PartOf(item)}
           A3 == {[f \in Files |-> IF f \in gone THEN Absent ELSE dir[f]] : gone \in SUBSET Files}
<1>1. Damaged = CASE item \in F -> A1
                  [] item \in Steps \union EventItems -> A2
                  [] item = "remove" -> A3
                  [] OTHER -> {dir}
  BY DEF Damaged
<1>2. /\ \A i \in F : i \notin Steps \union EventItems
      /\ "remove" \notin Steps \union EventItems
      /\ "remove" \notin F
  BY DEF Steps, EventItems
<1> HIDE DEF A1, A2, A3
<1>3. item \in F => Damaged = A1
  BY <1>1, <1>2
<1>4. item \in Steps \union EventItems => Damaged = A2
  BY <1>1, <1>2
<1>5. item = "remove" => Damaged = A3
  BY <1>1, <1>2
<1>6. item \notin F \union {"remove"} /\ item \notin Steps \union EventItems => Damaged = {dir}
  BY <1>1
<1>7. QED
  BY <1>3, <1>4, <1>5, <1>6 DEF A1, A2, A3

LEMMA KillInd ==
  ASSUME IndInv, Kill
  PROVE  IndInv'
<1> DEFINE item == Head(run.todo)
           Dirs == [trace   : Traces(Selfs) \union {Absent},
                    graph   : Graphs \union {Absent, Torn},
                    result  : Results(Selfs) \union {Absent, Torn},
                    error   : Failures(Selfs) \union {Absent, Torn},
                    digests : RunIds \union {Absent, Torn}]
<1>1. TypeOK /\ SelfInv /\ SealedInv /\ ReceiptsListTheirArtifacts /\ dir \in Dirs
  BY DEF IndInv, TypeOK
<1>2. /\ Running /\ dir' \in Damaged
      /\ exit' = Ended("killed", run.program, run.fresh, run.noTrace)
      /\ run' = NotRunning
      /\ UNCHANGED <<receipts, runs, sealed, passed>>
  BY DEF Kill
<1>3. /\ run.program \in Programs /\ run.noTrace \in BOOLEAN /\ run.fresh \in BOOLEAN
      /\ run.trace \in Traces(Selfs)
  BY <1>1, <1>2, RunIsTyped
<1>4. /\ exit' \in [code : {"ok", "failed", "diverged", "rejected", "killed"},
                    program : Programs, fresh : BOOLEAN, noTrace : BOOLEAN]
      /\ exit'.code = "killed"
  BY <1>2, <1>3 DEF Ended
<1>5. dir' \in Dirs /\ dir'.digests \in {dir.digests, Absent, Torn}
  <2>1. CASE item \in {"result", "graph", "error", "digests"}
    <3>1. dir' \in {dir, [dir EXCEPT ![item] = Torn]}
      BY <1>2, <2>1, DamagedAre
    <3>2. [dir EXCEPT ![item] = Torn] \in Dirs
          /\ [dir EXCEPT ![item] = Torn].digests \in {dir.digests, Torn}
      <4>1. CASE item = "result"
        BY <1>1, <4>1
      <4>2. CASE item = "graph"
        BY <1>1, <4>2
      <4>3. CASE item = "error"
        BY <1>1, <4>3
      <4>4. CASE item = "digests"
        BY <1>1, <4>4
      <4>5. QED
        BY <2>1, <4>1, <4>2, <4>3, <4>4
    <3>3. QED
      BY <1>1, <3>1, <3>2
  <2>2. CASE item \in Steps \union EventItems
    <3>1. dir' \in {SetTrace(run.trace \o part) : part \in PartOf(item)}
      BY <1>2, <2>2, DamagedAre
    <3>2. PICK part \in PartOf(item) : dir' = SetTrace(run.trace \o part)
      BY <3>1
    <3>3. part \in Traces(Selfs)
      BY <1>1, <1>2, <2>2, PartIsTrace
    <3>4. run.trace \o part \in Traces(Selfs)
      BY <1>3, <3>3, TraceExtends
    <3>5. QED
      BY <1>1, <3>2, <3>4 DEF SetTrace
  <2>3. CASE item = "remove"
    <3>1. PICK gone \in SUBSET Files : dir' = [f \in Files |-> IF f \in gone THEN Absent ELSE dir[f]]
      BY <1>2, <2>3, DamagedAre
    <3>2. QED
      BY <1>1, <3>1 DEF Files
  <2>4. CASE item \notin {"result", "graph", "error", "digests", "remove"} /\ item \notin Steps \union EventItems
    BY <1>1, <1>2, <2>4, DamagedAre
  <2>5. QED
    BY <2>1, <2>2, <2>3, <2>4
<1> HIDE DEF Dirs
<1>6. TypeOK'
  BY <1>1, <1>2, <1>4, <1>5 DEF TypeOK, Dirs
<1>7. SealedInv'
  BY <1>1, <1>2, <1>5 DEF SealedInv, Sealed
<1>8. ReceiptsListTheirArtifacts'
  BY <1>1, <1>2 DEF ReceiptsListTheirArtifacts
<1>9. QED
  BY <1>2, <1>6, <1>7, <1>8, NothingRuns

LEMMA StutterInd ==
  ASSUME IndInv, UNCHANGED vars
  PROVE  IndInv'
<1>1. /\ dir' = dir /\ run' = run /\ receipts' = receipts /\ exit' = exit /\ runs' = runs
      /\ sealed' = sealed /\ passed' = passed
  BY DEF vars
<1>2. TypeOK' /\ ReceiptsListTheirArtifacts'
  BY <1>1 DEF IndInv, TypeOK, ReceiptsListTheirArtifacts
<1>3. PlanInv' /\ SelfInv' /\ TraceInv'
  BY <1>1 DEF IndInv, PlanInv, SelfInv, TraceInv, Running, CleaningUp, Attempting, Telling
<1>4. FilesInv'
  BY <1>1 DEF IndInv, FilesInv, Running, CleaningUp, Attempting, Left, Result, Graph, Failure,
              DigestsOf, Normalised, Ok
<1>5. PartialInv' /\ GraphInv' /\ DepsInv'
  BY <1>1 DEF IndInv, PartialInv, GraphInv, DepsInv, Running, CleaningUp, Attempting, Left
<1>6. SealedInv'
  BY <1>1 DEF IndInv, SealedInv, Sealed
<1>7. QED
  BY <1>2, <1>3, <1>4, <1>5, <1>6 DEF IndInv

LEMMA InitInd == Init => IndInv
<1> SUFFICES ASSUME Init PROVE IndInv
  OBVIOUS
<1>1. /\ dir = EmptyDir /\ run = NotRunning /\ receipts = {} /\ exit = [code |-> "none"]
      /\ runs = 0 /\ sealed = {} /\ passed = FALSE
  BY DEF Init
<1>2. ~Running /\ ~Attempting
  BY <1>1 DEF Running, Attempting
<1>3. /\ EmptyDir \in [trace   : Traces(Selfs) \union {Absent},
                       graph   : Graphs \union {Absent, Torn},
                       result  : Results(Selfs) \union {Absent, Torn},
                       error   : Failures(Selfs) \union {Absent, Torn},
                       digests : RunIds \union {Absent, Torn}]
      /\ EmptyDir.digests = Absent
  BY DEF EmptyDir, Files
<1>4. TypeOK
  <2>1. passed \in BOOLEAN
    BY <1>1
  <2>2. run \in RunStates \union {NotRunning} /\ runs \in 0 .. MaxRuns
    BY <1>1, MaxRunsAssumption
  <2>3. QED
    BY <1>1, <1>3, <2>1, <2>2 DEF TypeOK
<1>5. SealedInv /\ ReceiptsListTheirArtifacts
  BY <1>1, <1>3 DEF SealedInv, Sealed, ReceiptsListTheirArtifacts
<1>6. QED
  BY <1>2, <1>4, <1>5 DEF IndInv, PlanInv, SelfInv, TraceInv, FilesInv, PartialInv, GraphInv, DepsInv

LEMMA NextInd == IndInv /\ [Next]_vars => IndInv'
<1> SUFFICES ASSUME IndInv, [Next]_vars PROVE IndInv'
  OBVIOUS
<1>1. ASSUME NEW program \in Programs, NEW noTrace \in BOOLEAN, Start(program, noTrace)
      PROVE  IndInv'
  BY <1>1, StartInd
<1>2. ASSUME NEW program \in Programs, RejectTypes(program)
      PROVE  IndInv'
  BY <1>2, RejectTypesInd
<1>3. CASE Evaluate
  <2>1. PICK step \in Steps \ {"artifact"} :
          /\ Next1(step)
          /\ WriteEvents(EventsOf(step), step \in {"self", "emit_self"}, run.partial)
    BY <1>3 DEF Evaluate
  <2>2. step # "failure_event" /\ (step \in {"self", "emit_self"}) \in BOOLEAN
    BY DEF Steps
  <2>3. QED
    BY <2>1, <2>2, EventsInd
<1>4. CASE EvaluateArtifact
  BY <1>4, EvaluateArtifactInd
<1>5. CASE WitnessFailure
  BY <1>5, EventsInd DEF WitnessFailure, EventItems
<1>6. CASE WriteEvent
  <2>1. PICK item \in {"graph_event", "error_event"} :
          Next1(item) /\ WriteEvents(EventsOf(item), FALSE, run.partial)
    BY <1>6 DEF WriteEvent
  <2>2. item \in EventItems /\ item # "failure_event"
    BY DEF EventItems
  <2>3. QED
    BY <2>1, <2>2, EventsInd
<1>7. CASE WriteFile
  BY <1>7, WriteFileInd
<1>8. CASE WriteDigests
  BY <1>8, WriteDigestsInd
<1>9. CASE Settle
  BY <1>9, SettleInd
<1>10. CASE Truncate
  BY <1>10, TruncateInd
<1>11. CASE Remove
  BY <1>11, RemoveInd
<1>12. CASE Reopen
  BY <1>12, ReopenInd
<1>13. CASE ExitFailed
  BY <1>13, ExitFailedInd
<1>14. CASE Kill
  BY <1>14, KillInd
<1>15. CASE UNCHANGED vars
  BY <1>15, StutterInd
<1>16. QED
  BY <1>1, <1>2, <1>3, <1>4, <1>5, <1>6, <1>7, <1>8, <1>9, <1>10, <1>11, <1>12, <1>13, <1>14, <1>15
     DEF Next

-----------------------------------------------------------------------------
(* The theorems *)

\* The invariant holds in every reachable state.
THEOREM FardRunInductive == Spec => []IndInv
  BY InitInd, NextInd, PTL DEF Spec

\* What the process and the directory hold has the types of the contents,
\* and a program is told no RunID but one of an earlier attempt.
THEOREM FardRunTypeOK == Spec => []TypeOK
<1>1. IndInv => TypeOK
  BY DEF IndInv
<1>2. QED
  BY <1>1, FardRunInductive, PTL

\* What a bundle that verifies was sealed with.
LEMMA BundleIsSealed ==
  ASSUME IndInv, BundleAccepts(dir)
  PROVE  \E s \in sealed :
           /\ SealOf(s)
           /\ s.ok = dir.digests.ok
           /\ s.trace = dir.trace
           /\ s.graph = dir.graph
           /\ s.leaf = dir[Leaf(s.ok)]
<1>1. TypeOK /\ SealedInv /\ Sealed
  BY DEF IndInv, BundleAccepts, Sealed
<1>2. PICK s \in sealed : s.id = dir.digests
  BY <1>1 DEF SealedInv
<1>3. SealOf(s)
  BY <1>1 DEF SealedInv
<1>4. /\ dir.digests.trace = dir.trace /\ dir.digests.graph = dir.graph
      /\ dir.digests.leaf = dir[Leaf(dir.digests.ok)]
  BY DEF BundleAccepts, HashesMatch
<1>5. s.ok = dir.digests.ok /\ s.graph = dir.graph
  BY <1>2, <1>3, <1>4 DEF SealOf
<1>6. s.trace = dir.trace
  <2>1. dir.trace # NoTrace
    BY <1>1, MarkersAssumption DEF TypeOK
  <2>2. QED
    BY <1>2, <1>3, <1>4, <2>1 DEF SealOf
<1>7. s.leaf = dir[Leaf(s.ok)]
  <2>1. dir[Leaf(s.ok)] \in Results(Selfs) \union Failures(Selfs) \union {Absent, Torn}
    BY <1>1 DEF TypeOK, Leaf
  <2>2. dir[Leaf(s.ok)] # [self |-> SelfMark]
    <3>1. [self |-> SelfMark] \notin Results(Selfs)
      BY MarkersAssumption DEF Results
    <3>2. [self |-> SelfMark] \notin Failures(Selfs)
      BY DEF Failures
    <3>3. [self |-> SelfMark] \notin {Absent, Torn}
      BY MarkersAssumption DEF Leaves
    <3>4. QED
      BY <2>1, <3>1, <3>2, <3>3
  <2>3. QED
    BY <1>2, <1>3, <1>4, <1>5, <2>2 DEF SealOf
<1>8. QED
  BY <1>3, <1>5, <1>6, <1>7

\* A bundle that verifies is the work of one attempt.
THEOREM FardRunSealsAttempts == Spec => []SealedIsOneAttempt
<1>1. IndInv => SealedIsOneAttempt
  BY BundleIsSealed DEF SealedIsOneAttempt
<1>2. QED
  BY <1>1, FardRunInductive, PTL

\* A receipt counts the artifacts in its trace, and the partial trace of a
\* failure is the trace up to the event that reports it.
THEOREM FardRunRecordsMatch == Spec => []RecordsMatchTrace
<1>1. ASSUME IndInv, BundleAccepts(dir), ~dir.digests.ok
      PROVE  LET partial == dir.error.partial
                 failure == Positions(dir.trace, "witnessed_failure")
             IN /\ SubSeq(dir.trace, 1, Len(partial)) = partial
                /\ \A i \in failure : i > Len(partial)
  <2>1. PICK s \in sealed : /\ SealOf(s) /\ s.ok = dir.digests.ok
                            /\ s.trace = dir.trace /\ s.leaf = dir[Leaf(s.ok)]
    BY <1>1, BundleIsSealed
  <2> DEFINE partial == dir.error.partial
             trace   == dir.trace
  <2>2. IsPartial(partial, trace)
    BY <1>1, <2>1 DEF SealOf, Leaf
  <2>3. dir.trace \in Traces(Selfs)
    BY <1>1 DEF IndInv, TypeOK, BundleAccepts
  <2>4. /\ partial \in Seq(Events(Selfs) \union {NL}) /\ trace \in Seq(Events(Selfs) \union {NL})
        /\ Len(partial) \in Nat /\ Len(trace) \in Nat /\ Len(partial) <= Len(trace)
        /\ \A i \in 1 .. Len(partial) : trace[i] = partial[i]
        /\ Lacks(partial, "witnessed_failure")
    BY <2>2, <2>3 DEF IsPartial, Traces
  <2> HIDE DEF partial, trace
  <2>5. SubSeq(trace, 1, Len(partial)) = partial
    <3>1. /\ SubSeq(trace, 1, Len(partial)) \in Seq(Events(Selfs) \union {NL})
          /\ Len(SubSeq(trace, 1, Len(partial))) = Len(partial)
          /\ \A i \in 1 .. Len(partial) : SubSeq(trace, 1, Len(partial))[i] = trace[i]
      BY <2>4
    <3>2. QED
      BY <2>4, <3>1, SeqEqual
  <2>6. ASSUME NEW i \in Positions(trace, "witnessed_failure")
        PROVE  i > Len(partial)
    BY <2>4 DEF Positions, Lacks
  <2>7. QED
    BY <2>5, <2>6 DEF partial, trace
<1>2. IndInv => RecordsMatchTrace
  BY <1>1 DEF RecordsMatchTrace, PartialTraceIsPrefix, IndInv
<1>3. QED
  BY <1>2, FardRunInductive, PTL

-----------------------------------------------------------------------------
(* The digests that a program determines.  A trace is what the items of    *)
(* the plan make of it one after the other, given the digest the program   *)
(* is told and the UUID of its children; a RunID is what it makes of that. *)

Nothing == [trace |-> <<>>, first |-> TRUE, partial |-> Absent]

After(e, item, self, uuid) ==
  IF item = "artifact"
  THEN [trace |-> e.trace \o <<ArtifactDep, NL>>, first |-> e.first, partial |-> e.partial]
  ELSE IF item \in Steps \union EventItems
  THEN [trace   |-> e.trace \o Lines(e.first, EventsFor(item, self, uuid)),
        first   |-> e.first /\ EventsFor(item, self, uuid) = <<>>,
        partial |-> IF item = "failure_event" THEN e.trace ELSE e.partial]
  ELSE e

Evaluation(plan, self, uuid) ==
  LET after[i \in 0 .. Len(plan)] ==
        IF i = 0 THEN Nothing ELSE After(after[i - 1], plan[i], self, uuid)
  IN after

\* Only these programs show what they are told, or have children.
Shown(program, self) == IF Does(program, "emit_self") THEN self ELSE Pending
Stamp(program, uuid) == IF Does(program, "spawn_ordered") THEN uuid ELSE <<0, 0>>

EvaluationOf(program, self, uuid) ==
  Evaluation(ToDo(program), Shown(program, self), Stamp(program, uuid))

LeafOf(program, self, partial) ==
  CASE program.outcome \in Failing         -> [code |-> program.outcome, partial |-> partial]
    [] program.outcome = "self"            -> [self |-> IF self = Pending THEN Pending ELSE SelfMark]
    [] program.outcome = "self_in_thread"  -> [self |-> Pending]
    [] program.outcome = "hash_of_self"    -> [hash |-> self]
    [] OTHER                               -> [value |-> program.name]

\* The digests are the last but one of the plan.
IdOf(program, noTrace, self, uuid) ==
  LET end == EvaluationOf(program, self, uuid)[Len(ToDo(program)) - 2]
  IN [trace |-> IF noTrace THEN NoTrace ELSE end.trace,
      graph |-> [main |-> program.name],
      leaf  |-> LeafOf(program, self, end.partial),
      ok    |-> program.outcome \notin Failing]

\* What the n-th attempt of the r-th run is told.
Told(program, noTrace, r, n) ==
  LET first == IdOf(program, noTrace, Pending, <<r, 1>>)
  IN IF n = 1 THEN Pending
     ELSE IF n = 2 THEN first ELSE IdOf(program, noTrace, first, <<r, 2>>)

-----------------------------------------------------------------------------
(* The invariant *)

Plan == ToDo(run.program)

Done == Len(Plan) - Left

IsDone(item) == \E i \in 1 .. Done : Plan[i] = item

Evaluated == [trace |-> run.trace, first |-> run.first, partial |-> run.partial]

EvaluatedInv == Attempting =>
  Evaluated = EvaluationOf(run.program, run.self, Uuid)[Done]

AccessedInv == Attempting => (run.accessed <=> IsDone("self") \/ IsDone("emit_self"))

Emits(trace, self) == \E i \in DOMAIN trace : trace[i] = Emit(self)

HasChild(trace, uuid) ==
  \E i \in DOMAIN trace : trace[i] # NL /\ "uuid" \in DOMAIN trace[i] /\ trace[i].uuid = uuid

\* What the trace shows of this attempt, and the digest it was told of others.
ShownInv == Attempting =>
  /\ IsDone("emit_self") => Emits(run.trace, run.self)
  /\ IsDone("spawn_ordered") => HasChild(run.trace, Uuid)
  /\ \A uuid : HasChild(run.trace, uuid) => uuid = Uuid

ChildrenInv == Running /\ run.prev # Absent /\ run.prev.trace # NoTrace =>
  ~HasChild(run.prev.trace, <<runs, Telling>>)

ToldInv == Running =>
  /\ runs > 0
  /\ run.self = Told(run.program, run.noTrace, runs, Telling)
  /\ \A n \in 2 .. Telling : Told(run.program, run.noTrace, runs, n) \in RunIds
  /\ run.program.outcome \notin Failing => run.partial = Absent

SealedNowInv == Attempting /\ Left <= 1 /\ run.program.outcome # "not_jsonable" =>
  /\ dir.digests = IdOf(run.program, run.noTrace, run.self, Uuid)
  /\ \E s \in sealed : s.id = dir.digests /\ s.program = run.program

SealedIdsInv ==
  \A s \in sealed : \E r \in 1 .. runs :
    s.id = IdOf(s.program, s.noTrace, Told(s.program, s.noTrace, r, s.attempt), <<r, s.attempt>>)

ReceiptsInv ==
  \A r \in receipts : DOMAIN r.output = {"self"} =>
    \/ r.output.self = r.run_id /\ r.run_id.leaf = [self |-> SelfMark]
    \/ /\ r.output.self = Pending
       /\ \E s \in sealed : s.id = r.run_id /\ s.program.outcome = "self_in_thread"

DigestInv ==
  /\ IndInv
  /\ EvaluatedInv
  /\ AccessedInv
  /\ ShownInv
  /\ ChildrenInv
  /\ ToldInv
  /\ SealedNowInv
  /\ SealedIdsInv
  /\ ReceiptsInv
  /\ DivergesExactlyIf

-----------------------------------------------------------------------------
(* Induction over natural numbers: a set of them has a least one. *)

LEMMA LeastNatural ==
  ASSUME NEW T, T \subseteq Nat, T # {}
  PROVE  \E m \in T : \A k \in T : m <= k
<1> DEFINE R == OpToRel(<, Nat)
<1>1. IsWellFoundedOn(R, Nat)
  BY NatLessThanWellFounded
<1>2. \A x, y \in Nat : x < y => <<x, y>> \in R
  BY DEF OpToRel
<1> HIDE DEF R
<1>3. PICK m \in T : \A k \in T : <<k, m>> \notin R
  BY <1>1, WFMin
<1>4. ASSUME NEW k \in T
      PROVE  m <= k
  <2>1. m \in Nat /\ k \in Nat
    OBVIOUS
  <2>2. ~(k < m)
    BY <1>2, <1>3, <2>1
  <2>3. QED
    BY <2>1, <2>2
<1>5. QED
  BY <1>4

-----------------------------------------------------------------------------
(* The evaluation of a plan *)

LEMMA EvaluationStep ==
  ASSUME NEW plan, Len(plan) \in Nat, NEW self, NEW uuid
  PROVE  /\ Evaluation(plan, self, uuid)[0] = Nothing
         /\ \A i \in 1 .. Len(plan) :
              Evaluation(plan, self, uuid)[i] =
                After(Evaluation(plan, self, uuid)[i - 1], plan[i], self, uuid)
<1> DEFINE Fits(f, n) == f = [i \in 0 .. n |->
             IF i = 0 THEN Nothing ELSE After(f[i - 1], plan[i], self, uuid)]
           Bad == {n \in Nat : ~ \E f : Fits(f, n)}
<1>1. Bad = {}
  <2>1. SUFFICES ASSUME Bad # {}
                 PROVE  FALSE
    OBVIOUS
  <2>2. PICK m \in Bad : \A k \in Bad : m <= k
    BY <2>1, LeastNatural
  <2>3. CASE m = 0
    <3>1. Fits([i \in 0 .. 0 |-> Nothing], 0)
      OBVIOUS
    <3>2. QED
      BY <2>3, <3>1
  <2>4. CASE m # 0
    <3>1. m \in Nat /\ m - 1 \in Nat /\ m - 1 \notin Bad
      <4>1. Bad \subseteq Nat
        OBVIOUS
      <4> HIDE DEF Bad
      <4>2. QED
        BY <2>2, <2>4, <4>1
    <3>2. PICK f : Fits(f, m - 1)
      BY <3>1
    <3> DEFINE g == [i \in 0 .. m |-> IF i = m THEN After(f[m - 1], plan[m], self, uuid) ELSE f[i]]
    <3>3. \A i \in 0 .. m - 1 : f[i] = IF i = 0 THEN Nothing ELSE After(f[i - 1], plan[i], self, uuid)
      BY <3>2
    <3>4. ASSUME NEW i \in 0 .. m
          PROVE  g[i] = IF i = 0 THEN Nothing ELSE After(g[i - 1], plan[i], self, uuid)
      <4>1. CASE i = m
        BY <3>1, <2>4, <4>1
      <4>2. CASE i # m
        <5>1. i \in 0 .. m - 1 /\ (i # 0 => i - 1 \in 0 .. m - 1)
          BY <3>1, <4>2
        <5>2. QED
          BY <3>1, <3>3, <4>2, <5>1
      <4>3. QED
        BY <4>1, <4>2
    <3>5. Fits(g, m)
      <4>1. [i \in 0 .. m |-> IF i = 0 THEN Nothing ELSE After(g[i - 1], plan[i], self, uuid)]
            = [i \in 0 .. m |-> g[i]]
        BY <3>4
      <4>2. QED
        BY <4>1
    <3>6. QED
      BY <3>1, <3>5, <2>2
  <2>5. QED
    BY <2>3, <2>4
<1>2. PICK f : Fits(f, Len(plan))
  BY <1>1
<1>3. Fits(Evaluation(plan, self, uuid), Len(plan))
  BY <1>2 DEF Evaluation
<1> DEFINE ev == Evaluation(plan, self, uuid)
<1>4. ev = [i \in 0 .. Len(plan) |->
             IF i = 0 THEN Nothing ELSE After(ev[i - 1], plan[i], self, uuid)]
  BY <1>3
<1> HIDE DEF ev
<1>5. ev[0] = Nothing /\ \A i \in 1 .. Len(plan) : ev[i] = After(ev[i - 1], plan[i], self, uuid)
  BY <1>4
<1>6. QED
  BY <1>5 DEF ev

\* The events of an item depend on what the program is told only if it shows that.
LEMMA EventsDepend ==
  ASSUME NEW item \in (Steps \ {"artifact"}) \union EventItems,
         NEW self1, NEW uuid1, NEW self2, NEW uuid2,
         item = "emit_self" => self1 = self2,
         item = "spawn_ordered" => uuid1 = uuid2
  PROVE  EventsFor(item, self1, uuid1) = EventsFor(item, self2, uuid2)
<1>1. CASE item = "import"
  BY <1>1 DEF EventsFor
<1>2. CASE item = "import_pkg"
  BY <1>2 DEF EventsFor
<1>3. CASE item = "emit"
  BY <1>3 DEF EventsFor
<1>4. CASE item = "emit_self"
  BY <1>4 DEF EventsFor
<1>5. CASE item = "self"
  BY <1>5 DEF EventsFor
<1>6. CASE item = "import_artifact"
  BY <1>6 DEF EventsFor
<1>7. CASE item = "spawn_ordered"
  BY <1>7 DEF EventsFor
<1>8. CASE item = "compact_while"
  BY <1>8 DEF EventsFor
<1>9. CASE item = "ffi"
  BY <1>9 DEF EventsFor
<1>10. CASE item = "failure_event"
  BY <1>10 DEF EventsFor
<1>11. CASE item = "graph_event"
  BY <1>11 DEF EventsFor
<1>12. CASE item = "error_event"
  BY <1>12 DEF EventsFor
<1>13. CASE item = "emit_artifact"
  BY <1>13 DEF EventsFor
<1>14. QED
  BY <1>1, <1>2, <1>3, <1>4, <1>5, <1>6, <1>7, <1>8, <1>9, <1>10, <1>11, <1>12, <1>13
     DEF Steps, EventItems

IsChild(e) == "uuid" \in DOMAIN e

\* The events of the children, and no others, have a UUID.
LEMMA ChildEvents ==
  ASSUME NEW item \in (Steps \ {"artifact"}) \union EventItems, NEW self, NEW uuid,
         NEW events, events = EventsFor(item, self, uuid)
  PROVE  /\ \A i \in DOMAIN events : IsChild(events[i]) => events[i].uuid = uuid
         /\ item = "spawn_ordered" =>
              1 \in DOMAIN events /\ IsChild(events[1]) /\ events[1].uuid = uuid
         /\ item = "emit_self" => 1 \in DOMAIN events /\ events[1] = Emit(self)
<1>1. \A t, keys, sorted : ~IsChild(Event(t, keys, sorted))
  BY DEF IsChild, Event
<1>2. \A t, keys : IsChild(Child(t, keys, uuid)) /\ Child(t, keys, uuid).uuid = uuid
  BY DEF IsChild, Child
<1>3. \A kind : ~IsChild(Resolve(kind))
  BY DEF IsChild, Resolve
<1>4. ~IsChild(Emit(self))
  BY DEF IsChild, Emit
<1>5. CASE item = "spawn_ordered"
  <2> DEFINE e1 == Child("child_spawn", {"spawn_id", "t"}, uuid)
             e2 == Child("child_receipt", {"result_digest", "run_digest", "spawn_id", "t"}, uuid)
             e3 == Event("spawn_ordered_complete", {"count", "t"}, FALSE)
  <2>1. events = <<e1, e2, e3>>
    BY <1>5 DEF EventsFor
  <2>2. IsChild(e1) /\ e1.uuid = uuid /\ IsChild(e2) /\ e2.uuid = uuid /\ ~IsChild(e3)
    BY <1>1, <1>2
  <2> HIDE DEF e1, e2, e3
  <2>3. QED
    BY <1>5, <2>1, <2>2
<1>6. CASE item = "compact_while"
  <2> DEFINE e1 == Event("while_start", {"t"}, TRUE)
             e2 == Event("while_step", {"h", "s", "t"}, FALSE)
             e3 == Event("while_end", {"chain_hex", "steps", "t"}, FALSE)
  <2>1. events = <<e1, e2, e3>>
    BY <1>6 DEF EventsFor
  <2>2. ~IsChild(e1) /\ ~IsChild(e2) /\ ~IsChild(e3)
    BY <1>1
  <2> HIDE DEF e1, e2, e3
  <2>3. QED
    BY <1>6, <2>1, <2>2
<1>7. CASE item = "emit_self"
  <2>1. events = <<Emit(self)>>
    BY <1>7 DEF EventsFor
  <2>2. QED
    BY <1>4, <1>7, <2>1
<1>8. CASE item \notin {"spawn_ordered", "compact_while", "emit_self"}
  <2>1. CASE item = "import"
    <3>1. events = <<Resolve("std")>>
      BY <2>1 DEF EventsFor
    <3>2. QED
      BY <1>3, <2>1, <3>1
  <2>2. CASE item = "import_pkg"
    <3>1. events = <<Resolve("pkg")>>
      BY <2>2 DEF EventsFor
    <3>2. QED
      BY <1>3, <2>2, <3>1
  <2>3. CASE item = "self"
    <3>1. events = <<>>
      BY <2>3 DEF EventsFor
    <3>2. QED
      BY <2>3, <3>1
  <2>4. CASE item \notin {"import", "import_pkg", "self"}
    <3>1. \E t, keys, sorted : events = <<Event(t, keys, sorted)>>
      <4>1. CASE item = "emit"
        BY <4>1 DEF EventsFor
      <4>2. CASE item = "import_artifact"
        BY <4>2 DEF EventsFor
      <4>3. CASE item = "ffi"
        BY <4>3 DEF EventsFor
      <4>4. CASE item = "failure_event"
        BY <4>4 DEF EventsFor
      <4>5. CASE item = "graph_event"
        BY <4>5 DEF EventsFor
      <4>6. CASE item = "error_event"
        BY <4>6 DEF EventsFor
      <4>7. CASE item = "emit_artifact"
        BY <4>7 DEF EventsFor
      <4>8. QED
        BY <1>8, <2>4, <4>1, <4>2, <4>3, <4>4, <4>5, <4>6, <4>7 DEF Steps, EventItems
    <3>2. PICK t, keys, sorted : events = <<Event(t, keys, sorted)>>
      BY <3>1
    <3>3. QED
      BY <1>1, <1>8, <3>2
  <2>5. QED
    BY <2>1, <2>2, <2>3, <2>4
<1>9. QED
  BY <1>5, <1>6, <1>7, <1>8

\* Each event has a line.
LEMMA LinesShow ==
  ASSUME NEW S, NEW events \in Seq(S), NEW first \in BOOLEAN, NEW j \in DOMAIN events
  PROVE  \E i \in DOMAIN Lines(first, events) : Lines(first, events)[i] = events[j]
<1>1. PICK n \in Nat : n = Len(events) /\ j \in 1 .. n
  OBVIOUS
<1>2. CASE first
  <2>1. Lines(first, events)
        = [i \in 1 .. 2 * n - 1 |-> IF i % 2 = 1 THEN events[(i + 1) \div 2] ELSE NL]
    BY <1>1, <1>2 DEF Lines
  <2>2. 2 * j - 1 \in 1 .. 2 * n - 1 /\ (2 * j - 1) % 2 = 1 /\ (2 * j - 1 + 1) \div 2 = j
    BY <1>1
  <2>3. QED
    BY <2>1, <2>2
<1>3. CASE ~first
  <2>1. Lines(first, events)
        = [i \in 1 .. 2 * n |-> IF i % 2 = 0 THEN events[i \div 2] ELSE NL]
    BY <1>1, <1>3 DEF Lines
  <2>2. 2 * j \in 1 .. 2 * n /\ (2 * j) % 2 = 0 /\ (2 * j) \div 2 = j
    BY <1>1
  <2>3. QED
    BY <2>1, <2>2
<1>4. QED
  BY <1>2, <1>3

LEMMA Extended ==
  ASSUME NEW S, NEW a \in Seq(S), NEW b \in Seq(S), NEW self, NEW uuid
  PROVE  /\ Emits(a, self) \/ Emits(b, self) => Emits(a \o b, self)
         /\ HasChild(a \o b, uuid) <=> HasChild(a, uuid) \/ HasChild(b, uuid)
<1> DEFINE c == a \o b
<1>1. /\ Len(a) \in Nat /\ Len(b) \in Nat
      /\ DOMAIN a = 1 .. Len(a) /\ DOMAIN b = 1 .. Len(b)
      /\ DOMAIN c = 1 .. Len(a) + Len(b)
      /\ \A i \in 1 .. Len(a) + Len(b) : c[i] = IF i <= Len(a) THEN a[i] ELSE b[i - Len(a)]
  BY ConcatProperties
<1> HIDE DEF c
<1>2. ASSUME NEW i \in DOMAIN a
      PROVE  i \in DOMAIN c /\ c[i] = a[i]
  BY <1>1
<1>3. ASSUME NEW i \in DOMAIN b
      PROVE  \E k \in DOMAIN c : c[k] = b[i]
  <2>1. Len(a) + i \in 1 .. Len(a) + Len(b) /\ ~(Len(a) + i <= Len(a)) /\ Len(a) + i - Len(a) = i
    BY <1>1
  <2>2. QED
    BY <1>1, <2>1
<1>4. ASSUME NEW i \in DOMAIN c
      PROVE  \/ i \in DOMAIN a /\ c[i] = a[i]
             \/ \E k \in DOMAIN b : c[i] = b[k]
  <2>1. CASE i <= Len(a)
    BY <1>1, <2>1
  <2>2. CASE ~(i <= Len(a))
    <3>1. i - Len(a) \in 1 .. Len(b)
      BY <1>1, <2>2
    <3>2. QED
      BY <1>1, <2>2, <3>1
  <2>3. QED
    BY <2>1, <2>2
<1>5. Emits(a, self) \/ Emits(b, self) => Emits(c, self)
  BY <1>2, <1>3 DEF Emits
<1>6. HasChild(a, uuid) \/ HasChild(b, uuid) => HasChild(c, uuid)
  BY <1>2, <1>3 DEF HasChild
<1>7. HasChild(c, uuid) => HasChild(a, uuid) \/ HasChild(b, uuid)
  BY <1>4 DEF HasChild
<1>8. QED
  BY <1>5, <1>6, <1>7 DEF c

-----------------------------------------------------------------------------
(* One item of the plan *)

\* The process carries out the item and goes on with the attempt.
CarriesOut(item) ==
  /\ item = Head(run.todo) /\ item \notin {"settle", "fail"}
  /\ Advances
  /\ Evaluated' = After(Evaluated, item, run.self, Uuid)
  /\ run'.accessed <=> run.accessed \/ item \in {"self", "emit_self"}
  /\ sealed \subseteq sealed'
  /\ UNCHANGED <<receipts, exit, runs>>

LEMMA EventsCarryOut ==
  ASSUME IndInv, TypeOK', NEW item \in (Steps \ {"artifact"}) \union EventItems, Next1(item),
         WriteEvents(EventsOf(item), item \in {"self", "emit_self"},
                     IF item = "failure_event" THEN run.trace ELSE run.partial)
  PROVE  Attempting /\ CarriesOut(item) /\ UNCHANGED sealed
<1> DEFINE trace == run.trace \o Lines(run.first, EventsOf(item))
           partial == IF item = "failure_event" THEN run.trace ELSE run.partial
<1>1. TypeOK /\ PlanInv
  BY DEF IndInv
<1>2. /\ Attempting /\ Running /\ Head(run.todo) = item
      /\ item \notin {"settle", "fail"}
  BY DEF Next1, Attempting, CleaningUp, Steps, EventItems
<1>3. run \in RunStates /\ run.first \in BOOLEAN /\ run.accessed \in BOOLEAN
  BY <1>1, <1>2, RunIsTyped
<1>4. Tail(run.todo) # <<>>
  BY <1>1, <1>2, Advance
<1>5. /\ run' = [run EXCEPT !.todo = Tail(@), !.trace = trace,
                            !.first = @ /\ EventsOf(item) = <<>>,
                            !.accessed = @ \/ item \in {"self", "emit_self"}, !.partial = partial]
      /\ UNCHANGED <<receipts, exit, runs, sealed>>
  BY DEF WriteEvents
<1> HIDE DEF trace, partial
<1>6. /\ run'.todo = Tail(run.todo) /\ run'.trace = trace /\ run'.partial = partial
      /\ run'.first = (run.first /\ EventsOf(item) = <<>>)
      /\ run'.accessed = (run.accessed \/ item \in {"self", "emit_self"})
      /\ run'.program = run.program /\ run'.noTrace = run.noTrace /\ run'.attempt = run.attempt
      /\ run'.fresh = run.fresh /\ run'.sink = run.sink /\ run'.self = run.self /\ run'.prev = run.prev
  BY <1>3, <1>5 DEF RunStates
<1>7. run' \in RunStates
  <2>1. run'.todo # <<>> /\ NotRunning.todo = <<>>
    BY <1>4, <1>6 DEF NotRunning
  <2>2. run' # NotRunning
    BY <2>1
  <2>3. run' \in RunStates \union {NotRunning}
    BY DEF TypeOK
  <2>4. QED
    BY <2>2, <2>3
<1>8. Evaluated' = After(Evaluated, item, run.self, Uuid)
  <2>1. item # "artifact" /\ item \in Steps \union EventItems
    BY DEF EventItems
  <2>2. Evaluated' = [trace |-> trace, first |-> run.first /\ EventsOf(item) = <<>>, partial |-> partial]
    BY <1>6 DEF Evaluated
  <2>3. QED
    BY <2>1, <2>2 DEF After, Evaluated, EventsOf, trace, partial
<1>9. QED
  BY <1>2, <1>5, <1>6, <1>7, <1>8 DEF CarriesOut, Advances

LEMMA ArtifactCarriesOut ==
  ASSUME IndInv, TypeOK', EvaluateArtifact
  PROVE  Attempting /\ CarriesOut("artifact") /\ UNCHANGED sealed
<1> DEFINE trace == run.trace \o <<ArtifactDep, NL>>
<1>1. TypeOK /\ PlanInv
  BY DEF IndInv
<1>2. Attempting /\ Running /\ Head(run.todo) = "artifact"
  BY DEF EvaluateArtifact, Next1, Attempting, CleaningUp
<1>3. run \in RunStates
  BY <1>1, <1>2, RunIsTyped
<1>4. Tail(run.todo) # <<>>
  BY <1>1, <1>2, Advance
<1>5. /\ run' = [run EXCEPT !.todo = Tail(@), !.trace = trace, !.deps = @ + 1]
      /\ UNCHANGED <<receipts, exit, runs, sealed>>
  BY DEF EvaluateArtifact
<1> HIDE DEF trace
<1>6. /\ run'.todo = Tail(run.todo) /\ run'.trace = trace /\ run'.partial = run.partial
      /\ run'.first = run.first /\ run'.accessed = run.accessed
      /\ run'.program = run.program /\ run'.noTrace = run.noTrace /\ run'.attempt = run.attempt
      /\ run'.fresh = run.fresh /\ run'.sink = run.sink /\ run'.self = run.self /\ run'.prev = run.prev
  BY <1>3, <1>5 DEF RunStates
<1>7. run' \in RunStates
  <2>1. run'.todo # <<>> /\ NotRunning.todo = <<>>
    BY <1>4, <1>6 DEF NotRunning
  <2>2. run' # NotRunning
    BY <2>1
  <2>3. run' \in RunStates \union {NotRunning}
    BY DEF TypeOK
  <2>4. QED
    BY <2>2, <2>3
<1>8. Evaluated' = After(Evaluated, "artifact", run.self, Uuid)
  BY <1>6 DEF After, Evaluated, trace
<1>9. QED
  BY <1>2, <1>5, <1>6, <1>7, <1>8 DEF CarriesOut, Advances

LEMMA FilesCarryOut ==
  ASSUME IndInv, TypeOK', NEW item \in {"result", "graph", "error", "digests"}, Next1(item),
         run' = [run EXCEPT !.todo = Tail(@)], sealed \subseteq sealed',
         UNCHANGED <<receipts, exit, runs>>
  PROVE  Attempting /\ CarriesOut(item)
<1>1. TypeOK /\ PlanInv
  BY DEF IndInv
<1>2. Attempting /\ Running /\ Head(run.todo) = item /\ item \notin {"settle", "fail"}
  BY DEF Next1, Attempting, CleaningUp
<1>3. run \in RunStates
  BY <1>1, <1>2, RunIsTyped
<1>4. Tail(run.todo) # <<>>
  BY <1>1, <1>2, Advance
<1>5. /\ run'.todo = Tail(run.todo) /\ run'.trace = run.trace /\ run'.partial = run.partial
      /\ run'.first = run.first /\ run'.accessed = run.accessed
      /\ run'.program = run.program /\ run'.noTrace = run.noTrace /\ run'.attempt = run.attempt
      /\ run'.fresh = run.fresh /\ run'.sink = run.sink /\ run'.self = run.self /\ run'.prev = run.prev
  BY <1>3 DEF RunStates
<1>6. run' \in RunStates
  <2>1. run'.todo # <<>> /\ NotRunning.todo = <<>>
    BY <1>4, <1>5 DEF NotRunning
  <2>2. run' # NotRunning
    BY <2>1
  <2>3. run' \in RunStates \union {NotRunning}
    BY DEF TypeOK
  <2>4. QED
    BY <2>2, <2>3
<1>7. Evaluated' = After(Evaluated, item, run.self, Uuid)
  <2>1. item # "artifact" /\ item \notin Steps \union EventItems
    BY DEF Steps, EventItems
  <2>2. QED
    BY <1>5, <2>1 DEF After, Evaluated
<1>8. QED
  BY <1>2, <1>5, <1>6, <1>7 DEF CarriesOut, Advances

-----------------------------------------------------------------------------
(* What has been done *)

LEMMA PlanPlace ==
  ASSUME TypeOK, PlanInv, Attempting
  PROVE  /\ Len(Plan) \in Nat /\ Done \in Nat /\ Done < Len(Plan) /\ Left = Len(Plan) - Done
         /\ Plan[Done + 1] = Head(run.todo)
<1> DEFINE steps == run.program.steps
           tail  == TailOf(run.program.outcome)
           todo  == run.todo
<1>1. /\ run.program \in Programs /\ run.program.outcome \in Outcomes /\ steps \in Seq(Steps)
      /\ todo \in Seq(Items) /\ todo # <<>>
  BY RunIsTyped DEF Attempting
<1>2. OnPlan(todo, steps, tail)
  BY DEF PlanInv, Attempting
<1>3. tail \in Seq(Items)
  <2>1. OkTail \in Seq(Items)
    BY DEF OkTail, Items, Files, EventItems
  <2>2. ErrorTail \in Seq(Items)
    BY DEF ErrorTail, Items, Files, EventItems
  <2>3. QmarkTail \in Seq(Items)
    BY DEF QmarkTail, Items, Files, EventItems
  <2>4. <<"fail">> \in Seq(Items)
    BY DEF Items
  <2>5. QED
    BY <1>1, <2>1, <2>2, <2>3, <2>4 DEF TailOf, Outcomes
<1>4. Plan = steps \o tail /\ Left = Len(todo)
  BY DEF Plan, ToDo, Left
<1> HIDE DEF steps, tail, todo
<1>5. /\ Len(steps) \in Nat /\ Len(tail) \in Nat
      /\ Len(Plan) = Len(steps) + Len(tail)
      /\ \A i \in 1 .. Len(steps) + Len(tail) :
           Plan[i] = IF i <= Len(steps) THEN steps[i] ELSE tail[i - Len(steps)]
  BY <1>1, <1>3, <1>4
<1>6. Left \in Nat \ {0} /\ Left <= Len(steps) + Len(tail)
  BY <1>1, <1>2, <1>4 DEF OnPlan
<1>7. Len(Plan) \in Nat /\ Done \in Nat /\ Done < Len(Plan) /\ Left = Len(Plan) - Done
  BY <1>5, <1>6 DEF Done
<1>8. /\ Head(todo) = todo[1] /\ 1 \in 1 .. Len(todo)
      /\ todo[1] = IF Left <= Len(tail) THEN tail[Len(tail) + 1 - Left]
                   ELSE steps[Len(steps) + Len(tail) + 1 - Left]
  <2>1. 1 \in 1 .. Len(todo) /\ Len(todo) + 1 - 1 = Left
    BY <1>4, <1>6
  <2>2. QED
    BY <1>1, <1>2, <2>1 DEF OnPlan
<1>9. Plan[Done + 1] = Head(todo)
  <2> DEFINE d == Done + 1
  <2>1. /\ d = Len(steps) + Len(tail) + 1 - Left
        /\ d \in 1 .. Len(steps) + Len(tail)
        /\ d <= Len(steps) <=> ~(Left <= Len(tail))
        /\ d - Len(steps) = Len(tail) + 1 - Left
    BY <1>5, <1>6 DEF Done
  <2> HIDE DEF d
  <2>2. Plan[d] = IF d <= Len(steps) THEN steps[d] ELSE tail[d - Len(steps)]
    BY <1>5, <2>1
  <2>3. Plan[d] = Head(todo)
    BY <1>8, <2>1, <2>2
  <2>4. QED
    BY <2>3 DEF d
<1>10. QED
  BY <1>7, <1>9 DEF todo

LEMMA PlanDoes ==
  ASSUME NEW program \in Programs, NEW item \in Steps
  PROVE  (\E i \in 1 .. Len(ToDo(program)) : ToDo(program)[i] = item) <=> Does(program, item)
<1> DEFINE steps == program.steps
           tail  == TailOf(program.outcome)
<1>1. steps \in Seq(Steps) /\ program.outcome \in Outcomes
  BY ProgramsAssumption
<1>2. tail \in Seq(Items) /\ \A i \in DOMAIN tail : tail[i] \notin Steps
  <2>1. OkTail \in Seq(Items) /\ \A i \in DOMAIN OkTail : OkTail[i] \notin Steps
    BY DEF OkTail, Items, Files, EventItems, Steps
  <2>2. ErrorTail \in Seq(Items) /\ \A i \in DOMAIN ErrorTail : ErrorTail[i] \notin Steps
    BY DEF ErrorTail, Items, Files, EventItems, Steps
  <2>3. QmarkTail \in Seq(Items) /\ \A i \in DOMAIN QmarkTail : QmarkTail[i] \notin Steps
    BY DEF QmarkTail, Items, Files, EventItems, Steps
  <2>4. <<"fail">> \in Seq(Items) /\ \A i \in DOMAIN <<"fail">> : <<"fail">>[i] \notin Steps
    BY DEF Items, Steps
  <2>5. QED
    BY <1>1, <2>1, <2>2, <2>3, <2>4 DEF TailOf, Outcomes
<1>3. ToDo(program) = steps \o tail /\ (Does(program, item) <=> \E i \in DOMAIN steps : steps[i] = item)
  BY DEF ToDo, Does
<1> HIDE DEF steps, tail
<1>4. /\ Len(steps) \in Nat /\ DOMAIN steps = 1 .. Len(steps)
      /\ Len(tail) \in Nat /\ DOMAIN tail = 1 .. Len(tail)
      /\ Len(ToDo(program)) = Len(steps) + Len(tail)
      /\ \A i \in 1 .. Len(steps) + Len(tail) :
           ToDo(program)[i] = IF i <= Len(steps) THEN steps[i] ELSE tail[i - Len(steps)]
  BY <1>1, <1>2, <1>3
<1>5. ASSUME NEW i \in 1 .. Len(steps) + Len(tail), ToDo(program)[i] = item
      PROVE  \E k \in DOMAIN steps : steps[k] = item
  <2>1. CASE i <= Len(steps)
    BY <1>4, <1>5, <2>1
  <2>2. CASE ~(i <= Len(steps))
    <3>1. i - Len(steps) \in 1 .. Len(tail)
      BY <1>4, <2>2
    <3>2. QED
      BY <1>2, <1>4, <1>5, <2>2, <3>1
  <2>3. QED
    BY <2>1, <2>2
<1>6. \A i \in DOMAIN steps : i \in 1 .. Len(steps) + Len(tail) /\ ToDo(program)[i] = steps[i]
  BY <1>4
<1>7. QED
  BY <1>3, <1>4, <1>5, <1>6

\* What has been done is of the program; all of it when the process settles.
LEMMA DoneDoes ==
  ASSUME TypeOK, PlanInv, Attempting, NEW item \in Steps
  PROVE  /\ IsDone(item) => Does(run.program, item)
         /\ Left <= 1 => (IsDone(item) <=> Does(run.program, item))
         /\ Head(run.todo) = item => Does(run.program, item)
<1>1. run.program \in Programs
  BY RunIsTyped DEF Attempting
<1>2. /\ Len(Plan) \in Nat /\ Done \in Nat /\ Done < Len(Plan) /\ Left = Len(Plan) - Done
      /\ Plan[Done + 1] = Head(run.todo)
  BY PlanPlace
<1>3. (\E i \in 1 .. Len(Plan) : Plan[i] = item) <=> Does(run.program, item)
  BY <1>1, PlanDoes DEF Plan
<1>4. IsDone(item) => Does(run.program, item)
  BY <1>2, <1>3 DEF IsDone
<1>5. Head(run.todo) = item => Does(run.program, item)
  <2>1. Done + 1 \in 1 .. Len(Plan)
    BY <1>2
  <2>2. QED
    BY <1>2, <1>3, <2>1
<1>6. ASSUME Left <= 1, Does(run.program, item)
      PROVE  IsDone(item)
  <2>1. PICK i \in 1 .. Len(Plan) : Plan[i] = item
    BY <1>3, <1>6
  <2>2. Head(run.todo) \in {"settle", "fail"}
    <3>1. Head(run.todo) \notin {"settle", "fail"} => Left > 1
      BY Places
    <3>2. QED
      BY <1>2, <1>6, <3>1
  <2>3. i # Done + 1
    BY <1>2, <2>1, <2>2 DEF Steps
  <2>4. i \in 1 .. Done
    BY <1>2, <1>6, <2>3
  <2>5. QED
    BY <2>1, <2>4 DEF IsDone
<1>7. QED
  BY <1>4, <1>5, <1>6

LEMMA OneMoreDone ==
  ASSUME IndInv, Attempting, NEW item, CarriesOut(item)
  PROVE  /\ Attempting' /\ Running'
         /\ Plan' = Plan /\ Done' = Done + 1 /\ Left' = Left - 1 /\ Left \in Nat /\ Left > 1
         /\ Uuid' = Uuid /\ Telling' = Telling
         /\ \A x : IsDone(x)' <=> IsDone(x) \/ x = item
<1>1. TypeOK /\ PlanInv /\ SelfInv /\ Head(run.todo) \notin {"settle", "fail"} /\ Advances
  BY DEF IndInv, CarriesOut
<1>2. Attempting' /\ Running' /\ Left' = Left - 1 /\ Left \in Nat /\ Left > 1
  BY <1>1, AdvancesInPlan
<1>3. /\ Len(Plan) \in Nat /\ Done \in Nat /\ Done < Len(Plan) /\ Left = Len(Plan) - Done
      /\ Plan[Done + 1] = item
  BY <1>1, PlanPlace DEF CarriesOut
<1>4. run'.program = run.program /\ run'.attempt = run.attempt /\ runs' = runs
  BY DEF CarriesOut, Advances
<1>5. Plan' = Plan /\ Uuid' = Uuid
  BY <1>4 DEF Plan, Uuid
<1>6. Telling' = Telling
  BY <1>2, <1>4 DEF Telling, Attempting
<1>7. Done' = Len(Plan) - Left'
  BY <1>5 DEF Done
<1>8. Done' = Done + 1
  BY <1>2, <1>3, <1>7
<1>9. ASSUME NEW x
      PROVE  IsDone(x)' <=> IsDone(x) \/ x = item
  <2>1. IsDone(x)' <=> \E i \in 1 .. Done + 1 : Plan[i] = x
    BY <1>5, <1>8 DEF IsDone
  <2>2. \A i : i \in 1 .. Done + 1 <=> i \in 1 .. Done \/ i = Done + 1
    BY <1>3
  <2>3. QED
    BY <1>3, <2>1, <2>2 DEF IsDone
<1>10. QED
  BY <1>2, <1>5, <1>6, <1>8, <1>9

\* A program that does not show what it is told makes the same of anything.
LEMMA AfterShown ==
  ASSUME NEW e, NEW item, NEW program, NEW self, NEW uuid,
         item \in Steps => Does(program, item)
  PROVE  After(e, item, self, uuid) = After(e, item, Shown(program, self), Stamp(program, uuid))
<1>1. item = "emit_self" => Shown(program, self) = self
  BY DEF Shown, Steps
<1>2. item = "spawn_ordered" => Stamp(program, uuid) = uuid
  BY DEF Stamp, Steps
<1>3. ASSUME item \in Steps \union EventItems, item # "artifact"
      PROVE  EventsFor(item, self, uuid) = EventsFor(item, Shown(program, self), Stamp(program, uuid))
  <2>1. item \in (Steps \ {"artifact"}) \union EventItems
    BY <1>3
  <2>2. QED
    BY <1>1, <1>2, <2>1, EventsDepend
<1>4. QED
  BY <1>3 DEF After

-----------------------------------------------------------------------------
(* What an item adds to the trace *)

LEMMA AddedShows ==
  ASSUME IndInv, Attempting, NEW item, CarriesOut(item)
  PROVE  \E added \in Traces(Selfs) :
           /\ run'.trace = run.trace \o added
           /\ item = "emit_self" => Emits(added, run.self)
           /\ item = "spawn_ordered" => HasChild(added, Uuid)
           /\ \A uuid : HasChild(added, uuid) => uuid = Uuid
<1>1. /\ TypeOK /\ Running
      /\ run.trace \in Traces(Selfs) /\ run.first \in BOOLEAN /\ run.self \in Selfs
  BY RunIsTyped DEF IndInv, Attempting
<1>2. run'.trace = After(Evaluated, item, run.self, Uuid).trace
  <2>1. Evaluated'.trace = run'.trace
    BY DEF Evaluated
  <2>2. QED
    BY <2>1 DEF CarriesOut
<1>3. NL \notin Events(Selfs)
  BY MarkersAssumption
<1>4. CASE item = "artifact"
  <2> DEFINE added == <<ArtifactDep, NL>>
  <2>1. run'.trace = run.trace \o added
    BY <1>2, <1>4 DEF After, Evaluated
  <2>2. ArtifactDep \in Events(Selfs) /\ ~IsChild(ArtifactDep)
    BY DEF ArtifactDep, Event, Events, IsChild, Keys, Written, Tags
  <2>3. added \in Traces(Selfs) /\ \A i \in DOMAIN added : added[i] \in {ArtifactDep, NL}
    BY <2>2 DEF Traces
  <2> HIDE DEF added
  <2>4. \A uuid : ~HasChild(added, uuid)
    BY <2>2, <2>3 DEF HasChild, IsChild
  <2>5. QED
    BY <1>4, <2>1, <2>3, <2>4
<1>5. CASE item # "artifact" /\ item \in Steps \union EventItems
  <2> DEFINE events == EventsFor(item, run.self, Uuid)
             added  == Lines(run.first, events)
  <2>1. run'.trace = run.trace \o added
    BY <1>2, <1>5 DEF After, Evaluated
  <2>2. item \in (Steps \ {"artifact"}) \union EventItems
    BY <1>5
  <2>3. events \in Seq(Events(Selfs))
    BY <1>1, <2>2, EventsAre DEF EventsOf
  <2>4. /\ \A i \in DOMAIN events : IsChild(events[i]) => events[i].uuid = Uuid
        /\ item = "spawn_ordered" =>
             1 \in DOMAIN events /\ IsChild(events[1]) /\ events[1].uuid = Uuid
        /\ item = "emit_self" => 1 \in DOMAIN events /\ events[1] = Emit(run.self)
    BY <2>2, ChildEvents
  <2> HIDE DEF events
  <2>5. /\ added \in Seq(Events(Selfs) \union {NL})
        /\ \A i \in DOMAIN added : \/ added[i] = NL
                                   \/ \E j \in DOMAIN events : added[i] = events[j]
    BY <1>1, <2>3, LinesAre
  <2>6. \A j \in DOMAIN events : \E i \in DOMAIN added : added[i] = events[j]
    BY <1>1, <2>3, LinesShow
  <2>7. \A j \in DOMAIN events : events[j] # NL
    BY <1>3, <2>3
  <2> HIDE DEF added
  <2>8. added \in Traces(Selfs)
    BY <2>5 DEF Traces
  <2>9. item = "emit_self" => Emits(added, run.self)
    BY <2>4, <2>6 DEF Emits
  <2>10. item = "spawn_ordered" => HasChild(added, Uuid)
    <3>1. ASSUME item = "spawn_ordered"
          PROVE  HasChild(added, Uuid)
      <4>1. PICK i \in DOMAIN added : added[i] = events[1]
        BY <2>4, <2>6, <3>1
      <4>2. QED
        BY <2>4, <2>7, <3>1, <4>1 DEF HasChild, IsChild
    <3>2. QED
      BY <3>1
  <2>11. ASSUME NEW uuid, HasChild(added, uuid)
         PROVE  uuid = Uuid
    <3>1. PICK i \in DOMAIN added : added[i] # NL /\ "uuid" \in DOMAIN added[i] /\ added[i].uuid = uuid
      BY <2>11 DEF HasChild
    <3>2. PICK j \in DOMAIN events : added[i] = events[j]
      BY <2>5, <3>1
    <3>3. QED
      BY <2>4, <3>1, <3>2 DEF IsChild
  <2>12. QED
    BY <2>1, <2>8, <2>9, <2>10, <2>11
<1>6. CASE item # "artifact" /\ item \notin Steps \union EventItems
  <2>1. run'.trace = run.trace
    BY <1>2, <1>6 DEF After, Evaluated
  <2>2. run.trace = run.trace \o <<>>
    <3>1. run.trace \in Seq(Events(Selfs) \union {NL})
      BY <1>1 DEF Traces
    <3>2. QED
      BY <3>1
  <2>3. <<>> \in Traces(Selfs) /\ \A uuid : ~HasChild(<<>>, uuid)
    BY DEF Traces, HasChild
  <2>4. QED
    BY <1>6, <2>1, <2>2, <2>3 DEF Steps
<1>7. QED
  BY <1>4, <1>5, <1>6

-----------------------------------------------------------------------------
(* The invariant, when an item of the plan is carried out *)

LEMMA CarriedOut ==
  ASSUME DigestInv, IndInv', Attempting, NEW item, CarriesOut(item)
  PROVE  /\ EvaluatedInv' /\ AccessedInv' /\ ShownInv' /\ ChildrenInv' /\ ToldInv' /\ ReceiptsInv'
         /\ DivergesExactlyIf'
         /\ item # "digests" => SealedNowInv'
         /\ UNCHANGED sealed => SealedIdsInv'
<1> DEFINE program == run.program
<1>1. /\ IndInv /\ EvaluatedInv /\ AccessedInv /\ ShownInv /\ ChildrenInv /\ ToldInv
      /\ SealedNowInv /\ SealedIdsInv /\ ReceiptsInv /\ DivergesExactlyIf
  BY DEF DigestInv
<1>2. TypeOK /\ PlanInv /\ SelfInv /\ Running
  BY <1>1 DEF IndInv, Attempting
<1>3. /\ Attempting' /\ Running'
      /\ Plan' = Plan /\ Done' = Done + 1 /\ Left' = Left - 1 /\ Left \in Nat /\ Left > 1
      /\ Uuid' = Uuid /\ Telling' = Telling
      /\ \A x : IsDone(x)' <=> IsDone(x) \/ x = item
  BY <1>1, OneMoreDone
<1>4. /\ run'.program = program /\ run'.noTrace = run.noTrace /\ run'.attempt = run.attempt
      /\ run'.self = run.self /\ run'.prev = run.prev
      /\ UNCHANGED <<receipts, exit, runs>> /\ sealed \subseteq sealed'
      /\ item = Head(run.todo) /\ item \notin {"settle", "fail"}
      /\ Evaluated' = After(Evaluated, item, run.self, Uuid)
      /\ run'.accessed <=> run.accessed \/ item \in {"self", "emit_self"}
  BY DEF CarriesOut, Advances
<1>5. program \in Programs /\ program.outcome \in Outcomes /\ run.trace \in Traces(Selfs)
  BY <1>2, RunIsTyped
<1>6. /\ Len(Plan) \in Nat /\ Done \in Nat /\ Done < Len(Plan) /\ Plan[Done + 1] = item
  BY <1>2, <1>4, PlanPlace
<1>7. EvaluatedInv'
  <2> DEFINE shown == Shown(program, run.self)
             stamp == Stamp(program, Uuid)
  <2>1. Evaluated = Evaluation(Plan, shown, stamp)[Done]
    BY <1>1 DEF EvaluatedInv, EvaluationOf, Plan
  <2>2. Evaluation(Plan, shown, stamp)[Done + 1]
        = After(Evaluation(Plan, shown, stamp)[Done], item, shown, stamp)
    <3>1. Done + 1 \in 1 .. Len(Plan) /\ (Done + 1) - 1 = Done
      BY <1>6
    <3> HIDE DEF shown, stamp
    <3>2. QED
      BY <1>6, <3>1, EvaluationStep
  <2>3. item \in Steps => Does(program, item)
    BY <1>2, <1>4, DoneDoes
  <2>4. Evaluated' = After(Evaluated, item, shown, stamp)
    BY <1>4, <2>3, AfterShown
  <2>5. Evaluated' = Evaluation(Plan, shown, stamp)[Done + 1]
    BY <2>1, <2>2, <2>4
  <2>6. EvaluationOf(run.program, run.self, Uuid)' = Evaluation(Plan, shown, stamp)
    BY <1>3, <1>4 DEF EvaluationOf, Plan
  <2>7. QED
    BY <1>3, <2>5, <2>6 DEF EvaluatedInv
<1>8. AccessedInv'
  BY <1>1, <1>3, <1>4 DEF AccessedInv
<1>9. ShownInv'
  <2>1. PICK added \in Traces(Selfs) :
          /\ run'.trace = run.trace \o added
          /\ item = "emit_self" => Emits(added, run.self)
          /\ item = "spawn_ordered" => HasChild(added, Uuid)
          /\ \A uuid : HasChild(added, uuid) => uuid = Uuid
    BY <1>1, AddedShows
  <2>2. run.trace \in Seq(Events(Selfs) \union {NL}) /\ added \in Seq(Events(Selfs) \union {NL})
    BY <1>5 DEF Traces
  <2>3. /\ Emits(run.trace, run.self) \/ Emits(added, run.self) => Emits(run'.trace, run.self)
        /\ \A uuid : HasChild(run'.trace, uuid) <=> HasChild(run.trace, uuid) \/ HasChild(added, uuid)
    <3>1. ASSUME NEW uuid
          PROVE  /\ Emits(run.trace, run.self) \/ Emits(added, run.self) =>
                      Emits(run.trace \o added, run.self)
                 /\ HasChild(run.trace \o added, uuid) <=>
                      HasChild(run.trace, uuid) \/ HasChild(added, uuid)
      BY <2>2, Extended
    <3>2. QED
      BY <2>1, <3>1
  <2>4. (IsDone("emit_self") => Emits(run.trace, run.self))'
    BY <1>1, <1>3, <1>4, <2>1, <2>3 DEF ShownInv
  <2>5. (IsDone("spawn_ordered") => HasChild(run.trace, Uuid))'
    BY <1>1, <1>3, <1>4, <2>1, <2>3 DEF ShownInv
  <2>6. (\A uuid : HasChild(run.trace, uuid) => uuid = Uuid)'
    BY <1>1, <1>3, <1>4, <2>1, <2>3 DEF ShownInv
  <2>7. QED
    BY <2>4, <2>5, <2>6 DEF ShownInv
<1>10. ChildrenInv'
  BY <1>1, <1>2, <1>3, <1>4 DEF ChildrenInv
<1>11. ToldInv'
  <2>1. program.outcome \notin Failing => run'.partial = Absent
    <3>1. ASSUME program.outcome \notin Failing
          PROVE  run'.partial = Absent
      <4>1. item # "failure_event"
        BY <1>2, <1>4, <3>1, Places
      <4>2. After(Evaluated, item, run.self, Uuid).partial = run.partial
        BY <4>1 DEF After, Evaluated
      <4>3. Evaluated'.partial = run'.partial
        BY DEF Evaluated
      <4>4. QED
        BY <1>1, <1>2, <1>4, <3>1, <4>2, <4>3 DEF ToldInv
    <3>2. QED
      BY <3>1
  <2>2. QED
    BY <1>1, <1>2, <1>3, <1>4, <2>1 DEF ToldInv
<1>12. ReceiptsInv' /\ DivergesExactlyIf'
  BY <1>1, <1>4 DEF ReceiptsInv, DivergesExactlyIf
<1>13. item # "digests" => SealedNowInv'
  <2>1. SUFFICES ASSUME item # "digests", Left' <= 1, program.outcome # "not_jsonable"
                 PROVE  FALSE
    BY <1>4 DEF SealedNowInv
  <2>2. Left = 2
    BY <1>3, <2>1
  <2>3. TailOf(program.outcome) = OkTail \/ program.outcome = "error" \/ program.outcome = "qmark"
    BY <1>5, <2>1, Tails
  <2>4. item = "digests"
    BY <1>2, <1>4, <2>2, <2>3, Due
  <2>5. QED
    BY <2>1, <2>4
<1>14. UNCHANGED sealed => SealedIdsInv'
  BY <1>1, <1>4 DEF SealedIdsInv
<1>15. QED
  BY <1>7, <1>8, <1>9, <1>10, <1>11, <1>12, <1>13, <1>14

-----------------------------------------------------------------------------
(* The digests that are written *)

LEMMA PrevIs ==
  ASSUME DigestInv, Attempting
  PROVE  /\ run.attempt \in 1 .. 3 /\ Telling = run.attempt /\ runs \in Nat
         /\ run.attempt = 1 => run.prev = Absent /\ run.self = Pending
         /\ run.attempt # 1 =>
              /\ run.prev = run.self /\ run.self \in RunIds
              /\ run.self # Pending /\ run.self # Absent
<1>1. /\ TypeOK /\ SelfInv /\ ToldInv /\ Running
  BY DEF DigestInv, IndInv, Attempting
<1>2. run.attempt \in 1 .. 3 /\ Telling = run.attempt /\ runs \in Nat
  BY <1>1, RunIsTyped, MaxRunsAssumption DEF Attempting, Telling, TypeOK
<1>3. run.prev = IF run.attempt = 1 THEN Absent ELSE run.self
  BY <1>1, <1>2 DEF SelfInv
<1>4. run.self = Told(run.program, run.noTrace, runs, run.attempt)
  BY <1>1, <1>2 DEF ToldInv
<1>5. run.attempt = 1 => run.self = Pending
  BY <1>4 DEF Told
<1>6. run.attempt # 1 => run.self \in RunIds
  <2>1. run.attempt # 1 => run.attempt \in 2 .. run.attempt
    BY <1>2
  <2>2. QED
    BY <1>1, <1>2, <1>4, <2>1 DEF ToldInv
<1>7. run.attempt # 1 => run.self # Pending /\ run.self # Absent
  BY <1>6, MarkersAssumption
<1>8. QED
  BY <1>2, <1>3, <1>5, <1>6, <1>7

LEMMA IdIs ==
  ASSUME DigestInv, Attempting, Left = 2, run.program.outcome # "not_jsonable"
  PROVE  DigestsOf(dir) = IdOf(run.program, run.noTrace, run.self, Uuid)
<1> DEFINE program == run.program
           outcome == run.program.outcome
           leaf    == IF Ok THEN Result ELSE Failure
           end     == EvaluationOf(program, run.self, Uuid)[Len(ToDo(program)) - 2]
<1>1. /\ TypeOK /\ PlanInv /\ SelfInv /\ TraceInv /\ FilesInv /\ EvaluatedInv
  BY DEF DigestInv, IndInv
<1>2. /\ DigestsOf(dir).trace = (IF run.noTrace THEN NoTrace ELSE run.trace)
      /\ DigestsOf(dir).graph = Graph
      /\ DigestsOf(dir).leaf = Normalised(leaf)
      /\ DigestsOf(dir).ok = Ok
  BY <1>1, DigestsAre
<1>3. outcome \in Outcomes
  BY <1>1, RunIsTyped DEF Attempting
<1>4. Evaluated = end
  <2>1. Done = Len(ToDo(program)) - 2
    BY DEF Done, Plan
  <2>2. QED
    BY <1>1, <2>1 DEF EvaluatedInv
<1>5. end.trace = run.trace /\ end.partial = run.partial
  BY <1>4 DEF Evaluated
<1>6. Ok <=> outcome \notin Failing
  BY DEF Ok, Failing
<1>7. /\ run.attempt = 1 => run.prev = Absent /\ run.self = Pending
      /\ run.attempt # 1 =>
              /\ run.prev = run.self /\ run.self \in RunIds
              /\ run.self # Pending /\ run.self # Absent
  BY PrevIs
<1>8. Normalised(leaf) = LeafOf(program, run.self, end.partial)
  <2>1. CASE outcome \in Failing
    <3>1. leaf = [code |-> outcome, partial |-> run.partial]
      BY <1>6, <2>1 DEF Failure
    <3>2. DOMAIN leaf # {"self"} /\ DOMAIN [self |-> run.prev] = {"self"}
      <4>1. "code" \in DOMAIN leaf
        BY <3>1
      <4>2. QED
        BY <4>1
    <3>3. Normalised(leaf) = leaf
      BY <3>2 DEF Normalised
    <3> HIDE DEF end
    <3>4. LeafOf(program, run.self, end.partial) = [code |-> outcome, partial |-> end.partial]
      BY <2>1 DEF LeafOf, Failing
    <3>5. QED
      BY <3>1, <3>3, <3>4, <1>5
  <2>2. CASE outcome = "self"
    <3>1. leaf = [self |-> run.self]
      BY <1>6, <2>2 DEF Result, Failing
    <3>2. CASE run.attempt = 1
      BY <1>7, <2>2, <3>1, <3>2 DEF Normalised, LeafOf, Failing
    <3>3. CASE run.attempt # 1
      BY <1>7, <2>2, <3>1, <3>3 DEF Normalised, LeafOf, Failing
    <3>4. QED
      BY <3>2, <3>3
  <2>3. CASE outcome = "self_in_thread"
    <3>1. leaf = [self |-> Pending]
      BY <1>6, <2>3 DEF Result, Failing
    <3>2. run.prev # Absent => [self |-> run.prev] # leaf
      <4>1. [self |-> run.prev].self = run.prev /\ leaf.self = Pending
        BY <3>1
      <4>2. QED
        BY <1>7, <4>1
    <3>3. QED
      BY <2>3, <3>1, <3>2 DEF Normalised, LeafOf, Failing
  <2>4. CASE outcome = "hash_of_self"
    <3>1. leaf = [hash |-> run.self]
      BY <1>6, <2>4 DEF Result, Failing
    <3>2. DOMAIN leaf = {"hash"} /\ DOMAIN [self |-> run.prev] = {"self"}
      BY <3>1
    <3>3. Normalised(leaf) = leaf
      BY <3>2 DEF Normalised
    <3>4. QED
      BY <2>4, <3>1, <3>3 DEF LeafOf, Failing
  <2>5. CASE outcome \notin Failing \union {"self", "self_in_thread", "hash_of_self"}
    <3>1. leaf = [value |-> program.name]
      BY <1>6, <2>5 DEF Result, Failing
    <3>2. DOMAIN leaf = {"value"} /\ DOMAIN [self |-> run.prev] = {"self"}
      BY <3>1
    <3>3. Normalised(leaf) = leaf
      BY <3>2 DEF Normalised
    <3>4. QED
      BY <2>5, <3>1, <3>3 DEF LeafOf, Failing
  <2>6. QED
    BY <2>1, <2>2, <2>3, <2>4, <2>5
<1>9. DigestsOf(dir) = [trace |-> DigestsOf(dir).trace, graph |-> DigestsOf(dir).graph,
                        leaf |-> DigestsOf(dir).leaf, ok |-> DigestsOf(dir).ok]
  BY DEF DigestsOf
<1> HIDE DEF leaf
<1>10. IdOf(program, run.noTrace, run.self, Uuid)
       = [trace |-> IF run.noTrace THEN NoTrace ELSE end.trace, graph |-> [main |-> program.name],
          leaf |-> LeafOf(program, run.self, end.partial), ok |-> outcome \notin Failing]
  BY DEF IdOf
<1>11. (outcome \notin Failing) = Ok
  BY <1>6 DEF Ok
<1> HIDE DEF end
<1>12. QED
  BY <1>2, <1>5, <1>8, <1>9, <1>10, <1>11 DEF Graph

LEMMA WriteDigestsKeeps ==
  ASSUME DigestInv, IndInv', WriteDigests
  PROVE  DigestInv'
<1> DEFINE id   == DigestsOf(dir)
           seal == [program |-> run.program, noTrace |-> run.noTrace, attempt |-> run.attempt,
                    trace |-> run.trace, graph |-> Graph, leaf |-> IF Ok THEN Result ELSE Failure,
                    ok |-> Ok, id |-> id]
<1>1. IndInv /\ TypeOK /\ PlanInv /\ TypeOK' /\ ToldInv /\ SealedIdsInv
  BY DEF DigestInv, IndInv
<1>2. Next1("digests")
      /\ dir' = [dir EXCEPT !.digests = id]
      /\ sealed' = sealed \union {seal}
      /\ run' = [run EXCEPT !.todo = Tail(@)]
      /\ UNCHANGED <<receipts, exit, runs>>
  BY DEF WriteDigests, RunId
<1>3. seal.program = run.program /\ seal.noTrace = run.noTrace /\ seal.attempt = run.attempt
      /\ seal.id = id
  OBVIOUS
<1> HIDE DEF seal
<1>4. Attempting /\ CarriesOut("digests")
  BY <1>1, <1>2, FilesCarryOut
<1>5. /\ EvaluatedInv' /\ AccessedInv' /\ ShownInv' /\ ChildrenInv' /\ ToldInv' /\ ReceiptsInv'
      /\ DivergesExactlyIf'
  BY <1>4, CarriedOut
<1>6. /\ Head(run.todo) = "digests" /\ Running
      /\ run'.program = run.program /\ run'.noTrace = run.noTrace /\ run'.self = run.self
      /\ Uuid' = Uuid
  BY <1>1, <1>4, OneMoreDone DEF CarriesOut, Advances, Attempting
<1>7. Left = 2 /\ run.program.outcome # "not_jsonable"
  <2>1. /\ Left = 2
        /\ TailOf(run.program.outcome) = OkTail \/ run.program.outcome \in Failing
    BY <1>1, <1>4, <1>6, Places
  <2>2. run.program.outcome \in Outcomes
    BY <1>1, <1>6, RunIsTyped
  <2>3. QED
    BY <2>1, <2>2, Tails DEF Failing
<1>8. id = IdOf(run.program, run.noTrace, run.self, Uuid)
  BY <1>4, <1>7, IdIs
<1>9. dir'.digests = id
  BY <1>1, <1>2 DEF TypeOK
<1> HIDE DEF id
<1>10. SealedNowInv'
  <2>1. seal \in sealed'
    BY <1>2
  <2>2. dir'.digests = IdOf(run.program, run.noTrace, run.self, Uuid)'
    BY <1>6, <1>8, <1>9
  <2>3. QED
    BY <1>3, <1>6, <1>9, <2>1, <2>2 DEF SealedNowInv
<1>11. SealedIdsInv'
  <2>1. runs \in 1 .. runs /\ runs' = runs
    BY <1>1, <1>2, <1>6, MaxRunsAssumption DEF ToldInv, TypeOK
  <2>2. run.self = Told(run.program, run.noTrace, runs, run.attempt) /\ Uuid = <<runs, run.attempt>>
    BY <1>1, <1>4, <1>6, PrevIs DEF ToldInv, Uuid
  <2>3. \E r \in 1 .. runs :
          seal.id = IdOf(seal.program, seal.noTrace,
                         Told(seal.program, seal.noTrace, r, seal.attempt), <<r, seal.attempt>>)
    BY <1>3, <1>8, <2>1, <2>2
  <2>4. QED
    BY <1>1, <1>2, <2>1, <2>3 DEF SealedIdsInv
<1>12. QED
  BY <1>5, <1>10, <1>11 DEF DigestInv

-----------------------------------------------------------------------------
(* The fixed point *)

\* A RunID that was told is not among the contents it is a digest of.
LEMMA NotOfItself ==
  ASSUME NEW x \in Selfs, x # Pending
  PROVE  \E S : x \in RunIdsOf(S) /\ x \notin S
<1>1. x \in FirstSelfs \union RunIdsOf(FirstSelfs) \union RunIdsOf(SecondSelfs) /\ x \notin FirstSelfs
  BY DEF Selfs, SecondSelfs, FirstSelfs
<1>2. CASE x \in RunIdsOf(FirstSelfs)
  BY <1>1, <1>2
<1>3. CASE x \notin RunIdsOf(FirstSelfs)
  BY <1>1, <1>3 DEF SecondSelfs
<1>4. QED
  BY <1>2, <1>3

LEMMA NoHashOfItself ==
  ASSUME NEW x \in Selfs, x # Pending
  PROVE  x.leaf # [hash |-> x]
<1>1. PICK S : x \in RunIdsOf(S) /\ x \notin S
  BY NotOfItself
<1>2. x.leaf \in Leaves(S)
  BY <1>1 DEF RunIdsOf
<1>3. ASSUME x.leaf = [hash |-> x]
      PROVE  FALSE
  <2>1. DOMAIN x.leaf = {"hash"} /\ x.leaf.hash = x
    BY <1>3
  <2>2. x.leaf \in [hash : S]
    BY <1>2, <2>1 DEF Leaves, Results, Failures
  <2>3. QED
    BY <1>1, <2>1, <2>2
<1>4. QED
  BY <1>3

LEMMA NoEventOfItself ==
  ASSUME NEW x \in Selfs, x # Pending, x.trace # NoTrace
  PROVE  ~Emits(x.trace, x)
<1>1. PICK S : x \in RunIdsOf(S) /\ x \notin S
  BY NotOfItself
<1>2. x.trace \in Seq(Events(S) \union {NL})
  BY <1>1 DEF RunIdsOf, Traces
<1>3. Emit(x) \in Events(Selfs)
  <2>1. {"t", "v"} \in SUBSET Keys /\ "emit" \in Written
    BY DEF Keys, Written, Tags
  <2>2. QED
    BY <2>1 DEF Emit, Events
<1>4. Emit(x) # NL
  BY <1>3, MarkersAssumption
<1>5. Emit(x) \notin Events(S)
  <2>1. DOMAIN Emit(x) = {"t", "keys", "sorted", "value"} /\ Emit(x).value = x
    BY DEF Emit
  <2>2. ASSUME Emit(x) \in Events(S)
        PROVE  Emit(x) \in [t : Written, keys : SUBSET Keys, sorted : BOOLEAN, value : S]
    BY <2>1, <2>2 DEF Events
  <2>3. QED
    BY <1>1, <2>1, <2>2
<1>6. \A i \in DOMAIN x.trace : x.trace[i] # Emit(x)
  BY <1>2, <1>4, <1>5
<1>7. QED
  BY <1>6 DEF Emits

\* Where the process stands when it settles.
LEMMA Settling ==
  ASSUME DigestInv, Next1("settle"), NEW id, id = dir.digests
  PROVE  /\ Attempting /\ Running /\ run \in RunStates
         /\ run.program \in Programs /\ run.program.outcome \in Outcomes
         /\ run.program.outcome \notin Failing /\ run.program.outcome # "not_jsonable"
         /\ id \in RunIds /\ id = IdOf(run.program, run.noTrace, run.self, Uuid)
         /\ id.trace = IF run.noTrace THEN NoTrace ELSE run.trace
         /\ id.leaf = LeafOf(run.program, run.self, Absent)
         /\ dir.result = Result
         /\ \E s \in sealed : s.id = id /\ s.program = run.program
         /\ \A step \in Steps : IsDone(step) <=> Does(run.program, step)
         /\ run.accessed <=> Does(run.program, "self") \/ Does(run.program, "emit_self")
         /\ ~run.accessed => run.program.outcome \notin {"self", "hash_of_self"}
<1>1. /\ TypeOK /\ PlanInv /\ SelfInv /\ TraceInv /\ FilesInv /\ AccessedInv /\ ToldInv
      /\ EvaluatedInv /\ SealedNowInv
  BY DEF DigestInv, IndInv
<1>2. Attempting /\ Running /\ Head(run.todo) = "settle"
  BY DEF Next1, Attempting, CleaningUp
<1>3. Left = 1 /\ TailOf(run.program.outcome) = OkTail
  BY <1>1, <1>2, Places
<1>4. run \in RunStates /\ run.program \in Programs /\ run.program.outcome \in Outcomes
  BY <1>1, <1>2, RunIsTyped
<1>5. run.program.outcome \notin Failing /\ run.program.outcome # "not_jsonable"
  BY <1>3, <1>4, Tails DEF Failing
<1>6. dir.digests = DigestsOf(dir) /\ dir.result = Result
  BY <1>1, <1>2, <1>3 DEF FilesInv
<1>7. id \in RunIds /\ id.trace = IF run.noTrace THEN NoTrace ELSE run.trace
  BY <1>1, <1>2, <1>3, <1>5, <1>6, DigestsAre
<1>8. /\ id = IdOf(run.program, run.noTrace, run.self, Uuid)
      /\ \E s \in sealed : s.id = id /\ s.program = run.program
  BY <1>1, <1>2, <1>3, <1>5 DEF SealedNowInv
<1>9. id.leaf = LeafOf(run.program, run.self, Absent)
  <2>1. \A partial : LeafOf(run.program, run.self, partial) = LeafOf(run.program, run.self, Absent)
    BY <1>5 DEF LeafOf
  <2>2. \E partial : id.leaf = LeafOf(run.program, run.self, partial)
    BY <1>8 DEF IdOf
  <2>3. QED
    BY <2>1, <2>2
<1>10. \A step \in Steps : IsDone(step) <=> Does(run.program, step)
  BY <1>1, <1>2, <1>3, DoneDoes
<1>11. run.accessed <=> Does(run.program, "self") \/ Does(run.program, "emit_self")
  BY <1>1, <1>2, <1>10 DEF AccessedInv, Steps
<1>12. ~run.accessed => run.program.outcome \notin {"self", "hash_of_self"}
  BY <1>4, <1>11, ProgramsAssumption DEF Does
<1>13. QED
  BY <1>2, <1>4, <1>5, <1>6, <1>7, <1>8, <1>9, <1>10, <1>11, <1>12

\* An unstable program is not given the digest that it has.
LEMMA UnstableMoves ==
  ASSUME DigestInv, Next1("settle"), ~run.accessed \/ Converged(dir.digests)
  PROVE  ~Unstable(run.program, run.noTrace)
<1> DEFINE id == dir.digests
<1>1. /\ Attempting /\ Running
      /\ run.program.outcome \notin Failing /\ run.program.outcome # "not_jsonable"
      /\ id \in RunIds
      /\ id.trace = IF run.noTrace THEN NoTrace ELSE run.trace
      /\ id.leaf = LeafOf(run.program, run.self, Absent)
      /\ \A step \in Steps : IsDone(step) <=> Does(run.program, step)
      /\ run.accessed <=> Does(run.program, "self") \/ Does(run.program, "emit_self")
      /\ ~run.accessed => run.program.outcome \notin {"self", "hash_of_self"}
  BY Settling
<1>2. TypeOK /\ ShownInv /\ ChildrenInv
  BY DEF DigestInv, IndInv
<1>3. run.self \in Selfs /\ run.trace \in Traces(Selfs)
  BY <1>1, <1>2, RunIsTyped
<1>4. CASE ~run.accessed
  BY <1>1, <1>4 DEF Unstable
<1>5. CASE run.prev = id
  <2>1. run.self = id /\ id # Pending /\ run.prev # Absent /\ Telling = run.attempt
    BY <1>1, <1>5, PrevIs, MarkersAssumption
  <2>2. run.program.outcome # "hash_of_self"
    <3>1. run.program.outcome = "hash_of_self" => id.leaf = [hash |-> id]
      BY <1>1, <2>1 DEF LeafOf, Failing
    <3>2. QED
      BY <1>3, <2>1, <3>1, NoHashOfItself
  <2>3. ASSUME ~run.noTrace
        PROVE  ~Does(run.program, "emit_self") /\ ~Does(run.program, "spawn_ordered")
    <3>1. id.trace = run.trace /\ id.trace # NoTrace
      BY <1>1, <1>3, <2>3, MarkersAssumption
    <3>2. ~Does(run.program, "emit_self")
      <4>1. ~Emits(run.trace, run.self)
        BY <1>3, <2>1, <3>1, NoEventOfItself
      <4>2. QED
        BY <1>1, <1>2, <4>1 DEF ShownInv, Steps
    <3>3. ~Does(run.program, "spawn_ordered")
      <4>1. ~HasChild(run.trace, Uuid)
        BY <1>1, <1>2, <1>5, <2>1, <3>1 DEF ChildrenInv, Uuid
      <4>2. QED
        BY <1>1, <1>2, <4>1 DEF ShownInv, Steps
    <3>4. QED
      BY <3>2, <3>3
  <2>4. QED
    BY <2>2, <2>3 DEF Unstable
<1>6. QED
  BY <1>4, <1>5 DEF Converged

\* A program that shows neither its digest nor its children gets the same RunID
\* from the second attempt on.
LEMMA StableSettles ==
  ASSUME DigestInv, Next1("settle"), run.accessed, ~Converged(dir.digests), ~MayRetry
  PROVE  Unstable(run.program, run.noTrace)
<1> DEFINE id      == dir.digests
           program == run.program
           noTrace == run.noTrace
           first   == IdOf(program, noTrace, Pending, <<runs, 1>>)
<1>1. /\ Attempting /\ Running /\ program.outcome \in Outcomes
      /\ program.outcome \notin Failing /\ program.outcome # "not_jsonable"
      /\ id = IdOf(program, noTrace, run.self, Uuid)
      /\ Does(program, "self") \/ Does(program, "emit_self")
  BY Settling
<1>2. ToldInv
  BY DEF DigestInv
<1>3. run.attempt = 3 /\ run.prev = run.self /\ run.self # Pending /\ Telling = 3
  <2>1. run.attempt \in 1 .. 3 /\ ~(run.attempt < 3) /\ Telling = run.attempt
    BY <1>1, PrevIs DEF MayRetry, MaxAttempts
  <2>2. run.attempt = 3
    BY <2>1
  <2>3. QED
    BY <1>1, <2>1, <2>2, PrevIs
<1>4. run.self = IdOf(program, noTrace, first, <<runs, 2>>)
  BY <1>1, <1>2, <1>3 DEF ToldInv, Told
<1>5. first # Pending
  <2>1. 2 \in 2 .. Telling
    BY <1>3
  <2>2. Told(program, noTrace, runs, 2) \in RunIds
    BY <1>1, <1>2, <2>1 DEF ToldInv
  <2>3. first \in RunIds
    BY <2>2 DEF Told
  <2>4. QED
    BY <2>3, MarkersAssumption
<1> HIDE DEF first
<1>6. ASSUME ~Unstable(program, noTrace)
      PROVE  id = run.self
  <2>1. program.outcome # "hash_of_self"
    BY <1>6 DEF Unstable
  <2>2. ~noTrace => ~Does(program, "emit_self") /\ ~Does(program, "spawn_ordered")
    BY <1>1, <1>6 DEF Unstable, Failing
  <2>3. \A partial1, partial2 :
          LeafOf(program, run.self, partial1) = LeafOf(program, first, partial2)
    BY <1>1, <1>3, <1>5, <2>1 DEF LeafOf
  <2>4. ~noTrace => EvaluationOf(program, run.self, Uuid) = EvaluationOf(program, first, <<runs, 2>>)
    BY <2>2 DEF EvaluationOf, Shown, Stamp
  <2> DEFINE end1 == EvaluationOf(program, run.self, Uuid)[Len(ToDo(program)) - 2]
             end2 == EvaluationOf(program, first, <<runs, 2>>)[Len(ToDo(program)) - 2]
  <2>5. ~noTrace => end1 = end2
    BY <2>4
  <2>6. id = [trace |-> IF noTrace THEN NoTrace ELSE end1.trace, graph |-> [main |-> program.name],
              leaf |-> LeafOf(program, run.self, end1.partial), ok |-> program.outcome \notin Failing]
    BY <1>1 DEF IdOf
  <2>7. run.self
        = [trace |-> IF noTrace THEN NoTrace ELSE end2.trace, graph |-> [main |-> program.name],
           leaf |-> LeafOf(program, first, end2.partial), ok |-> program.outcome \notin Failing]
    BY <1>4 DEF IdOf
  <2> HIDE DEF end1, end2
  <2>8. (IF noTrace THEN NoTrace ELSE end1.trace) = (IF noTrace THEN NoTrace ELSE end2.trace)
    BY <2>5
  <2>9. LeafOf(program, run.self, end1.partial) = LeafOf(program, first, end2.partial)
    BY <2>3
  <2>10. QED
    BY <2>6, <2>7, <2>8, <2>9
<1>7. QED
  BY <1>3, <1>6 DEF Converged

\* Only the history is left when no program runs.
LEMMA NothingTold ==
  ASSUME IndInv', run' = NotRunning, SealedIdsInv', ReceiptsInv', DivergesExactlyIf'
  PROVE  DigestInv'
<1>1. ~Running' /\ ~Attempting'
  BY DEF Running, Attempting
<1>2. QED
  BY <1>1 DEF DigestInv, EvaluatedInv, AccessedInv, ShownInv, ChildrenInv, ToldInv, SealedNowInv

LEMMA SettleKeeps ==
  ASSUME DigestInv, IndInv', Settle
  PROVE  DigestInv'
<1> DEFINE id      == dir.digests
           program == run.program
<1>1. /\ IndInv /\ TypeOK /\ ShownInv /\ ToldInv /\ SealedIdsInv /\ ReceiptsInv
  BY DEF DigestInv, IndInv
<1>2. Next1("settle") /\ UNCHANGED <<dir, runs, sealed>>
  BY DEF Settle
<1>3. /\ Attempting /\ Running /\ run \in RunStates /\ program \in Programs
      /\ program.outcome \in Outcomes
      /\ program.outcome \notin Failing /\ program.outcome # "not_jsonable"
      /\ id \in RunIds /\ id = IdOf(program, run.noTrace, run.self, Uuid)
      /\ id.trace = IF run.noTrace THEN NoTrace ELSE run.trace
      /\ id.leaf = LeafOf(program, run.self, Absent)
      /\ dir.result = Result
      /\ \E s \in sealed : s.id = id /\ s.program = program
      /\ ~run.accessed => program.outcome \notin {"self", "hash_of_self"}
  BY <1>2, Settling
<1>4. /\ run.attempt \in 1 .. 3 /\ Telling = run.attempt /\ runs \in Nat
      /\ run.attempt # 1 => run.prev = run.self /\ run.self # Pending
  BY <1>3, PrevIs
<1>5. run.trace \in Traces(Selfs)
  BY <1>1, <1>3, RunIsTyped
<1>6. CASE /\ MayRetry
           /\ run' = [run EXCEPT !.prev = id, !.self = id,
                                 !.todo = <<"truncate", "remove", "reopen">>]
           /\ UNCHANGED <<receipts, exit>>
  <2>1. /\ run'.program = program /\ run'.noTrace = run.noTrace /\ run'.attempt = run.attempt
        /\ run'.partial = run.partial
        /\ run'.prev = id /\ run'.self = id
        /\ run'.todo = <<"truncate", "remove", "reopen">>
    BY <1>3, <1>6 DEF RunStates
  <2>2. run' # NotRunning
    <3>1. run'.todo # NotRunning.todo
      BY <2>1 DEF NotRunning
    <3>2. QED
      BY <3>1
  <2>3. Running' /\ CleaningUp' /\ ~Attempting'
    BY <2>1, <2>2 DEF Running, CleaningUp, Attempting
  <2>4. Telling' = run.attempt + 1
    BY <2>1, <2>3 DEF Telling
  <2>5. EvaluatedInv' /\ AccessedInv' /\ ShownInv' /\ SealedNowInv'
    BY <2>3 DEF EvaluatedInv, AccessedInv, ShownInv, SealedNowInv
  <2>6. ChildrenInv'
    <3>1. \A uuid : HasChild(run.trace, uuid) => uuid = <<runs, run.attempt>>
      BY <1>1, <1>3 DEF ShownInv, Uuid
    <3>2. <<runs, run.attempt + 1>> # <<runs, run.attempt>>
      BY <1>4
    <3>3. id.trace # NoTrace => ~HasChild(id.trace, <<runs, run.attempt + 1>>)
      BY <1>3, <3>1, <3>2
    <3>4. QED
      BY <1>2, <2>1, <2>4, <3>3 DEF ChildrenInv
  <2>7. ToldInv'
    <3>1. id = Told(program, run.noTrace, runs, run.attempt + 1)
      <4>1. run.attempt \in {1, 2}
        BY <1>4, <1>6 DEF MayRetry, MaxAttempts
      <4>2. run.self = Told(program, run.noTrace, runs, run.attempt)
        BY <1>1, <1>3, <1>4 DEF ToldInv
      <4>3. id = IdOf(program, run.noTrace, Told(program, run.noTrace, runs, run.attempt),
                      <<runs, run.attempt>>)
        BY <1>3, <4>2 DEF Uuid
      <4>4. CASE run.attempt = 1
        BY <4>3, <4>4 DEF Told
      <4>5. CASE run.attempt = 2
        BY <4>3, <4>5 DEF Told
      <4>6. QED
        BY <4>1, <4>4, <4>5
    <3>2. ASSUME NEW n \in 2 .. run.attempt + 1
          PROVE  Told(program, run.noTrace, runs, n) \in RunIds
      <4>1. CASE n = run.attempt + 1
        BY <1>3, <3>1, <4>1
      <4>2. CASE n # run.attempt + 1
        <5>1. n \in 2 .. Telling
          BY <1>4, <4>2
        <5>2. QED
          BY <1>1, <1>3, <5>1 DEF ToldInv
      <4>3. QED
        BY <4>1, <4>2
    <3>3. QED
      BY <1>1, <1>2, <1>3, <2>1, <2>4, <3>1, <3>2 DEF ToldInv
  <2>8. SealedIdsInv' /\ ReceiptsInv' /\ DivergesExactlyIf'
    BY <1>2, <1>6 DEF DigestInv, SealedIdsInv, ReceiptsInv, DivergesExactlyIf
  <2>9. QED
    BY <2>5, <2>6, <2>7, <2>8 DEF DigestInv
<1>7. CASE run.accessed /\ ~Converged(id) /\ ~MayRetry /\ Fail("diverged") /\ UNCHANGED receipts
  <2>1. Unstable(program, run.noTrace)
    BY <1>2, <1>7, StableSettles
  <2>2. run' = NotRunning /\ exit'.code = "diverged"
        /\ exit'.program = program /\ exit'.noTrace = run.noTrace
    BY <1>7 DEF Fail, Ended
  <2>3. DivergesExactlyIf'
    BY <2>1, <2>2 DEF DivergesExactlyIf
  <2>4. SealedIdsInv' /\ ReceiptsInv'
    BY <1>1, <1>2, <1>7 DEF SealedIdsInv, ReceiptsInv
  <2>5. QED
    BY <2>2, <2>3, <2>4, NothingTold
<1>8. CASE (~run.accessed \/ Converged(id)) /\ WriteReceipt(id)
  <2> DEFINE receipt == [run_id |-> id, output |-> dir.result, derived_from |-> run.deps]
  <2>1. ~Unstable(program, run.noTrace)
    BY <1>2, <1>8, UnstableMoves
  <2>2. /\ run' = NotRunning /\ exit'.code = "ok"
        /\ exit'.program = program /\ exit'.noTrace = run.noTrace
        /\ receipts' = {r \in receipts : r.run_id # id} \union {receipt}
    BY <1>8 DEF WriteReceipt, Ended
  <2>3. DivergesExactlyIf'
    BY <2>1, <2>2 DEF DivergesExactlyIf
  <2>4. SealedIdsInv'
    BY <1>1, <1>2 DEF SealedIdsInv
  <2>5. ASSUME DOMAIN receipt.output = {"self"}
        PROVE  \/ receipt.output.self = receipt.run_id /\ receipt.run_id.leaf = [self |-> SelfMark]
               \/ /\ receipt.output.self = Pending
                  /\ \E s \in sealed : s.id = receipt.run_id /\ s.program.outcome = "self_in_thread"
    <3>1. receipt.output = Result /\ receipt.run_id = id
      BY <1>3
    <3> HIDE DEF receipt
    <3>2. CASE program.outcome = "self"
      <4>1. Result.self = run.self
        BY <3>2 DEF Result
      <4>2. run.prev = id
        BY <1>3, <1>8, <3>2 DEF Converged
      <4>3. run.self = id /\ run.self # Pending
        <5>1. run.prev # Absent
          BY <1>3, <4>2, MarkersAssumption
        <5>2. run.attempt # 1
          BY <1>3, <5>1, PrevIs
        <5>3. QED
          BY <1>4, <4>2, <5>2
      <4>4. id.leaf = [self |-> SelfMark]
        BY <1>3, <3>2, <4>3 DEF LeafOf
      <4>5. QED
        BY <3>1, <4>1, <4>3, <4>4
    <3>3. CASE program.outcome = "self_in_thread"
      <4>1. Result.self = Pending
        BY <3>3 DEF Result
      <4>2. QED
        BY <1>3, <3>1, <3>3, <4>1
    <3>4. CASE program.outcome \notin {"self", "self_in_thread"}
      <4>1. DOMAIN Result = {"hash"} \/ DOMAIN Result = {"value"}
        BY <3>4 DEF Result
      <4>2. QED
        BY <2>5, <3>1, <4>1
    <3>5. QED
      BY <3>2, <3>3, <3>4
  <2> HIDE DEF receipt
  <2>6. ReceiptsInv'
    BY <1>1, <1>2, <2>2, <2>5 DEF ReceiptsInv
  <2>7. QED
    BY <2>2, <2>3, <2>4, <2>6, NothingTold
<1>9. QED
  BY <1>6, <1>7, <1>8 DEF Settle, RunId

-----------------------------------------------------------------------------
(* The other steps *)

LEMMA CarriedOutKeeps ==
  ASSUME DigestInv, IndInv', Attempting, NEW item, item # "digests", CarriesOut(item), UNCHANGED sealed
  PROVE  DigestInv'
<1>1. /\ EvaluatedInv' /\ AccessedInv' /\ ShownInv' /\ ChildrenInv' /\ ToldInv' /\ ReceiptsInv'
      /\ DivergesExactlyIf'
      /\ SealedNowInv'
      /\ SealedIdsInv'
  BY CarriedOut
<1>2. QED
  BY <1>1 DEF DigestInv

LEMMA EventsKeep ==
  ASSUME DigestInv, IndInv', NEW item \in (Steps \ {"artifact"}) \union EventItems, Next1(item),
         WriteEvents(EventsOf(item), item \in {"self", "emit_self"},
                     IF item = "failure_event" THEN run.trace ELSE run.partial)
  PROVE  DigestInv'
<1>1. IndInv /\ TypeOK'
  BY DEF DigestInv, IndInv
<1>2. Attempting /\ CarriesOut(item) /\ UNCHANGED sealed
  BY <1>1, EventsCarryOut
<1>3. item # "digests"
  BY DEF Steps, EventItems
<1>4. QED
  BY <1>2, <1>3, CarriedOutKeeps

LEMMA WriteFileKeeps ==
  ASSUME DigestInv, IndInv', WriteFile
  PROVE  DigestInv'
<1>1. PICK file \in {"result", "graph", "error"} :
        /\ Next1(file)
        /\ run' = [run EXCEPT !.todo = Tail(@)]
        /\ UNCHANGED <<receipts, exit, runs, sealed>>
  BY DEF WriteFile
<1>2. IndInv /\ TypeOK'
  BY DEF DigestInv, IndInv
<1>3. Attempting /\ CarriesOut(file)
  BY <1>1, <1>2, FilesCarryOut
<1>4. QED
  BY <1>1, <1>3, CarriedOutKeeps

LEMMA CleaningKeeps ==
  ASSUME DigestInv, IndInv', NEW item \in {"truncate", "remove"}, Next1(item),
         run' = [run EXCEPT !.todo = Tail(@)], UNCHANGED <<receipts, exit, runs, sealed>>
  PROVE  DigestInv'
<1>1. IndInv /\ ChildrenInv /\ ToldInv /\ SealedIdsInv /\ ReceiptsInv /\ DivergesExactlyIf
  BY DEF DigestInv
<1>2. /\ Running /\ CleaningUp /\ run \in RunStates
      /\ item = "truncate" => run.todo = <<"truncate", "remove", "reopen">>
      /\ item = "remove" => run.todo = <<"remove", "reopen">>
  BY <1>1, CleaningFields
<1>3. /\ run'.program = run.program /\ run'.noTrace = run.noTrace /\ run'.attempt = run.attempt
      /\ run'.partial = run.partial /\ run'.prev = run.prev /\ run'.self = run.self
      /\ run'.todo = Tail(run.todo)
  BY <1>2 DEF RunStates
<1>4. Tail(run.todo) \in {<<"remove", "reopen">>, <<"reopen">>}
  <2>1. /\ Tail(<<"truncate", "remove", "reopen">>) = <<"remove", "reopen">>
        /\ Tail(<<"remove", "reopen">>) = <<"reopen">>
    OBVIOUS
  <2>2. QED
    BY <1>2, <2>1
<1>5. Head(run'.todo) \in {"remove", "reopen"} /\ run'.todo # <<>>
  <2>1. /\ Head(<<"remove", "reopen">>) = "remove" /\ <<"remove", "reopen">> # <<>>
        /\ Head(<<"reopen">>) = "reopen" /\ <<"reopen">> # <<>>
    OBVIOUS
  <2>2. CASE Tail(run.todo) = <<"remove", "reopen">>
    BY <1>3, <2>1, <2>2
  <2>3. CASE Tail(run.todo) = <<"reopen">>
    BY <1>3, <2>1, <2>3
  <2>4. QED
    BY <1>4, <2>2, <2>3
<1>6. Running' /\ CleaningUp' /\ ~Attempting'
  <2>1. NotRunning.todo = <<>>
    BY DEF NotRunning
  <2>2. QED
    BY <1>5, <2>1 DEF Running, CleaningUp, Attempting
<1>7. Telling' = Telling
  BY <1>2, <1>3, <1>6 DEF Telling
<1>8. EvaluatedInv' /\ AccessedInv' /\ ShownInv' /\ SealedNowInv'
  BY <1>6 DEF EvaluatedInv, AccessedInv, ShownInv, SealedNowInv
<1>9. ChildrenInv' /\ ToldInv'
  BY <1>1, <1>2, <1>3, <1>6, <1>7 DEF ChildrenInv, ToldInv
<1>10. SealedIdsInv' /\ ReceiptsInv' /\ DivergesExactlyIf'
  BY <1>1 DEF SealedIdsInv, ReceiptsInv, DivergesExactlyIf
<1>11. QED
  BY <1>8, <1>9, <1>10 DEF DigestInv

\* Nothing of the plan is done when an attempt begins.
LEMMA BeginKeeps ==
  ASSUME IndInv', run' \in RunStates, run'.todo = ToDo(run'.program), ~CleaningUp',
         run'.trace = <<>>, run'.first = TRUE, run'.partial = Absent, run'.accessed = FALSE,
         ChildrenInv', ToldInv', SealedIdsInv', ReceiptsInv', DivergesExactlyIf'
  PROVE  DigestInv'
<1> DEFINE program == run'.program
<1>1. Running' /\ Attempting'
  BY RunStatesRun DEF Running, Attempting
<1>2. program \in Programs /\ program.outcome \in Outcomes /\ program.steps \in Seq(Steps)
  BY ProgramsAssumption DEF RunStates
<1>3. Plan' = ToDo(program) /\ Left' = Len(ToDo(program))
  BY DEF Plan, Left
<1>4. /\ Len(ToDo(program)) = Len(program.steps) + Len(TailOf(program.outcome))
      /\ Len(program.steps) \in Nat /\ Len(TailOf(program.outcome)) \in Nat
      /\ Len(ToDo(program)) \in Nat
  <2>1. Len(ToDo(program)) = Len(program.steps) + Len(TailOf(program.outcome))
    BY <1>2, PlanBegins
  <2>2. Len(program.steps) \in Nat /\ Len(TailOf(program.outcome)) \in Nat
    BY <1>2, Tails
  <2>3. \A a, b \in Nat : a + b \in Nat
    OBVIOUS
  <2>4. QED
    BY <2>1, <2>2, <2>3
<1>5. Done' = 0
  BY <1>3, <1>4 DEF Done
<1>6. \A x : ~IsDone(x)'
  BY <1>5 DEF IsDone
<1>7. EvaluatedInv'
  <2>1. Evaluated' = Nothing
    BY DEF Evaluated, Nothing
  <2>2. EvaluationOf(program, run'.self, Uuid')[0] = Nothing
    <3> DEFINE shown == Shown(program, run'.self)
               stamp == Stamp(program, Uuid')
    <3>1. EvaluationOf(program, run'.self, Uuid') = Evaluation(ToDo(program), shown, stamp)
      BY DEF EvaluationOf
    <3> HIDE DEF shown, stamp, program
    <3>2. Evaluation(ToDo(program), shown, stamp)[0] = Nothing
      BY <1>4, EvaluationStep
    <3>3. QED
      BY <3>1, <3>2
  <2>3. QED
    BY <1>5, <2>1, <2>2 DEF EvaluatedInv
<1>8. AccessedInv'
  BY <1>6 DEF AccessedInv
<1>9. ShownInv'
  <2>1. \A uuid : ~HasChild(<<>>, uuid)
    BY DEF HasChild
  <2>2. QED
    BY <1>6, <2>1 DEF ShownInv
<1>10. SealedNowInv'
  <2>1. program.outcome # "not_jsonable" => Len(TailOf(program.outcome)) >= 5
    <3>1. program.outcome # "not_jsonable" => Len(TailOf(program.outcome)) \in {5, 7, 8}
      BY <1>2, Tails
    <3>2. \A n \in {5, 7, 8} : n >= 5
      OBVIOUS
    <3>3. QED
      BY <3>1, <3>2
  <2>2. program.outcome # "not_jsonable" => ~(Left' <= 1)
    <3>1. \A a, b \in Nat : b >= 5 => ~(a + b <= 1)
      OBVIOUS
    <3>2. QED
      BY <1>3, <1>4, <2>1, <3>1
  <2>3. QED
    BY <2>2 DEF SealedNowInv
<1>11. QED
  BY <1>7, <1>8, <1>9, <1>10 DEF DigestInv

LEMMA ReopenKeeps ==
  ASSUME DigestInv, IndInv', Reopen
  PROVE  DigestInv'
<1>1. IndInv /\ TypeOK' /\ ChildrenInv /\ ToldInv /\ SealedIdsInv /\ ReceiptsInv /\ DivergesExactlyIf
  BY DEF DigestInv, IndInv
<1>2. /\ Running /\ run \in RunStates /\ run.attempt \in 1 .. MaxAttempts
      /\ TailOf(run.program.outcome) = OkTail
      /\ Telling = run.attempt + 1
  BY <1>1, CleaningFields DEF Reopen
<1>3. /\ run' = [run EXCEPT !.todo = ToDo(run.program), !.attempt = @ + 1, !.sink = "trace",
                            !.trace = <<>>, !.first = TRUE, !.accessed = FALSE, !.deps = 0]
      /\ UNCHANGED <<receipts, exit, runs, sealed>>
  BY DEF Reopen
<1>4. /\ run'.todo = ToDo(run.program) /\ run'.program = run.program /\ run'.noTrace = run.noTrace
      /\ run'.trace = <<>> /\ run'.first = TRUE /\ run'.accessed = FALSE
      /\ run'.self = run.self /\ run'.prev = run.prev
      /\ run'.partial = run.partial /\ run'.attempt = run.attempt + 1
  BY <1>2, <1>3 DEF RunStates
<1>5. run.program \in Programs /\ run.program.outcome \in Outcomes
  BY <1>2, ProgramsAssumption DEF RunStates
<1>6. ToDo(run.program) # <<>> /\ Head(ToDo(run.program)) \notin {"truncate", "remove", "reopen"}
  BY <1>5, PlanBegins
<1>7. run' # NotRunning
  <2>1. run'.todo # NotRunning.todo
    BY <1>4, <1>6 DEF NotRunning
  <2>2. QED
    BY <2>1
<1>8. run' \in RunStates
  BY <1>1, <1>7 DEF TypeOK
<1>9. ~CleaningUp' /\ Telling' = Telling
  BY <1>2, <1>4, <1>6 DEF CleaningUp, Telling
<1>10. run.partial = Absent
  <2>1. run.program.outcome \notin Failing
    BY <1>2, <1>5, Tails DEF Failing
  <2>2. QED
    BY <1>1, <1>2, <2>1 DEF ToldInv
<1>11. ChildrenInv' /\ ToldInv'
  BY <1>1, <1>2, <1>3, <1>4, <1>9 DEF ChildrenInv, ToldInv
<1>12. SealedIdsInv' /\ ReceiptsInv' /\ DivergesExactlyIf'
  BY <1>1, <1>3 DEF SealedIdsInv, ReceiptsInv, DivergesExactlyIf
<1>13. QED
  BY <1>4, <1>8, <1>9, <1>10, <1>11, <1>12, BeginKeeps

LEMMA StartKeeps ==
  ASSUME DigestInv, IndInv', NEW program \in Programs, NEW noTrace \in BOOLEAN, Start(program, noTrace)
  PROVE  DigestInv'
<1>1. TypeOK /\ TypeOK' /\ SealedIdsInv /\ ReceiptsInv
  BY DEF DigestInv, IndInv
<1>2. /\ run' = Started(program, noTrace, dir = EmptyDir)
      /\ exit' = [code |-> "none"] /\ runs' = runs + 1
      /\ UNCHANGED <<receipts, sealed>>
  BY DEF Start
<1>3. /\ run'.todo = ToDo(run'.program) /\ run'.program = program /\ run'.noTrace = noTrace
      /\ run'.trace = <<>> /\ run'.first = TRUE /\ run'.accessed = FALSE
      /\ run'.self = Pending /\ run'.prev = Absent
      /\ run'.partial = Absent /\ run'.attempt = 1
  BY <1>2 DEF Started
<1>4. ToDo(program) # <<>> /\ Head(ToDo(program)) \notin {"truncate", "remove", "reopen"}
  BY PlanBegins
<1>5. run' # NotRunning
  <2>1. run'.todo # NotRunning.todo
    BY <1>3, <1>4 DEF NotRunning
  <2>2. QED
    BY <2>1
<1>6. run' \in RunStates
  BY <1>1, <1>5 DEF TypeOK
<1>7. ~CleaningUp' /\ Telling' = 1
  BY <1>3, <1>4 DEF CleaningUp, Telling
<1>8. runs \in Nat
  BY <1>1, MaxRunsAssumption DEF TypeOK
<1>9. ChildrenInv'
  BY <1>3 DEF ChildrenInv
<1>10. ToldInv'
  <2>1. runs' > 0 /\ 2 .. Telling' = {}
    BY <1>2, <1>7, <1>8
  <2>2. \A r : Told(program, noTrace, r, 1) = Pending
    BY DEF Told
  <2>3. QED
    BY <1>3, <1>7, <2>1, <2>2 DEF ToldInv
<1>11. SealedIdsInv'
  <2>1. 1 .. runs \subseteq 1 .. runs'
    BY <1>2, <1>8
  <2>2. QED
    BY <1>1, <1>2, <2>1 DEF SealedIdsInv
<1>12. ReceiptsInv' /\ DivergesExactlyIf'
  BY <1>1, <1>2 DEF ReceiptsInv, DivergesExactlyIf
<1>13. QED
  BY <1>3, <1>6, <1>7, <1>9, <1>10, <1>11, <1>12, BeginKeeps

LEMMA RejectTypesKeeps ==
  ASSUME DigestInv, IndInv', NEW program \in Programs, RejectTypes(program)
  PROVE  DigestInv'
<1>1. TypeOK /\ SealedIdsInv /\ ReceiptsInv
  BY DEF DigestInv, IndInv
<1>2. /\ run' = NotRunning /\ runs' = runs + 1 /\ exit'.code = "rejected"
      /\ UNCHANGED <<receipts, sealed>>
  BY DEF RejectTypes, Running, Ended
<1>3. SealedIdsInv'
  <2>1. 1 .. runs \subseteq 1 .. runs'
    BY <1>1, <1>2, MaxRunsAssumption DEF TypeOK
  <2>2. QED
    BY <1>1, <1>2, <2>1 DEF SealedIdsInv
<1>4. ReceiptsInv' /\ DivergesExactlyIf'
  BY <1>1, <1>2 DEF ReceiptsInv, DivergesExactlyIf
<1>5. QED
  BY <1>2, <1>3, <1>4, NothingTold

LEMMA StopKeeps ==
  ASSUME DigestInv, IndInv', run' = NotRunning, exit'.code \in {"failed", "killed"},
         UNCHANGED <<receipts, runs, sealed>>
  PROVE  DigestInv'
<1>1. SealedIdsInv' /\ ReceiptsInv' /\ DivergesExactlyIf'
  BY DEF DigestInv, SealedIdsInv, ReceiptsInv, DivergesExactlyIf
<1>2. QED
  BY <1>1, NothingTold

LEMMA InitDigest == Init => DigestInv
<1> SUFFICES ASSUME Init PROVE DigestInv
  OBVIOUS
<1>1. IndInv
  BY InitInd
<1>2. /\ run = NotRunning /\ receipts = {} /\ exit = [code |-> "none"] /\ sealed = {}
  BY DEF Init
<1>3. ~Running /\ ~Attempting
  BY <1>2 DEF Running, Attempting
<1>4. SealedIdsInv /\ ReceiptsInv /\ DivergesExactlyIf
  BY <1>2 DEF SealedIdsInv, ReceiptsInv, DivergesExactlyIf
<1>5. QED
  BY <1>1, <1>3, <1>4 DEF DigestInv, EvaluatedInv, AccessedInv, ShownInv, ChildrenInv, ToldInv,
       SealedNowInv

LEMMA NextDigest == DigestInv /\ [Next]_vars => DigestInv'
<1> SUFFICES ASSUME DigestInv, [Next]_vars PROVE DigestInv'
  OBVIOUS
<1>1. IndInv /\ IndInv'
  BY NextInd DEF DigestInv
<1>2. ASSUME NEW program \in Programs, NEW noTrace \in BOOLEAN, Start(program, noTrace)
      PROVE  DigestInv'
  BY <1>1, <1>2, StartKeeps
<1>3. ASSUME NEW program \in Programs, RejectTypes(program)
      PROVE  DigestInv'
  BY <1>1, <1>3, RejectTypesKeeps
<1>4. CASE Evaluate
  <2>1. PICK step \in Steps \ {"artifact"} :
          /\ Next1(step)
          /\ WriteEvents(EventsOf(step), step \in {"self", "emit_self"}, run.partial)
    BY <1>4 DEF Evaluate
  <2>2. step # "failure_event"
    BY DEF Steps
  <2>3. QED
    BY <1>1, <2>1, <2>2, EventsKeep
<1>5. CASE EvaluateArtifact
  <2>1. Attempting /\ CarriesOut("artifact") /\ UNCHANGED sealed
    BY <1>1, <1>5, ArtifactCarriesOut DEF IndInv
  <2>2. QED
    BY <1>1, <2>1, CarriedOutKeeps
<1>6. CASE WitnessFailure
  <2>1. /\ Next1("failure_event")
        /\ WriteEvents(EventsOf("failure_event"), "failure_event" \in {"self", "emit_self"}, run.trace)
    <3>1. ("failure_event" \in {"self", "emit_self"}) = FALSE
      OBVIOUS
    <3>2. QED
      BY <1>6, <3>1 DEF WitnessFailure
  <2>2. "failure_event" \in (Steps \ {"artifact"}) \union EventItems
    BY DEF EventItems
  <2>3. QED
    BY <1>1, <2>1, <2>2, EventsKeep
<1>7. CASE WriteEvent
  <2>1. PICK item \in {"graph_event", "error_event"} :
          Next1(item) /\ WriteEvents(EventsOf(item), FALSE, run.partial)
    BY <1>7 DEF WriteEvent
  <2>2. item \in EventItems /\ item # "failure_event" /\ (item \in {"self", "emit_self"}) = FALSE
    BY DEF EventItems
  <2>3. QED
    BY <1>1, <2>1, <2>2, EventsKeep
<1>8. CASE WriteFile
  BY <1>1, <1>8, WriteFileKeeps
<1>9. CASE WriteDigests
  BY <1>1, <1>9, WriteDigestsKeeps
<1>10. CASE Settle
  BY <1>1, <1>10, SettleKeeps
<1>11. CASE Truncate
  BY <1>1, <1>11, CleaningKeeps DEF Truncate
<1>12. CASE Remove
  BY <1>1, <1>12, CleaningKeeps DEF Remove
<1>13. CASE Reopen
  BY <1>1, <1>13, ReopenKeeps
<1>14. CASE ExitFailed
  <2>1. run' = NotRunning /\ exit'.code = "failed" /\ UNCHANGED <<receipts, runs, sealed>>
    BY <1>14 DEF ExitFailed, Fail, Ended
  <2>2. QED
    BY <1>1, <2>1, StopKeeps
<1>15. CASE Kill
  <2>1. run' = NotRunning /\ exit'.code = "killed" /\ UNCHANGED <<receipts, runs, sealed>>
    BY <1>15 DEF Kill, Ended
  <2>2. QED
    BY <1>1, <2>1, StopKeeps
<1>16. CASE UNCHANGED vars
  BY <1>1, <1>16 DEF vars, DigestInv, EvaluatedInv, AccessedInv, ShownInv, ChildrenInv, ToldInv,
       SealedNowInv, SealedIdsInv, ReceiptsInv, DivergesExactlyIf, Running, Attempting, CleaningUp,
       Telling, Left, Plan, Done, IsDone, Evaluated, Uuid
<1>17. QED
  BY <1>2, <1>3, <1>4, <1>5, <1>6, <1>7, <1>8, <1>9, <1>10, <1>11, <1>12, <1>13, <1>14, <1>15, <1>16
     DEF Next

-----------------------------------------------------------------------------
(* The theorem *)

\* The UUIDs of the children are in the digests of no other program.
LEMMA SameIds ==
  ASSUME NEW program, NEW noTrace, NEW self, NEW uuid1, NEW uuid2,
         ~Does(program, "spawn_ordered") \/ (noTrace /\ program.outcome \notin Failing)
  PROVE  IdOf(program, noTrace, self, uuid1) = IdOf(program, noTrace, self, uuid2)
<1>1. CASE ~Does(program, "spawn_ordered")
  <2>1. EvaluationOf(program, self, uuid1) = EvaluationOf(program, self, uuid2)
    BY <1>1 DEF EvaluationOf, Stamp
  <2>2. QED
    BY <2>1 DEF IdOf
<1>2. CASE noTrace /\ program.outcome \notin Failing
  <2>1. \A partial1, partial2 : LeafOf(program, self, partial1) = LeafOf(program, self, partial2)
    BY <1>2 DEF LeafOf
  <2> DEFINE end1 == EvaluationOf(program, self, uuid1)[Len(ToDo(program)) - 2]
             end2 == EvaluationOf(program, self, uuid2)[Len(ToDo(program)) - 2]
  <2>2. IdOf(program, noTrace, self, uuid1)
        = [trace |-> NoTrace, graph |-> [main |-> program.name],
           leaf |-> LeafOf(program, self, end1.partial), ok |-> program.outcome \notin Failing]
    BY <1>2 DEF IdOf
  <2>3. IdOf(program, noTrace, self, uuid2)
        = [trace |-> NoTrace, graph |-> [main |-> program.name],
           leaf |-> LeafOf(program, self, end2.partial), ok |-> program.outcome \notin Failing]
    BY <1>2 DEF IdOf
  <2> HIDE DEF end1, end2
  <2>4. LeafOf(program, self, end1.partial) = LeafOf(program, self, end2.partial)
    BY <2>1
  <2>5. QED
    BY <2>2, <2>3, <2>4
<1>3. QED
  BY <1>1, <1>2

LEMMA IdsSettle ==
  ASSUME DigestInv
  PROVE  DigestsSettle
<1>1. TypeOK /\ SealedInv /\ SealedIdsInv /\ ReceiptsInv /\ DivergesExactlyIf
  BY DEF DigestInv, IndInv
<1>2. RunIdsAreDeterministic
  <2>1. SUFFICES ASSUME NEW s \in sealed, NEW t \in sealed,
                        s.program = t.program, s.noTrace = t.noTrace, s.attempt = t.attempt,
                        ~Does(s.program, "spawn_ordered") \/ (s.noTrace /\ s.ok)
                 PROVE  s.id = t.id
    BY DEF RunIdsAreDeterministic
  <2> DEFINE program == s.program
             noTrace == s.noTrace
             n       == s.attempt
  <2>2. PICK r1 \in 1 .. runs : s.id = IdOf(program, noTrace, Told(program, noTrace, r1, n), <<r1, n>>)
    BY <1>1 DEF SealedIdsInv
  <2>3. PICK r2 \in 1 .. runs : t.id = IdOf(program, noTrace, Told(program, noTrace, r2, n), <<r2, n>>)
    BY <1>1, <2>1 DEF SealedIdsInv
  <2>4. s.ok => program.outcome \notin Failing
    BY <1>1 DEF SealedInv, SealOf
  <2>5. \A self, uuid1, uuid2 : IdOf(program, noTrace, self, uuid1) = IdOf(program, noTrace, self, uuid2)
    BY <2>1, <2>4, SameIds
  <2> HIDE DEF program, noTrace, n
  <2>6. Told(program, noTrace, r1, n) = Told(program, noTrace, r2, n)
    <3>1. IdOf(program, noTrace, Pending, <<r1, 1>>) = IdOf(program, noTrace, Pending, <<r2, 1>>)
      BY <2>5
    <3>2. \A self : IdOf(program, noTrace, self, <<r1, 2>>) = IdOf(program, noTrace, self, <<r2, 2>>)
      BY <2>5
    <3>3. QED
      BY <3>1, <3>2 DEF Told
  <2>7. QED
    BY <2>2, <2>3, <2>5, <2>6
<1>3. SelfDigestIsRunId
  <2>1. SUFFICES ASSUME NEW r \in receipts, DOMAIN r.output = {"self"}
                 PROVE  r.output.self = r.run_id
                          <=> \A s \in sealed : s.id = r.run_id => s.program.outcome # "self_in_thread"
    BY DEF SelfDigestIsRunId
  <2>2. r.run_id \in RunIds /\ r.run_id # Pending
    BY <1>1, MarkersAssumption DEF TypeOK
  <2>3. CASE r.output.self = r.run_id /\ r.run_id.leaf = [self |-> SelfMark]
    <3>1. ASSUME NEW s \in sealed, s.id = r.run_id, s.program.outcome = "self_in_thread"
          PROVE  FALSE
      <4>1. \E self, partial : s.id.leaf = LeafOf(s.program, self, partial)
        <5>1. PICK r1 \in 1 .. runs :
                s.id = IdOf(s.program, s.noTrace, Told(s.program, s.noTrace, r1, s.attempt),
                            <<r1, s.attempt>>)
          BY <1>1 DEF SealedIdsInv
        <5>2. QED
          BY <5>1 DEF IdOf
      <4>2. s.id.leaf = [self |-> Pending]
        BY <3>1, <4>1 DEF LeafOf, Failing
      <4>3. SelfMark = Pending
        <5>1. [self |-> Pending].self = Pending /\ [self |-> SelfMark].self = SelfMark
          OBVIOUS
        <5>2. QED
          BY <2>3, <3>1, <4>2, <5>1
      <4>4. QED
        BY <4>3, MarkersAssumption DEF Selfs, SecondSelfs, FirstSelfs
    <3>2. QED
      BY <2>3, <3>1
  <2>4. CASE /\ r.output.self = Pending
             /\ \E s \in sealed : s.id = r.run_id /\ s.program.outcome = "self_in_thread"
    BY <2>2, <2>4
  <2>5. QED
    BY <1>1, <2>1, <2>3, <2>4 DEF ReceiptsInv
<1>4. QED
  BY <1>1, <1>2, <1>3 DEF DigestsSettle

\* The RunID is the one that the program determines, it is the digest that the
\* program was told of itself, and exactly the programs without one diverge.
THEOREM FardRunDigestsSettle == Spec => []DigestsSettle
<1>1. DigestInv => DigestsSettle
  BY IdsSettle
<1>2. QED
  BY <1>1, InitDigest, NextDigest, PTL DEF Spec

-----------------------------------------------------------------------------
(* What fardverify accepts.  A trace that is refused for its lines, for an  *)
(* event or for a late import is refused whatever is written after that.    *)

EventsOK(trace) == \A i \in DOMAIN trace : trace[i] # NL => EventOK(trace[i])

\* What verify_trace_outdir requires of a trace, as far as it is written.
Fine(trace) ==
  /\ LinesOK(trace)
  /\ EventsOK(trace)
  /\ ResolvesFirst(trace)

Verifiable == {"import", "self", "emit", "emit_self", "artifact"}

\* Items that write no event, or artifacts only, or nothing but imports.
Silent    == {"self"} \union Files
Quiet     == Silent \union {"artifact"}
Resolving == Silent \union {"import", "import_pkg"}

\* All that is done is one of these items.
OnlyDone(items) == \A i \in 1 .. Done : Plan[i] \in items

\* The item can follow what is done, as far as the verifier is concerned.
Follows(item, before) ==
  item \in Steps =>
    /\ item \in Verifiable
    /\ item = "import" => before \subseteq {"import", "self"}
    /\ item = "artifact" => before \subseteq {"artifact", "self"}

InOrder == \A i \in 1 .. Done : Follows(Plan[i], {Plan[j] : j \in 1 .. i - 1})

Resolves(trace) == \A i \in DOMAIN trace : trace[i] # NL => trace[i].t = "module_resolve"

LineEnds(trace) == trace = <<>> \/ trace[Len(trace)] = NL

FineInv == Attempting =>
  /\ Fine(run.trace) <=> InOrder
  /\ Fine(run.trace) => (LineEnds(run.trace) <=> run.first)
  /\ run.first <=> OnlyDone(Quiet)
  /\ Resolves(run.trace) <=> OnlyDone(Resolving)

\* The events at the end of a trace, each written once.
LastInv == Attempting =>
  LET outcome == run.program.outcome
      graphs  == Positions(run.trace, "module_graph")
      errors  == Positions(run.trace, "error")
  IN /\ graphs = {} <=> (outcome = "not_jsonable" \/ Left > (IF outcome = "error" THEN 3 ELSE 2))
     /\ graphs # {} => \E i \in DOMAIN run.trace : graphs = {i}
     /\ outcome \notin Failing => errors = {}
     /\ outcome = "error" => errors = IF Left <= 2 THEN {Len(run.trace)} ELSE {}
     /\ outcome = "qmark" /\ Left <= 4 => errors # {}
     /\ outcome = "qmark" /\ Left <= 2 =>
          \E i \in errors, j \in DOMAIN run.trace : i < j /\ run.trace[j] # NL

\* The directory was empty when the run began, or is removed before a further attempt.
Emptied == run.fresh \/ run.attempt > 1 \/ Head(run.todo) = "reopen"

\* Files that a run in an empty directory does not write are not there.
FreshInv == Running /\ Emptied =>
  /\ run.program.outcome \in Failing => dir.result = Absent
  /\ run.program.outcome \notin Failing => dir.error = Absent
  /\ run.program.outcome = "not_jsonable" => dir.digests = Absent

VerifiesInv ==
  /\ FineInv
  /\ LastInv
  /\ FreshInv
  /\ VerifiesExactlyIf

-----------------------------------------------------------------------------
(* Traces that are put together *)

Alternates(b) == \A i \in 1 .. Len(b) - 1 : (b[i] = NL) # (b[i + 1] = NL)

Holds(b, e) == \E i \in DOMAIN b : b[i] = e

LEMMA JoinedSeqs ==
  ASSUME NEW S, NEW a \in Seq(S), NEW b \in Seq(S)
  PROVE  /\ Len(a) \in Nat /\ Len(b) \in Nat
         /\ DOMAIN a = 1 .. Len(a) /\ DOMAIN b = 1 .. Len(b)
         /\ a \o b \in Seq(S) /\ Len(a \o b) = Len(a) + Len(b)
         /\ DOMAIN (a \o b) = 1 .. Len(a) + Len(b)
         /\ \A i \in 1 .. Len(a) : (a \o b)[i] = a[i]
         /\ \A i \in 1 .. Len(b) : (a \o b)[Len(a) + i] = b[i]
         /\ \A i \in 1 .. Len(a) + Len(b) : i > Len(a) => i - Len(a) \in 1 .. Len(b)
                                                          /\ (a \o b)[i] = b[i - Len(a)]
<1> DEFINE c == a \o b
<1>1. /\ Len(a) \in Nat /\ Len(b) \in Nat
      /\ DOMAIN a = 1 .. Len(a) /\ DOMAIN b = 1 .. Len(b)
      /\ c \in Seq(S) /\ Len(c) = Len(a) + Len(b)
      /\ DOMAIN c = 1 .. Len(a) + Len(b)
      /\ \A i \in 1 .. Len(a) + Len(b) : c[i] = IF i <= Len(a) THEN a[i] ELSE b[i - Len(a)]
  BY ConcatProperties
<1> HIDE DEF c
<1>2. \A i \in 1 .. Len(a) : c[i] = a[i]
  BY <1>1
<1>3. ASSUME NEW i \in 1 .. Len(b)
      PROVE  c[Len(a) + i] = b[i]
  <2>1. Len(a) + i \in 1 .. Len(a) + Len(b) /\ ~(Len(a) + i <= Len(a)) /\ Len(a) + i - Len(a) = i
    BY <1>1
  <2>2. QED
    BY <1>1, <2>1
<1>4. ASSUME NEW i \in 1 .. Len(a) + Len(b), i > Len(a)
      PROVE  i - Len(a) \in 1 .. Len(b) /\ c[i] = b[i - Len(a)]
  BY <1>1, <1>4
<1>5. QED
  BY <1>1, <1>2, <1>3, <1>4 DEF c

LEMMA JoinedLines ==
  ASSUME NEW S, NEW a \in Seq(S), NEW b \in Seq(S), b # <<>>
  PROVE  /\ LinesOK(a \o b) <=> LinesOK(a) /\ Alternates(b) /\ (LineEnds(a) <=> b[1] # NL)
         /\ LineEnds(a \o b) <=> b[Len(b)] = NL
<1> DEFINE c == a \o b
           n == Len(a)
           m == Len(b)
<1>1. /\ n \in Nat /\ m \in Nat /\ Len(c) = n + m
      /\ DOMAIN a = 1 .. n /\ DOMAIN b = 1 .. m
      /\ \A i \in 1 .. n : c[i] = a[i]
      /\ \A i \in 1 .. m : c[n + i] = b[i]
      /\ \A i \in 1 .. n + m : i > n => i - n \in 1 .. m /\ c[i] = b[i - n]
  BY JoinedSeqs
<1>2. m > 0 /\ (a = <<>> <=> n = 0) /\ c # <<>>
  <2>1. m # 0
    BY <1>1
  <2>2. Len(c) # 0
    BY <1>1, <2>1
  <2>3. QED
    BY <1>1, <2>1, <2>2
<1> HIDE DEF c, n, m
<1>3. c[n + m] = b[m] /\ c[n + 1] = b[1]
  BY <1>1, <1>2
<1>4. LineEnds(c) <=> b[m] = NL
  BY <1>1, <1>2, <1>3 DEF LineEnds
<1>5. LineEnds(a) <=> n = 0 \/ a[n] = NL
  BY <1>2 DEF LineEnds, n
<1>6. ASSUME LinesOK(c)
      PROVE  LinesOK(a) /\ Alternates(b) /\ (LineEnds(a) <=> b[1] # NL)
  <2>1. c[1] # NL /\ \A i \in 1 .. n + m - 1 : (c[i] = NL) # (c[i + 1] = NL)
    BY <1>1, <1>2, <1>6 DEF LinesOK
  <2>2. LinesOK(a)
    <3>1. a # <<>> => a[1] # NL
      BY <1>1, <1>2, <2>1
    <3>2. ASSUME NEW i \in 1 .. n - 1
          PROVE  (a[i] = NL) # (a[i + 1] = NL)
      <4>1. i \in 1 .. n /\ i + 1 \in 1 .. n /\ i \in 1 .. n + m - 1
        BY <1>1, <1>2
      <4>2. QED
        BY <1>1, <2>1, <4>1
    <3>3. QED
      BY <3>1, <3>2 DEF LinesOK, n
  <2>3. Alternates(b)
    <3>1. ASSUME NEW i \in 1 .. m - 1
          PROVE  (b[i] = NL) # (b[i + 1] = NL)
      <4>1. i \in 1 .. m /\ i + 1 \in 1 .. m /\ n + i \in 1 .. n + m - 1 /\ (n + i) + 1 = n + (i + 1)
        BY <1>1, <1>2
      <4>2. c[n + i] = b[i] /\ c[n + (i + 1)] = b[i + 1]
        BY <1>1, <4>1
      <4>3. QED
        BY <2>1, <4>1, <4>2
    <3>2. QED
      BY <3>1 DEF Alternates, m
  <2>4. LineEnds(a) <=> b[1] # NL
    <3>1. CASE n = 0
      BY <1>3, <1>5, <2>1, <3>1, <1>1
    <3>2. CASE n # 0
      <4>1. n \in 1 .. n + m - 1 /\ n \in 1 .. n
        BY <1>1, <1>2, <3>2
      <4>2. (a[n] = NL) # (b[1] = NL)
        BY <1>1, <1>3, <2>1, <4>1
      <4>3. QED
        BY <1>5, <3>2, <4>2
    <3>3. QED
      BY <3>1, <3>2
  <2>5. QED
    BY <2>2, <2>3, <2>4
<1>7. ASSUME LinesOK(a), Alternates(b), LineEnds(a) <=> b[1] # NL
      PROVE  LinesOK(c)
  <2>1. c[1] # NL
    <3>1. CASE n = 0
      BY <1>1, <1>3, <1>5, <1>7, <3>1
    <3>2. CASE n # 0
      BY <1>1, <1>2, <1>7, <3>2 DEF LinesOK
    <3>3. QED
      BY <3>1, <3>2
  <2>2. ASSUME NEW i \in 1 .. n + m - 1
        PROVE  (c[i] = NL) # (c[i + 1] = NL)
    <3>1. CASE i < n
      <4>1. i \in 1 .. n /\ i + 1 \in 1 .. n /\ i \in 1 .. Len(a) - 1
        BY <1>1, <3>1 DEF n
      <4>2. (a[i] = NL) # (a[i + 1] = NL)
        BY <1>7, <4>1 DEF LinesOK
      <4>3. QED
        BY <1>1, <4>1, <4>2
    <3>2. CASE i = n
      <4>1. n # 0 /\ n \in 1 .. n /\ c[i + 1] = b[1]
        BY <1>1, <1>3, <3>2
      <4>2. c[i] = a[n]
        BY <1>1, <3>2, <4>1
      <4>3. QED
        BY <1>5, <1>7, <4>1, <4>2
    <3>3. CASE i > n
      <4>1. i - n \in 1 .. Len(b) - 1 /\ i - n \in 1 .. m /\ (i - n) + 1 \in 1 .. m
            /\ n + (i - n) = i /\ n + ((i - n) + 1) = i + 1
        BY <1>1, <3>3 DEF m
      <4>2. PICK k \in 1 .. Len(b) - 1 : k = i - n
        BY <4>1
      <4>3. (b[k] = NL) # (b[k + 1] = NL)
        BY <1>7 DEF Alternates
      <4>4. c[n + k] = b[k] /\ c[n + (k + 1)] = b[k + 1]
        BY <1>1, <4>1, <4>2
      <4>5. QED
        BY <4>1, <4>2, <4>3, <4>4
    <3>4. QED
      BY <1>1, <3>1, <3>2, <3>3
  <2>3. QED
    BY <1>1, <2>1, <2>2 DEF LinesOK
<1>8. QED
  BY <1>4, <1>6, <1>7 DEF c, m

LEMMA JoinedEvents ==
  ASSUME NEW S, NEW a \in Seq(S), NEW b \in Seq(S)
  PROVE  /\ EventsOK(a \o b) <=> EventsOK(a) /\ EventsOK(b)
         /\ Resolves(a \o b) <=> Resolves(a) /\ Resolves(b)
<1> DEFINE c == a \o b
<1>1. /\ \A i \in DOMAIN a : i \in DOMAIN c /\ c[i] = a[i]
      /\ \A i \in DOMAIN b : Len(a) + i \in DOMAIN c /\ c[Len(a) + i] = b[i]
      /\ \A i \in DOMAIN c : \/ i \in DOMAIN a /\ c[i] = a[i]
                             \/ \E k \in DOMAIN b : c[i] = b[k]
  <2>1. /\ Len(a) \in Nat /\ Len(b) \in Nat
        /\ DOMAIN a = 1 .. Len(a) /\ DOMAIN b = 1 .. Len(b) /\ DOMAIN c = 1 .. Len(a) + Len(b)
        /\ \A i \in 1 .. Len(a) : c[i] = a[i]
        /\ \A i \in 1 .. Len(b) : c[Len(a) + i] = b[i]
        /\ \A i \in 1 .. Len(a) + Len(b) : i > Len(a) => i - Len(a) \in 1 .. Len(b)
                                                         /\ c[i] = b[i - Len(a)]
    BY JoinedSeqs
  <2> HIDE DEF c
  <2>2. \A i \in 1 .. Len(a) + Len(b) : i > Len(a) \/ i \in 1 .. Len(a)
    BY <2>1
  <2>3. /\ \A i \in 1 .. Len(a) : i \in 1 .. Len(a) + Len(b)
        /\ \A i \in 1 .. Len(b) : Len(a) + i \in 1 .. Len(a) + Len(b)
    BY <2>1
  <2>4. QED
    BY <2>1, <2>2, <2>3
<1> HIDE DEF c
<1>2. EventsOK(c) <=> EventsOK(a) /\ EventsOK(b)
  BY <1>1 DEF EventsOK
<1>3. Resolves(c) <=> Resolves(a) /\ Resolves(b)
  BY <1>1 DEF Resolves
<1>4. QED
  BY <1>2, <1>3 DEF c

LEMMA JoinedAtEnd ==
  ASSUME NEW S, NEW a \in Seq(S), NEW b \in Seq(S), NEW tag,
         b # <<>>, Positions(b, tag) = {Len(b)}
  PROVE  /\ Positions(a \o b, tag) = Positions(a, tag) \union {Len(a \o b)}
         /\ Len(a \o b) \in DOMAIN (a \o b) /\ (a \o b)[Len(a \o b)] # NL
         /\ \A i \in DOMAIN a : i < Len(a \o b)
<1> DEFINE c == a \o b
<1>1. /\ Len(a) \in Nat /\ Len(b) \in Nat
      /\ DOMAIN a = 1 .. Len(a) /\ DOMAIN b = 1 .. Len(b) /\ DOMAIN c = 1 .. Len(a) + Len(b)
      /\ Len(c) = Len(a) + Len(b)
      /\ \A i \in 1 .. Len(a) : c[i] = a[i]
      /\ \A i \in 1 .. Len(b) : c[Len(a) + i] = b[i]
      /\ \A i \in 1 .. Len(a) + Len(b) : i > Len(a) => i - Len(a) \in 1 .. Len(b)
                                                       /\ c[i] = b[i - Len(a)]
  BY JoinedSeqs
<1> HIDE DEF c
<1>2. Len(b) \in DOMAIN b /\ b[Len(b)] # NL /\ b[Len(b)].t = tag
      /\ \A k \in DOMAIN b : b[k] # NL /\ b[k].t = tag => k = Len(b)
  BY DEF Positions
<1>3. Len(c) \in DOMAIN c /\ c[Len(c)] = b[Len(b)]
  BY <1>1, <1>2
<1>4. \A i \in DOMAIN a : i < Len(c) /\ i \in DOMAIN c /\ c[i] = a[i]
  BY <1>1, <1>2
<1>5. ASSUME NEW i \in Positions(c, tag), i \notin DOMAIN a
      PROVE  i = Len(c)
  <2>1. i \in 1 .. Len(a) + Len(b) /\ i > Len(a) /\ c[i] # NL /\ c[i].t = tag
    BY <1>1, <1>5 DEF Positions
  <2>2. PICK k \in 1 .. Len(b) : k = i - Len(a) /\ c[i] = b[k]
    BY <1>1, <2>1
  <2>3. k = Len(b)
    BY <1>1, <1>2, <2>1, <2>2
  <2>4. QED
    BY <1>1, <2>1, <2>2, <2>3
<1>6. \A i : i \in Positions(c, tag) <=> i \in Positions(a, tag) \union {Len(c)}
  BY <1>2, <1>3, <1>4, <1>5 DEF Positions
<1>7. QED
  BY <1>2, <1>3, <1>4, <1>6 DEF c

LEMMA JoinedResolves ==
  ASSUME NEW S, NEW a \in Seq(S), NEW b \in Seq(S)
  PROVE  /\ Lacks(b, "module_resolve") => (ResolvesFirst(a \o b) <=> ResolvesFirst(a))
         /\ Resolves(b) /\ (\E i \in DOMAIN b : b[i] # NL) =>
              (ResolvesFirst(a \o b) <=> Resolves(a))
<1> DEFINE c == a \o b
           n == Len(a)
           m == Len(b)
<1>1. /\ n \in Nat /\ m \in Nat
      /\ DOMAIN a = 1 .. n /\ DOMAIN b = 1 .. m /\ DOMAIN c = 1 .. n + m
      /\ \A i \in 1 .. n : c[i] = a[i]
      /\ \A i \in 1 .. m : c[n + i] = b[i]
      /\ \A i \in 1 .. n + m : i > n => i - n \in 1 .. m /\ c[i] = b[i - n]
  BY JoinedSeqs
<1> HIDE DEF c, n, m
<1>2. \A i \in 1 .. n : i \in 1 .. n + m
  BY <1>1
<1>3. ASSUME Lacks(b, "module_resolve"), ResolvesFirst(c)
      PROVE  ResolvesFirst(a)
  <2>1. SUFFICES ASSUME NEW i \in Positions(a, "module_resolve"), NEW j \in 1 .. i, a[j] # NL
                 PROVE  a[j].t = "module_resolve"
    BY DEF ResolvesFirst
  <2>2. i \in 1 .. n /\ j \in 1 .. n
    BY <1>1 DEF Positions
  <2>3. i \in Positions(c, "module_resolve")
    BY <1>1, <1>2, <2>2 DEF Positions
  <2>4. QED
    BY <1>1, <1>3, <2>1, <2>2, <2>3 DEF ResolvesFirst
<1>4. ASSUME Lacks(b, "module_resolve"), ResolvesFirst(a)
      PROVE  ResolvesFirst(c)
  <2>1. SUFFICES ASSUME NEW i \in Positions(c, "module_resolve"), NEW j \in 1 .. i, c[j] # NL
                 PROVE  c[j].t = "module_resolve"
    BY DEF ResolvesFirst
  <2>2. i \in 1 .. n + m /\ c[i] # NL /\ c[i].t = "module_resolve"
    BY <1>1 DEF Positions
  <2>3. i \in 1 .. n
    <3>1. SUFFICES ASSUME i > n
                   PROVE  FALSE
      BY <1>1, <2>2
    <3>2. i - n \in 1 .. m /\ c[i] = b[i - n]
      BY <1>1, <2>2, <3>1
    <3>3. QED
      BY <1>1, <1>4, <2>2, <3>2 DEF Lacks
  <2>4. j \in 1 .. n
    BY <1>1, <2>3
  <2>5. i \in Positions(a, "module_resolve")
    BY <1>1, <2>2, <2>3 DEF Positions
  <2>6. QED
    BY <1>1, <1>4, <2>1, <2>4, <2>5 DEF ResolvesFirst
<1>5. ASSUME Resolves(b), NEW k \in DOMAIN b, b[k] # NL, ResolvesFirst(c)
      PROVE  Resolves(a)
  <2>1. n + k \in 1 .. n + m /\ \A i \in 1 .. n : i \in 1 .. n + k
    BY <1>1
  <2>2. n + k \in Positions(c, "module_resolve")
    BY <1>1, <1>5, <2>1 DEF Positions, Resolves
  <2>3. QED
    BY <1>1, <1>5, <2>1, <2>2 DEF ResolvesFirst, Resolves
<1>6. ASSUME Resolves(b), Resolves(a)
      PROVE  ResolvesFirst(c)
  <2>1. Resolves(c)
    BY <1>6, JoinedEvents DEF c
  <2>2. \A i \in DOMAIN c : \A j \in 1 .. i : j \in DOMAIN c
    BY <1>1
  <2>3. QED
    BY <2>1, <2>2 DEF Resolves, ResolvesFirst, Positions
<1>7. QED
  BY <1>3, <1>4, <1>5, <1>6 DEF c

-----------------------------------------------------------------------------
(* What the verifier sees of one item *)

LEMMA LinesForm ==
  ASSUME NEW S, NL \notin S, NEW events \in Seq(S), events # <<>>, NEW first \in BOOLEAN,
         NEW lines, lines = Lines(first, events)
  PROVE  /\ lines # <<>> /\ Alternates(lines)
         /\ lines[1] # NL <=> first
         /\ lines[Len(lines)] = events[Len(events)] /\ lines[Len(lines)] # NL
         /\ Len(lines) = IF first THEN 2 * Len(events) - 1 ELSE 2 * Len(events)
<1>1. PICK n \in Nat : n = Len(events)
  OBVIOUS
<1>2. n > 0 /\ \A j \in 1 .. n : events[j] \in S /\ events[j] # NL
  BY <1>1
<1>3. lines \in Seq(S \union {NL})
  BY LinesAre
<1>4. Len(lines) \in Nat /\ DOMAIN lines = 1 .. Len(lines)
  BY <1>3
<1>5. CASE first
  <2>1. lines = [i \in 1 .. 2 * n - 1 |-> IF i % 2 = 1 THEN events[(i + 1) \div 2] ELSE NL]
    BY <1>1, <1>5 DEF Lines
  <2>2. DOMAIN lines = 1 .. 2 * n - 1
    BY <2>1
  <2>3. Len(lines) = 2 * n - 1
    BY <1>2, <1>4, <2>2
  <2>4. \A i \in 1 .. 2 * n - 1 : lines[i] = IF i % 2 = 1 THEN events[(i + 1) \div 2] ELSE NL
    BY <2>1
  <2>5. \A i \in 1 .. 2 * n - 1 : (i + 1) \div 2 \in 1 .. n
    BY <1>2
  <2>6. \A i \in 1 .. 2 * n - 1 : lines[i] = NL <=> i % 2 # 1
    BY <1>2, <2>4, <2>5
  <2>7. ASSUME NEW i \in 1 .. 2 * n - 1 - 1
        PROVE  (lines[i] = NL) # (lines[i + 1] = NL)
    <3>1. i \in 1 .. 2 * n - 1 /\ i + 1 \in 1 .. 2 * n - 1 /\ (i % 2 # 1 <=> (i + 1) % 2 = 1)
      BY <1>2
    <3>2. QED
      BY <2>6, <3>1
  <2>8. /\ 1 \in 1 .. 2 * n - 1 /\ 1 % 2 = 1
        /\ 2 * n - 1 \in 1 .. 2 * n - 1 /\ (2 * n - 1) % 2 = 1 /\ (2 * n - 1 + 1) \div 2 = n
        /\ n \in 1 .. n
    BY <1>2
  <2>9. lines[1] # NL /\ lines[2 * n - 1] = events[n] /\ events[n] # NL
    BY <1>2, <2>4, <2>6, <2>8
  <2>10. lines # <<>>
    BY <2>2, <2>8
  <2>11. QED
    BY <1>1, <1>5, <2>3, <2>7, <2>9, <2>10 DEF Alternates
<1>6. CASE ~first
  <2>1. lines = [i \in 1 .. 2 * n |-> IF i % 2 = 0 THEN events[i \div 2] ELSE NL]
    BY <1>1, <1>6 DEF Lines
  <2>2. DOMAIN lines = 1 .. 2 * n
    BY <2>1
  <2>3. Len(lines) = 2 * n
    <3>1. \A a \in Nat, b \in Nat \ {0} : 1 .. a = 1 .. b => a = b
      OBVIOUS
    <3>2. 2 * n \in Nat \ {0}
      BY <1>2
    <3>3. QED
      BY <1>4, <2>2, <3>1, <3>2
  <2>4. \A i \in 1 .. 2 * n : lines[i] = IF i % 2 = 0 THEN events[i \div 2] ELSE NL
    BY <2>1
  <2>5. \A i \in 1 .. 2 * n : i % 2 = 0 => i \div 2 \in 1 .. n
    BY <1>2
  <2>6. \A i \in 1 .. 2 * n : lines[i] = NL <=> i % 2 # 0
    BY <1>2, <2>4, <2>5
  <2>7. ASSUME NEW i \in 1 .. 2 * n - 1
        PROVE  (lines[i] = NL) # (lines[i + 1] = NL)
    <3>1. i \in 1 .. 2 * n /\ i + 1 \in 1 .. 2 * n /\ (i % 2 # 0 <=> (i + 1) % 2 = 0)
      BY <1>2
    <3>2. QED
      BY <2>6, <3>1
  <2>8. /\ 1 \in 1 .. 2 * n /\ 1 % 2 # 0
        /\ 2 * n \in 1 .. 2 * n /\ (2 * n) % 2 = 0 /\ (2 * n) \div 2 = n
        /\ n \in 1 .. n
    BY <1>2
  <2>9. lines[1] = NL /\ lines[2 * n] = events[n] /\ events[n] # NL
    BY <1>2, <2>4, <2>6, <2>8
  <2>10. lines # <<>>
    BY <2>2, <2>8
  <2>11. QED
    BY <1>1, <1>6, <2>3, <2>7, <2>9, <2>10 DEF Alternates
<1>7. QED
  BY <1>5, <1>6

\* Events that are formatted by hand, have another key, or resolve a package.
Refused ==
  {"import_pkg", "import_artifact", "emit_artifact", "spawn_ordered", "compact_while", "ffi"}

Imports == {"import", "import_pkg"}

LEMMA EventsVerify ==
  ASSUME NEW item \in (Steps \ {"artifact"}) \union EventItems, NEW self, NEW uuid,
         NEW events, events = EventsFor(item, self, uuid)
  PROVE  /\ events = <<>> <=> item = "self"
         /\ (\A i \in DOMAIN events : EventOK(events[i])) <=> item \notin Refused
         /\ item \in Imports => \A i \in DOMAIN events : events[i].t = "module_resolve"
         /\ item \notin Imports => \A i \in DOMAIN events : events[i].t # "module_resolve"
         /\ item # "graph_event" => \A i \in DOMAIN events : events[i].t # "module_graph"
         /\ item = "graph_event" => Len(events) = 1 /\ events[1].t = "module_graph"
         /\ item # "error_event" => \A i \in DOMAIN events : events[i].t # "error"
         /\ item = "error_event" => Len(events) = 1 /\ events[1].t = "error"
<1>1. ASSUME NEW e, NEW t \in Tags, e.t = t, events = <<e>>,
             t = "module_resolve" <=> item \in Imports,
             t = "module_graph" <=> item = "graph_event",
             t = "error" <=> item = "error_event",
             EventOK(e) <=> item \notin Refused, item # "self"
      PROVE  /\ events = <<>> <=> item = "self"
             /\ (\A i \in DOMAIN events : EventOK(events[i])) <=> item \notin Refused
             /\ item \in Imports => \A i \in DOMAIN events : events[i].t = "module_resolve"
             /\ item \notin Imports => \A i \in DOMAIN events : events[i].t # "module_resolve"
             /\ item # "graph_event" => \A i \in DOMAIN events : events[i].t # "module_graph"
             /\ item = "graph_event" => Len(events) = 1 /\ events[1].t = "module_graph"
             /\ item # "error_event" => \A i \in DOMAIN events : events[i].t # "error"
             /\ item = "error_event" => Len(events) = 1 /\ events[1].t = "error"
  <2>1. DOMAIN events = {1} /\ events[1] = e /\ Len(events) = 1 /\ events # <<>>
    BY <1>1
  <2>2. QED
    BY <1>1, <2>1
<1>2. ASSUME NEW e1, NEW e2, NEW e3, events = <<e1, e2, e3>>,
             \A e \in {e1, e2, e3} : e.t \notin {"module_resolve", "module_graph", "error"},
             ~EventOK(e3), item \in {"spawn_ordered", "compact_while"}
      PROVE  /\ events = <<>> <=> item = "self"
             /\ (\A i \in DOMAIN events : EventOK(events[i])) <=> item \notin Refused
             /\ item \in Imports => \A i \in DOMAIN events : events[i].t = "module_resolve"
             /\ item \notin Imports => \A i \in DOMAIN events : events[i].t # "module_resolve"
             /\ item # "graph_event" => \A i \in DOMAIN events : events[i].t # "module_graph"
             /\ item = "graph_event" => Len(events) = 1 /\ events[1].t = "module_graph"
             /\ item # "error_event" => \A i \in DOMAIN events : events[i].t # "error"
             /\ item = "error_event" => Len(events) = 1 /\ events[1].t = "error"
  <2>1. DOMAIN events = {1, 2, 3} /\ events[1] = e1 /\ events[2] = e2 /\ events[3] = e3 /\ events # <<>>
    BY <1>2
  <2>2. item \in Refused /\ item \notin Imports /\ item \notin {"self", "graph_event", "error_event"}
    BY <1>2 DEF Refused, Imports
  <2>3. QED
    BY <1>2, <2>1, <2>2
<1>3. \A t, keys, sorted : /\ Event(t, keys, sorted).t = t /\ Event(t, keys, sorted).keys = keys
                           /\ Event(t, keys, sorted).sorted = sorted
  BY DEF Event
<1>4. DOMAIN KeysAllowed = {"module_resolve", "module_graph", "artifact_in", "artifact_out", "error"}
  BY DEF KeysAllowed
<1>5. /\ KeysAllowed["module_resolve"] = {"cid", "kind", "name", "t"}
      /\ KeysAllowed["module_graph"] = {"cid", "t"}
      /\ KeysAllowed["artifact_in"] = {"cid", "name", "t"}
      /\ KeysAllowed["artifact_out"] = {"cid", "name", "t"}
      /\ KeysAllowed["error"] = {"code", "e", "message", "t"}
  BY DEF KeysAllowed
<1>6. CASE item = "import"
  <2> DEFINE e == Resolve("std")
  <2>1. events = <<e>>
    BY <1>6 DEF EventsFor
  <2>2. /\ e.t = "module_resolve" /\ e.keys = {"cid", "kind", "name", "t"} /\ e.sorted = TRUE
        /\ e.kind = "std"
    BY DEF Resolve
  <2> HIDE DEF e
  <2>3. EventOK(e)
    BY <1>4, <1>5, <2>2 DEF EventOK, Tags
  <2>4. QED
    BY <1>1, <1>6, <2>1, <2>2, <2>3 DEF Tags, Refused, Imports
<1>7. CASE item = "import_pkg"
  <2> DEFINE e == Resolve("pkg")
  <2>1. events = <<e>>
    BY <1>7 DEF EventsFor
  <2>2. e.t = "module_resolve" /\ e.kind = "pkg"
    BY DEF Resolve
  <2> HIDE DEF e
  <2>3. ~EventOK(e)
    BY <2>2 DEF EventOK
  <2>4. QED
    BY <1>1, <1>7, <2>1, <2>2, <2>3 DEF Tags, Refused, Imports
<1>8. CASE item = "emit"
  <2> DEFINE e == Event("emit", {"t", "v"}, TRUE)
  <2>1. events = <<e>>
    BY <1>8 DEF EventsFor
  <2>2. e.t = "emit" /\ e.sorted = TRUE
    BY <1>3
  <2> HIDE DEF e
  <2>3. EventOK(e)
    BY <1>4, <2>2 DEF EventOK, Tags
  <2>4. QED
    BY <1>1, <1>8, <2>1, <2>2, <2>3 DEF Tags, Refused, Imports
<1>9. CASE item = "emit_self"
  <2> DEFINE e == Emit(self)
  <2>1. events = <<e>>
    BY <1>9 DEF EventsFor
  <2>2. e.t = "emit" /\ e.sorted = TRUE
    BY DEF Emit
  <2> HIDE DEF e
  <2>3. EventOK(e)
    BY <1>4, <2>2 DEF EventOK, Tags
  <2>4. QED
    BY <1>1, <1>9, <2>1, <2>2, <2>3 DEF Tags, Refused, Imports
<1>10. CASE item = "import_artifact"
  <2> DEFINE e == Event("artifact_in", {"cid", "name", "path", "t"}, TRUE)
  <2>1. events = <<e>>
    BY <1>10 DEF EventsFor
  <2>2. e.t = "artifact_in" /\ e.keys = {"cid", "name", "path", "t"}
    BY <1>3
  <2> HIDE DEF e
  <2>3. ~EventOK(e)
    BY <1>4, <1>5, <2>2 DEF EventOK
  <2>4. QED
    BY <1>1, <1>10, <2>1, <2>2, <2>3 DEF Tags, Refused, Imports
<1>11. CASE item = "ffi"
  <2> DEFINE e == Event("ffi_oracle", {"boundary", "symbol", "t"}, FALSE)
  <2>1. events = <<e>>
    BY <1>11 DEF EventsFor
  <2>2. e.t = "ffi_oracle" /\ e.sorted = FALSE
    BY DEF Event
  <2> HIDE DEF e
  <2>3. ~EventOK(e)
    BY <2>2 DEF EventOK, CanonSkipped
  <2>4. QED
    BY <1>1, <1>11, <2>1, <2>2, <2>3 DEF Tags, Refused, Imports
<1>12. CASE item = "failure_event"
  <2> DEFINE e == Event("witnessed_failure", {"code", "partial_trace_digest", "t"}, TRUE)
  <2>1. events = <<e>>
    BY <1>12 DEF EventsFor
  <2>2. e.t = "witnessed_failure" /\ e.sorted = TRUE
    BY <1>3
  <2> HIDE DEF e
  <2>3. EventOK(e)
    BY <1>4, <2>2 DEF EventOK, Tags
  <2>4. QED
    BY <1>1, <1>12, <2>1, <2>2, <2>3 DEF Tags, Refused, Imports
<1>13. CASE item = "graph_event"
  <2> DEFINE e == Event("module_graph", {"cid", "t"}, TRUE)
  <2>1. events = <<e>>
    BY <1>13 DEF EventsFor
  <2>2. e.t = "module_graph" /\ e.keys = {"cid", "t"} /\ e.sorted = TRUE
    BY <1>3
  <2> HIDE DEF e
  <2>3. EventOK(e)
    BY <1>4, <1>5, <2>2 DEF EventOK, Tags
  <2>4. QED
    BY <1>1, <1>13, <2>1, <2>2, <2>3 DEF Tags, Refused, Imports
<1>14. CASE item = "error_event"
  <2> DEFINE e == Event("error", {"code", "message", "t"}, TRUE)
  <2>1. events = <<e>>
    BY <1>14 DEF EventsFor
  <2>2. e.t = "error" /\ e.keys = {"code", "message", "t"} /\ e.sorted = TRUE
    BY <1>3
  <2> HIDE DEF e
  <2>3. EventOK(e)
    BY <1>4, <1>5, <2>2 DEF EventOK, Tags
  <2>4. QED
    BY <1>1, <1>14, <2>1, <2>2, <2>3 DEF Tags, Refused, Imports
<1>15. CASE item = "self"
  <2>1. events = <<>> /\ DOMAIN events = {}
    BY <1>15 DEF EventsFor
  <2>2. QED
    BY <1>15, <2>1 DEF Refused
<1>16. CASE item = "spawn_ordered"
  <2> DEFINE e1 == Child("child_spawn", {"spawn_id", "t"}, uuid)
             e2 == Child("child_receipt", {"result_digest", "run_digest", "spawn_id", "t"}, uuid)
             e3 == Event("spawn_ordered_complete", {"count", "t"}, FALSE)
  <2>1. events = <<e1, e2, e3>>
    BY <1>16 DEF EventsFor
  <2>2. /\ e1.t = "child_spawn" /\ e2.t = "child_receipt"
        /\ e3.t = "spawn_ordered_complete" /\ e3.sorted = FALSE
    BY DEF Event, Child
  <2> HIDE DEF e1, e2, e3
  <2>3. ~EventOK(e3)
    BY <2>2 DEF EventOK, CanonSkipped
  <2>4. \A e \in {e1, e2, e3} : e.t \notin {"module_resolve", "module_graph", "error"}
    BY <2>2
  <2>5. QED
    BY <1>2, <1>16, <2>1, <2>3, <2>4
<1>17. CASE item = "compact_while"
  <2> DEFINE e1 == Event("while_start", {"t"}, TRUE)
             e2 == Event("while_step", {"h", "s", "t"}, FALSE)
             e3 == Event("while_end", {"chain_hex", "steps", "t"}, FALSE)
  <2>1. events = <<e1, e2, e3>>
    BY <1>17 DEF EventsFor
  <2>2. e1.t = "while_start" /\ e2.t = "while_step" /\ e3.t = "while_end" /\ e3.sorted = FALSE
    BY DEF Event
  <2> HIDE DEF e1, e2, e3
  <2>3. ~EventOK(e3)
    BY <2>2 DEF EventOK, CanonSkipped
  <2>4. \A e \in {e1, e2, e3} : e.t \notin {"module_resolve", "module_graph", "error"}
    BY <2>2
  <2>5. QED
    BY <1>2, <1>17, <2>1, <2>3, <2>4
<1>18. CASE item = "emit_artifact"
  <2> DEFINE e == Event("artifact_out", {"cid", "name", "parents", "t"}, TRUE)
  <2>1. events = <<e>>
    BY <1>18 DEF EventsFor
  <2>2. e.t = "artifact_out" /\ e.keys = {"cid", "name", "parents", "t"}
    BY <1>3
  <2> HIDE DEF e
  <2>3. ~EventOK(e)
    BY <1>4, <1>5, <2>2 DEF EventOK
  <2>4. QED
    BY <1>1, <1>18, <2>1, <2>2, <2>3 DEF Tags, Refused, Imports
<1>19. QED
  BY <1>6, <1>7, <1>8, <1>9, <1>10, <1>11, <1>12, <1>13, <1>14, <1>15, <1>16, <1>17, <1>18
     DEF Steps, EventItems

LEMMA OnlyEvent ==
  ASSUME NEW S, NL \notin S, NEW events \in Seq(S), Len(events) = 1, NEW first \in BOOLEAN,
         NEW tag, events[1].t = tag, NEW lines, lines = Lines(first, events)
  PROVE  Positions(lines, tag) = {Len(lines)}
<1>1. /\ lines # <<>> /\ (lines[1] # NL <=> first)
      /\ lines[Len(lines)] = events[1] /\ lines[Len(lines)] # NL
      /\ Len(lines) = IF first THEN 1 ELSE 2
  <2>1. events # <<>>
    OBVIOUS
  <2>2. /\ lines # <<>> /\ (lines[1] # NL <=> first)
        /\ lines[Len(lines)] = events[Len(events)] /\ lines[Len(lines)] # NL
        /\ Len(lines) = IF first THEN 2 * Len(events) - 1 ELSE 2 * Len(events)
    BY <2>1, LinesForm
  <2>3. QED
    BY <2>2
<1>2. DOMAIN lines = 1 .. Len(lines)
  BY LinesAre
<1>3. \A i \in DOMAIN lines : lines[i] # NL => i = Len(lines)
  BY <1>1, <1>2
<1>4. Len(lines) \in DOMAIN lines
  BY <1>1, <1>2
<1>5. \A i : i \in Positions(lines, tag) <=> i = Len(lines)
  BY <1>1, <1>3, <1>4 DEF Positions
<1>6. QED
  BY <1>5

LEMMA NextItems ==
  ASSUME TypeOK, Attempting, Head(run.todo) \notin {"settle", "fail"}
  PROVE  Head(run.todo) \in Steps \union EventItems \union Files
<1>1. run.todo \in Seq(Items) /\ run.todo # <<>>
  BY RunIsTyped DEF Attempting
<1>2. Head(run.todo) \in Items
  BY <1>1
<1>3. QED
  BY <1>2 DEF Items, Attempting, CleaningUp

LEMMA AddedVerifies ==
  ASSUME IndInv, Attempting, NEW item, CarriesOut(item)
  PROVE  /\ run'.first <=> run.first /\ item \in Quiet
         /\ \E added \in Traces(Selfs) :
              /\ run'.trace = run.trace \o added
              /\ item \in Silent => added = <<>>
              /\ item \notin Silent =>
                   added # <<>> /\ Alternates(added) /\ \E i \in DOMAIN added : added[i] # NL
              /\ item = "artifact" => added[1] # NL /\ added[Len(added)] = NL
              /\ item \notin Quiet => (added[1] # NL <=> run.first) /\ added[Len(added)] # NL
              /\ EventsOK(added) <=> item \notin Refused
              /\ item \in Imports => Resolves(added)
              /\ item \notin Imports => Lacks(added, "module_resolve")
              /\ item # "graph_event" => Lacks(added, "module_graph")
              /\ item = "graph_event" => Positions(added, "module_graph") = {Len(added)}
              /\ item # "error_event" => Lacks(added, "error")
              /\ item = "error_event" => Positions(added, "error") = {Len(added)}
<1>1. /\ TypeOK /\ Running
      /\ run.trace \in Traces(Selfs) /\ run.first \in BOOLEAN /\ run.self \in Selfs
  BY RunIsTyped DEF IndInv, Attempting
<1>2. /\ run'.trace = After(Evaluated, item, run.self, Uuid).trace
      /\ run'.first = After(Evaluated, item, run.self, Uuid).first
  <2>1. Evaluated'.trace = run'.trace /\ Evaluated'.first = run'.first
    BY DEF Evaluated
  <2>2. QED
    BY <2>1 DEF CarriesOut
<1>3. NL \notin Events(Selfs)
  BY MarkersAssumption
<1>4. CASE item = "artifact"
  <2> DEFINE added == <<ArtifactDep, NL>>
  <2>1. run'.trace = run.trace \o added /\ run'.first = run.first
    BY <1>2, <1>4 DEF After, Evaluated
  <2>2. ArtifactDep \in Events(Selfs)
    BY DEF ArtifactDep, Event, Events, Keys, Written, Tags
  <2>3. ArtifactDep.t = "artifact_dep" /\ ArtifactDep.sorted = TRUE /\ ArtifactDep # NL
    BY <1>3, <2>2 DEF ArtifactDep, Event
  <2>4. EventOK(ArtifactDep)
    BY <2>3 DEF EventOK, Tags, KeysAllowed
  <2>5. /\ added \in Traces(Selfs) /\ added # <<>>
        /\ Len(added) = 2 /\ DOMAIN added = {1, 2} /\ added[1] = ArtifactDep /\ added[2] = NL
    BY <2>2 DEF Traces
  <2> HIDE DEF added
  <2>6. EventsOK(added) /\ \A tag : tag # "artifact_dep" => Lacks(added, tag)
    BY <2>3, <2>4, <2>5 DEF EventsOK, Lacks
  <2>7. Alternates(added)
    <3>1. \A i \in 1 .. Len(added) - 1 : i = 1
      BY <2>5
    <3>2. QED
      BY <2>3, <2>5, <3>1 DEF Alternates
  <2>8. item \in Quiet /\ item \notin Silent \union Refused \union Imports
    BY <1>4 DEF Quiet, Silent, Files, Refused, Imports
  <2>9. \E i \in DOMAIN added : added[i] # NL
    BY <2>3, <2>5
  <2>10. item # "graph_event" /\ item # "error_event"
    BY <1>4
  <2>11. Lacks(added, "module_resolve") /\ Lacks(added, "module_graph") /\ Lacks(added, "error")
    BY <2>6
  <2>12. added[1] # NL /\ added[Len(added)] = NL
    BY <2>3, <2>5
  <2>13. QED
    BY <1>4, <2>1, <2>5, <2>6, <2>7, <2>8, <2>9, <2>10, <2>11, <2>12
<1>5. CASE item # "artifact" /\ item \in Steps \union EventItems
  <2> DEFINE events == EventsFor(item, run.self, Uuid)
             added  == Lines(run.first, events)
  <2>1. run'.trace = run.trace \o added /\ run'.first = (run.first /\ events = <<>>)
    BY <1>2, <1>5 DEF After, Evaluated
  <2>2. item \in (Steps \ {"artifact"}) \union EventItems
    BY <1>5
  <2>3. events \in Seq(Events(Selfs))
    BY <1>1, <2>2, EventsAre DEF EventsOf
  <2>4. /\ events = <<>> <=> item = "self"
        /\ (\A i \in DOMAIN events : EventOK(events[i])) <=> item \notin Refused
        /\ item \in Imports => \A i \in DOMAIN events : events[i].t = "module_resolve"
        /\ item \notin Imports => \A i \in DOMAIN events : events[i].t # "module_resolve"
        /\ item # "graph_event" => \A i \in DOMAIN events : events[i].t # "module_graph"
        /\ item = "graph_event" => Len(events) = 1 /\ events[1].t = "module_graph"
        /\ item # "error_event" => \A i \in DOMAIN events : events[i].t # "error"
        /\ item = "error_event" => Len(events) = 1 /\ events[1].t = "error"
    BY <2>2, EventsVerify
  <2>5. item \in Silent <=> item = "self"
    BY <2>2 DEF Silent, Files, Steps, EventItems
  <2>6. item \in Quiet <=> item = "self"
    BY <1>5, <2>5 DEF Quiet
  <2> HIDE DEF events
  <2>7. /\ added \in Seq(Events(Selfs) \union {NL})
        /\ \A i \in DOMAIN added : \/ added[i] = NL
                                   \/ \E j \in DOMAIN events : added[i] = events[j]
    BY <1>1, <2>3, LinesAre
  <2>8. \A j \in DOMAIN events : \E i \in DOMAIN added : added[i] = events[j]
    BY <1>1, <2>3, LinesShow
  <2>9. \A j \in DOMAIN events : events[j] # NL
    BY <1>3, <2>3
  <2>10. events # <<>> =>
           /\ added # <<>> /\ Alternates(added)
           /\ added[1] # NL <=> run.first
           /\ added[Len(added)] # NL
    BY <1>1, <1>3, <2>3, LinesForm
  <2>11. events = <<>> => added = <<>>
    <3>1. ASSUME events = <<>>
          PROVE  added = <<>>
      <4>1. Len(events) = 0 /\ 1 .. 2 * 0 - 1 = {} /\ 1 .. 2 * 0 = {}
        BY <3>1
      <4>2. DOMAIN added = {}
        BY <4>1 DEF Lines
      <4>3. QED
        BY <2>7, <4>2
    <3>2. QED
      BY <3>1
  <2>12. /\ item = "graph_event" => Positions(added, "module_graph") = {Len(added)}
         /\ item = "error_event" => Positions(added, "error") = {Len(added)}
    BY <1>1, <1>3, <2>3, <2>4, OnlyEvent
  <2> HIDE DEF added
  <2>13. added \in Traces(Selfs)
    BY <2>7 DEF Traces
  <2>14. EventsOK(added) <=> item \notin Refused
    BY <2>4, <2>7, <2>8, <2>9 DEF EventsOK
  <2>15. /\ item \in Imports => Resolves(added)
         /\ item \notin Imports => Lacks(added, "module_resolve")
         /\ item # "graph_event" => Lacks(added, "module_graph")
         /\ item # "error_event" => Lacks(added, "error")
    BY <2>4, <2>7 DEF Resolves, Lacks
  <2>16. item \notin Silent => \E i \in DOMAIN added : added[i] # NL
    <3>1. ASSUME item \notin Silent
          PROVE  \E i \in DOMAIN added : added[i] # NL
      <4>1. 1 \in DOMAIN events
        BY <2>3, <2>4, <2>5, <3>1
      <4>2. QED
        BY <2>8, <2>9, <4>1
    <3>2. QED
      BY <3>1
  <2>17. run'.first <=> run.first /\ item \in Quiet
    BY <2>1, <2>4, <2>6
  <2>18. QED
    BY <1>5, <2>1, <2>4, <2>5, <2>6, <2>10, <2>11, <2>12, <2>13, <2>14, <2>15, <2>16, <2>17
<1>6. CASE item \in Files
  <2>1. item \notin Steps \union EventItems \union Refused \union Imports /\ item # "artifact"
    BY <1>6 DEF Files, Steps, EventItems, Refused, Imports
  <2>2. run'.trace = run.trace /\ run'.first = run.first
    BY <1>2, <2>1 DEF After, Evaluated
  <2>3. run.trace = run.trace \o <<>>
    <3>1. run.trace \in Seq(Events(Selfs) \union {NL})
      BY <1>1 DEF Traces
    <3>2. QED
      BY <3>1
  <2>4. /\ <<>> \in Traces(Selfs) /\ EventsOK(<<>>) /\ \A tag : Lacks(<<>>, tag)
    BY DEF Traces, EventsOK, Lacks
  <2>5. item \in Silent /\ item \in Quiet
    BY <1>6 DEF Quiet, Silent
  <2>6. QED
    BY <1>1, <2>1, <2>2, <2>3, <2>4, <2>5 DEF EventItems
<1>7. item \in Steps \union EventItems \union Files
  BY <1>1, NextItems DEF CarriesOut
<1>8. QED
  BY <1>4, <1>5, <1>6, <1>7

LEMMA StepsFirst ==
  ASSUME TypeOK, PlanInv, Attempting
  PROVE  /\ Len(run.program.steps) \in Nat /\ DOMAIN run.program.steps = 1 .. Len(run.program.steps)
         /\ Len(Plan) = Len(run.program.steps) + Len(TailOf(run.program.outcome))
         /\ Len(TailOf(run.program.outcome)) \in Nat
         /\ \A i \in 1 .. Len(run.program.steps) : Plan[i] = run.program.steps[i] /\ Plan[i] \in Steps
         /\ \A i \in 1 .. Len(Plan) : i > Len(run.program.steps) => Plan[i] \notin Steps
<1> DEFINE steps == run.program.steps
           tail  == TailOf(run.program.outcome)
<1>1. run.program.outcome \in Outcomes /\ steps \in Seq(Steps)
  BY RunIsTyped DEF Attempting
<1>2. tail \in Seq(Items) /\ \A i \in DOMAIN tail : tail[i] \notin Steps
  <2>1. OkTail \in Seq(Items) /\ \A i \in DOMAIN OkTail : OkTail[i] \notin Steps
    BY DEF OkTail, Items, Files, EventItems, Steps
  <2>2. ErrorTail \in Seq(Items) /\ \A i \in DOMAIN ErrorTail : ErrorTail[i] \notin Steps
    BY DEF ErrorTail, Items, Files, EventItems, Steps
  <2>3. QmarkTail \in Seq(Items) /\ \A i \in DOMAIN QmarkTail : QmarkTail[i] \notin Steps
    BY DEF QmarkTail, Items, Files, EventItems, Steps
  <2>4. <<"fail">> \in Seq(Items) /\ \A i \in DOMAIN <<"fail">> : <<"fail">>[i] \notin Steps
    BY DEF Items, Steps
  <2>5. QED
    BY <1>1, <2>1, <2>2, <2>3, <2>4 DEF TailOf, Outcomes
<1>3. Plan = steps \o tail
  BY DEF Plan, ToDo
<1> HIDE DEF steps, tail
<1>4. /\ Len(steps) \in Nat /\ DOMAIN steps = 1 .. Len(steps)
      /\ Len(tail) \in Nat /\ DOMAIN tail = 1 .. Len(tail)
      /\ Len(Plan) = Len(steps) + Len(tail)
      /\ \A i \in 1 .. Len(steps) + Len(tail) :
           Plan[i] = IF i <= Len(steps) THEN steps[i] ELSE tail[i - Len(steps)]
      /\ \A i \in 1 .. Len(steps) : steps[i] \in Steps
  BY <1>1, <1>2, <1>3
<1>5. ASSUME NEW i \in 1 .. Len(Plan), i > Len(steps)
      PROVE  Plan[i] \notin Steps
  <2>1. i - Len(steps) \in 1 .. Len(tail) /\ ~(i <= Len(steps))
    BY <1>4, <1>5
  <2>2. QED
    BY <1>2, <1>4, <2>1
<1>6. ASSUME NEW i \in 1 .. Len(steps)
      PROVE  Plan[i] = steps[i] /\ Plan[i] \in Steps
  BY <1>4
<1>7. QED
  BY <1>4, <1>5, <1>6 DEF steps, tail

LEMMA OneMoreFollows ==
  ASSUME IndInv, Attempting, NEW item, CarriesOut(item)
  PROVE  /\ \A items : OnlyDone(items)' <=> OnlyDone(items) /\ item \in items
         /\ InOrder' <=> InOrder /\ Follows(item, {Plan[j] : j \in 1 .. Done})
         /\ item \in Steps => OnlyDone(Steps)
<1>1. TypeOK /\ PlanInv
  BY DEF IndInv
<1>2. Plan' = Plan /\ Done' = Done + 1
  BY OneMoreDone
<1>3. /\ Len(Plan) \in Nat /\ Done \in Nat /\ Done < Len(Plan) /\ Left = Len(Plan) - Done
      /\ Plan[Done + 1] = item
  BY <1>1, PlanPlace DEF CarriesOut
<1>4. \A i : i \in 1 .. Done + 1 <=> i \in 1 .. Done \/ i = Done + 1
  BY <1>3
<1>5. ASSUME NEW items
      PROVE  OnlyDone(items)' <=> OnlyDone(items) /\ item \in items
  <2>1. OnlyDone(items)' <=> \A i \in 1 .. Done + 1 : Plan[i] \in items
    BY <1>2 DEF OnlyDone
  <2>2. QED
    BY <1>3, <1>4, <2>1 DEF OnlyDone
<1>6. InOrder' <=> InOrder /\ Follows(item, {Plan[j] : j \in 1 .. Done})
  <2>1. InOrder' <=> \A i \in 1 .. Done + 1 : Follows(Plan[i], {Plan[j] : j \in 1 .. i - 1})
    BY <1>2 DEF InOrder, Follows
  <2>2. (Done + 1) - 1 = Done
    BY <1>3
  <2>3. QED
    BY <1>3, <1>4, <2>1, <2>2 DEF InOrder
<1>7. item \in Steps => OnlyDone(Steps)
  <2>1. SUFFICES ASSUME item \in Steps, NEW i \in 1 .. Done
                 PROVE  Plan[i] \in Steps
    BY DEF OnlyDone
  <2>2. Left > Len(TailOf(run.program.outcome))
    <3>1. Head(run.todo) \in Steps => Left > Len(TailOf(run.program.outcome))
      BY <1>1, Places
    <3>2. QED
      BY <2>1, <3>1 DEF CarriesOut
  <2>3. /\ Len(run.program.steps) \in Nat /\ Len(TailOf(run.program.outcome)) \in Nat
        /\ Len(Plan) = Len(run.program.steps) + Len(TailOf(run.program.outcome))
        /\ \A k \in 1 .. Len(run.program.steps) : Plan[k] \in Steps
    BY <1>1, StepsFirst
  <2>4. i \in 1 .. Len(run.program.steps)
    <3>1. Len(Plan) - Done > Len(TailOf(run.program.outcome))
      BY <1>3, <2>2
    <3>2. PICK d \in Nat, p \in Nat, s \in Nat, n \in Nat :
            /\ d = Done /\ p = Len(Plan)
            /\ s = Len(run.program.steps) /\ n = Len(TailOf(run.program.outcome))
      BY <1>3, <2>3
    <3>3. p = s + n /\ p - d > n /\ i \in 1 .. d
      BY <2>1, <2>3, <3>1, <3>2
    <3>4. i \in 1 .. s
      BY <3>3
    <3>5. QED
      BY <3>2, <3>4
  <2>5. QED
    BY <2>3, <2>4
<1>8. QED
  BY <1>5, <1>6, <1>7

LEMMA FineStep ==
  ASSUME IndInv, FineInv, Attempting, NEW item, CarriesOut(item)
  PROVE  FineInv'
<1> DEFINE t == run.trace
           before == {Plan[j] : j \in 1 .. Done}
<1>1. TypeOK /\ Running /\ t \in Traces(Selfs) /\ run.first \in BOOLEAN
  BY RunIsTyped DEF IndInv, Attempting
<1>2. /\ Fine(t) <=> InOrder
      /\ Fine(t) => (LineEnds(t) <=> run.first)
      /\ run.first <=> OnlyDone(Quiet)
      /\ Resolves(t) <=> OnlyDone(Resolving)
  BY DEF FineInv
<1>3. /\ \A items : OnlyDone(items)' <=> OnlyDone(items) /\ item \in items
      /\ InOrder' <=> InOrder /\ Follows(item, before)
      /\ item \in Steps => OnlyDone(Steps)
  BY OneMoreFollows
<1>4. item \in Steps \union EventItems \union Files
  BY <1>1, NextItems DEF CarriesOut
<1>5. /\ run'.first <=> run.first /\ item \in Quiet
      /\ \E added \in Traces(Selfs) :
           /\ run'.trace = t \o added
           /\ item \in Silent => added = <<>>
           /\ item \notin Silent =>
                added # <<>> /\ Alternates(added) /\ \E i \in DOMAIN added : added[i] # NL
           /\ item = "artifact" => added[1] # NL /\ added[Len(added)] = NL
           /\ item \notin Quiet => (added[1] # NL <=> run.first) /\ added[Len(added)] # NL
           /\ EventsOK(added) <=> item \notin Refused
           /\ item \in Imports => Resolves(added)
           /\ item \notin Imports => Lacks(added, "module_resolve")
  BY AddedVerifies
<1>6. PICK added \in Traces(Selfs) :
        /\ run'.trace = t \o added
        /\ item \in Silent => added = <<>>
        /\ item \notin Silent =>
             added # <<>> /\ Alternates(added) /\ \E i \in DOMAIN added : added[i] # NL
        /\ item = "artifact" => added[1] # NL /\ added[Len(added)] = NL
        /\ item \notin Quiet => (added[1] # NL <=> run.first) /\ added[Len(added)] # NL
        /\ EventsOK(added) <=> item \notin Refused
        /\ item \in Imports => Resolves(added)
        /\ item \notin Imports => Lacks(added, "module_resolve")
  BY <1>5
<1>7. t \in Seq(Events(Selfs) \union {NL}) /\ added \in Seq(Events(Selfs) \union {NL})
  BY <1>1 DEF Traces
<1> DEFINE c == t \o added
<1>8. /\ Fine(run.trace)' <=> Fine(c)
      /\ LineEnds(run.trace)' <=> LineEnds(c)
      /\ Resolves(run.trace)' <=> Resolves(c)
  BY <1>6 DEF Fine, LinesOK, EventsOK, ResolvesFirst, Positions, LineEnds, Resolves
<1>9. SUFFICES /\ Fine(c) <=> InOrder /\ Follows(item, before)
               /\ Fine(c) => (LineEnds(c) <=> run.first /\ item \in Quiet)
               /\ Resolves(c) <=> Resolves(t) /\ item \in Resolving
  BY <1>2, <1>3, <1>5, <1>8 DEF FineInv
<1>10. CASE item \in Silent
  <2>1. c = t
    BY <1>6, <1>7, <1>10
  <2>2. item \in Quiet /\ item \in Resolving
    BY <1>10 DEF Quiet, Resolving
  <2>3. Follows(item, before)
    BY <1>10 DEF Follows, Silent, Files, Steps, Verifiable
  <2> HIDE DEF c, t, before
  <2>4. QED
    BY <1>2, <2>1, <2>2, <2>3
<1>11. CASE item \notin Silent
  <2>1. /\ LinesOK(c) <=> LinesOK(t) /\ (LineEnds(t) <=> added[1] # NL)
        /\ LineEnds(c) <=> added[Len(added)] = NL
    BY <1>6, <1>7, <1>11, JoinedLines
  <2>2. /\ EventsOK(c) <=> EventsOK(t) /\ item \notin Refused
        /\ Resolves(c) <=> Resolves(t) /\ Resolves(added)
    BY <1>6, <1>7, JoinedEvents
  <2>3. /\ item \notin Imports => (ResolvesFirst(c) <=> ResolvesFirst(t))
        /\ item \in Imports => (ResolvesFirst(c) <=> Resolves(t))
    BY <1>6, <1>7, <1>11, JoinedResolves
  <2>4. Resolves(added) <=> item \in Imports
    BY <1>6, <1>11 DEF Resolves, Lacks
  <2>5. item \in Resolving <=> item \in Imports
    BY <1>11 DEF Resolving, Imports
  <2>6. Resolves(t) => ResolvesFirst(t)
    <3>1. DOMAIN t = 1 .. Len(t) /\ Len(t) \in Nat
      BY <1>7
    <3> HIDE DEF t
    <3>2. \A i \in DOMAIN t : \A j \in 1 .. i : j \in DOMAIN t
      BY <3>1
    <3>3. QED
      BY <3>2 DEF Resolves, ResolvesFirst, Positions
  <2>7. item = "artifact" \/ item \notin Quiet
    BY <1>11 DEF Quiet
  <2>8. OnlyDone(Quiet) /\ item \in Steps <=> before \subseteq {"artifact", "self"} /\ item \in Steps
    <3>1. ASSUME item \in Steps
          PROVE  OnlyDone(Quiet) <=> before \subseteq {"artifact", "self"}
      <4>1. \A i \in 1 .. Done : Plan[i] \in Steps
        BY <1>3, <3>1 DEF OnlyDone
      <4>2. \A x \in Steps : x \in Quiet <=> x \in {"artifact", "self"}
        BY DEF Steps, Quiet, Silent, Files
      <4>3. QED
        BY <4>1, <4>2 DEF OnlyDone
    <3>2. QED
      BY <3>1
  <2>9. ASSUME item \in Steps, InOrder
        PROVE  OnlyDone(Resolving) <=> before \subseteq {"import", "self"}
    <3>1. \A i \in 1 .. Done : Plan[i] \in Steps
      BY <1>3, <2>9 DEF OnlyDone
    <3>2. \A i \in 1 .. Done : Plan[i] \in Verifiable
      BY <2>9, <3>1 DEF InOrder, Follows
    <3>3. \A x \in Steps : x \in Verifiable => (x \in Resolving <=> x \in {"import", "self"})
      BY DEF Steps, Resolving, Silent, Files, Verifiable
    <3>4. QED
      BY <3>1, <3>2, <3>3 DEF OnlyDone
  <2> HIDE DEF c, t, before
  <2>10. CASE item = "artifact"
    <3>1. item \in Steps /\ item \notin Refused /\ item \notin Imports /\ item \in Verifiable
          /\ item # "import" /\ item \in Quiet
      BY <2>10 DEF Steps, Refused, Imports, Verifiable, Quiet
    <3>2. Follows(item, before) <=> OnlyDone(Quiet)
      BY <2>8, <2>10, <3>1 DEF Follows
    <3>3. Fine(c) <=> Fine(t) /\ LineEnds(t)
      BY <1>6, <2>1, <2>2, <2>3, <2>10, <3>1 DEF Fine
    <3>4. QED
      BY <1>2, <1>6, <2>1, <2>2, <2>4, <2>5, <2>10, <3>1, <3>2, <3>3
  <2>11. CASE item = "import"
    <3>1. item \in Steps /\ item \notin Refused /\ item \in Imports /\ item \in Verifiable
          /\ item # "artifact" /\ item \notin Quiet
      BY <2>11 DEF Steps, Refused, Imports, Verifiable, Quiet, Silent, Files
    <3>2. InOrder => (Follows(item, before) <=> OnlyDone(Resolving))
      BY <2>9, <2>11, <3>1 DEF Follows
    <3>3. Fine(c) <=> Fine(t) /\ (LineEnds(t) <=> run.first) /\ Resolves(t)
      BY <1>6, <2>1, <2>2, <2>3, <2>6, <3>1 DEF Fine
    <3>4. QED
      BY <1>2, <1>6, <2>1, <2>2, <2>4, <2>5, <3>1, <3>2, <3>3
  <2>12. CASE item \in Refused
    <3>1. item \in Steps /\ item \notin Verifiable
      BY <2>12 DEF Refused, Steps, Verifiable
    <3>2. ~Follows(item, before)
      BY <3>1 DEF Follows
    <3>3. ~Fine(c)
      BY <2>2, <2>12 DEF Fine
    <3>4. QED
      BY <2>2, <2>4, <2>5, <3>2, <3>3
  <2>13. CASE item \notin Refused \union {"artifact", "import"}
    <3>1. item \in EventItems \union {"emit", "emit_self"}
      BY <1>4, <1>11, <2>13 DEF Silent, Steps, Refused
    <3>2. item \notin Imports /\ item \notin Quiet
      BY <3>1 DEF Imports, Quiet, Silent, Files, EventItems
    <3>3. Follows(item, before)
      BY <3>1 DEF Follows, EventItems, Steps, Verifiable
    <3>4. Fine(c) <=> Fine(t) /\ (LineEnds(t) <=> run.first)
      BY <1>6, <2>1, <2>2, <2>3, <2>13, <3>2 DEF Fine
    <3>5. QED
      BY <1>2, <1>6, <2>1, <2>2, <2>4, <2>5, <3>2, <3>3, <3>4
  <2>14. QED
    BY <2>10, <2>11, <2>12, <2>13
<1>12. QED
  BY <1>10, <1>11

-----------------------------------------------------------------------------
(* The events that end a trace *)

\* Where the module graph and the error are written.
LEMMA EventsDue ==
  ASSUME TypeOK, PlanInv, Attempting,
         NEW outcome, outcome = run.program.outcome, NEW item, item = Head(run.todo)
  PROVE  /\ item = "graph_event" <=>
              outcome # "not_jsonable" /\ Left = IF outcome = "error" THEN 4 ELSE 3
         /\ item = "error_event" <=>
              (outcome = "error" /\ Left = 3) \/ (outcome = "qmark" /\ Left = 5)
<1>1. outcome \in Outcomes
  BY RunIsTyped DEF Attempting
<1>2. /\ Left \in Nat
      /\ Left <= Len(TailOf(outcome)) => item = TailOf(outcome)[Len(TailOf(outcome)) + 1 - Left]
  BY Control
<1>3. /\ item = "graph_event" => \/ TailOf(outcome) = OkTail /\ Left = 3
                                 \/ outcome = "error" /\ Left = 4
                                 \/ outcome = "qmark" /\ Left = 3
      /\ item = "error_event" => \/ outcome = "error" /\ Left = 3
                                 \/ outcome = "qmark" /\ Left = 5
  BY Places
<1>4. TailOf(outcome) = OkTail <=> outcome \in Outcomes \ {"error", "qmark", "not_jsonable"}
  BY <1>1, Tails
<1>5. CASE TailOf(outcome) = OkTail
  <2>1. Len(TailOf(outcome)) = 5 /\ TailOf(outcome)[3] = "graph_event"
    BY <1>1, <1>4, <1>5, Tails
  <2>2. Left <= 5 => item = TailOf(outcome)[6 - Left]
    BY <1>2, <2>1
  <2>3. Left = 3 => item = "graph_event"
    BY <2>1, <2>2
  <2>4. QED
    BY <1>3, <1>4, <1>5, <2>3
<1>6. CASE outcome = "error"
  <2>1. /\ Len(TailOf(outcome)) = 8 /\ TailOf(outcome)[5] = "graph_event"
        /\ TailOf(outcome)[6] = "error_event"
    BY <1>1, <1>6, Tails
  <2>2. Left <= 8 => item = TailOf(outcome)[9 - Left]
    BY <1>2, <2>1
  <2>3. (Left = 4 => item = "graph_event") /\ (Left = 3 => item = "error_event")
    BY <2>1, <2>2
  <2>4. QED
    BY <1>3, <1>4, <1>6, <2>3
<1>7. CASE outcome = "qmark"
  <2>1. /\ Len(TailOf(outcome)) = 7 /\ TailOf(outcome)[3] = "error_event"
        /\ TailOf(outcome)[5] = "graph_event"
    BY <1>1, <1>7, Tails
  <2>2. Left <= 7 => item = TailOf(outcome)[8 - Left]
    BY <1>2, <2>1
  <2>3. (Left = 3 => item = "graph_event") /\ (Left = 5 => item = "error_event")
    BY <2>1, <2>2
  <2>4. QED
    BY <1>3, <1>4, <1>7, <2>3
<1>8. CASE outcome = "not_jsonable"
  BY <1>3, <1>4, <1>8
<1>9. QED
  BY <1>1, <1>4, <1>5, <1>6, <1>7, <1>8

LEMMA LastStep ==
  ASSUME IndInv, LastInv, Attempting, NEW item, CarriesOut(item)
  PROVE  LastInv'
<1> DEFINE t       == run.trace
           outcome == run.program.outcome
           graphs  == Positions(t, "module_graph")
           errors  == Positions(t, "error")
<1>1. TypeOK /\ PlanInv /\ Running /\ t \in Traces(Selfs) /\ outcome \in Outcomes
  BY RunIsTyped DEF IndInv, Attempting
<1>2. /\ graphs = {} <=> (outcome = "not_jsonable" \/ Left > (IF outcome = "error" THEN 3 ELSE 2))
      /\ graphs # {} => \E i \in DOMAIN t : graphs = {i}
      /\ outcome \notin Failing => errors = {}
      /\ outcome = "error" => errors = IF Left <= 2 THEN {Len(t)} ELSE {}
      /\ outcome = "qmark" /\ Left <= 4 => errors # {}
      /\ outcome = "qmark" /\ Left <= 2 =>
           \E i \in errors, j \in DOMAIN t : i < j /\ t[j] # NL
  BY DEF LastInv
<1>3. item = Head(run.todo) /\ run'.program = run.program
  BY DEF CarriesOut, Advances
<1>4. Attempting' /\ Left' = Left - 1 /\ Left \in Nat /\ Left > 1
  BY OneMoreDone
<1>5. /\ item = "graph_event" <=>
           outcome # "not_jsonable" /\ Left = IF outcome = "error" THEN 4 ELSE 3
      /\ item = "error_event" <=>
           (outcome = "error" /\ Left = 3) \/ (outcome = "qmark" /\ Left = 5)
  BY <1>1, <1>3, EventsDue
<1>6. outcome = "error" /\ Left = 2 => item = "digests"
  BY <1>1, <1>3, Due
<1>7. PICK added \in Traces(Selfs) :
        /\ run'.trace = t \o added
        /\ item \in Silent => added = <<>>
        /\ item \notin Silent => added # <<>>
        /\ item # "graph_event" => Lacks(added, "module_graph")
        /\ item = "graph_event" => Positions(added, "module_graph") = {Len(added)}
        /\ item # "error_event" => Lacks(added, "error")
        /\ item = "error_event" => Positions(added, "error") = {Len(added)}
  BY AddedVerifies
<1>8. t \in Seq(Events(Selfs) \union {NL}) /\ added \in Seq(Events(Selfs) \union {NL})
  BY <1>1 DEF Traces
<1> DEFINE c       == t \o added
           graphs1 == Positions(c, "module_graph")
           errors1 == Positions(c, "error")
<1>9. LastInv' <=>
        /\ graphs1 = {} <=> (outcome = "not_jsonable" \/ Left - 1 > (IF outcome = "error" THEN 3 ELSE 2))
        /\ graphs1 # {} => \E i \in DOMAIN c : graphs1 = {i}
        /\ outcome \notin Failing => errors1 = {}
        /\ outcome = "error" => errors1 = IF Left - 1 <= 2 THEN {Len(c)} ELSE {}
        /\ outcome = "qmark" /\ Left - 1 <= 4 => errors1 # {}
        /\ outcome = "qmark" /\ Left - 1 <= 2 =>
             \E i \in errors1, j \in DOMAIN c : i < j /\ c[j] # NL
  <2>1. t' = c /\ outcome' = outcome
    BY <1>3, <1>7
  <2>2. graphs' = graphs1 /\ errors' = errors1
    BY <2>1 DEF Positions
  <2>3. LastInv' <=>
          /\ graphs' = {} <=> (outcome' = "not_jsonable"
                                \/ Left' > (IF outcome' = "error" THEN 3 ELSE 2))
          /\ graphs' # {} => \E i \in DOMAIN t' : graphs' = {i}
          /\ outcome' \notin Failing => errors' = {}
          /\ outcome' = "error" => errors' = IF Left' <= 2 THEN {Len(t')} ELSE {}
          /\ outcome' = "qmark" /\ Left' <= 4 => errors' # {}
          /\ outcome' = "qmark" /\ Left' <= 2 =>
               \E i \in errors', j \in DOMAIN t' : i < j /\ t'[j] # NL
    BY <1>4 DEF LastInv, Failing
  <2> HIDE DEF t, outcome, graphs, errors, c, graphs1, errors1
  <2>4. QED
    BY <1>4, <2>1, <2>2, <2>3
<1>10. item \in {"graph_event", "error_event"} => item \notin Silent
  BY DEF Silent, Files
<1>11. /\ item # "graph_event" => graphs1 = graphs
       /\ item # "error_event" => errors1 = errors
  <2>1. \A tag : Lacks(added, tag) => Positions(c, tag) = Positions(t, tag)
    BY <1>1, TraceExtends
  <2>2. QED
    BY <1>7, <2>1
<1>12. item = "graph_event" =>
         /\ graphs1 = graphs \union {Len(c)}
         /\ Len(c) \in DOMAIN c /\ c[Len(c)] # NL
         /\ \A i \in DOMAIN t : i < Len(c)
  BY <1>7, <1>8, <1>10, JoinedAtEnd
<1>13. item = "error_event" => errors1 = errors \union {Len(c)}
  <2>1. ASSUME item = "error_event"
        PROVE  errors1 = errors \union {Len(c)}
    <3>1. added # <<>> /\ Positions(added, "error") = {Len(added)}
      BY <1>7, <1>10, <2>1
    <3>2. QED
      BY <1>8, <3>1, JoinedAtEnd
  <2>2. QED
    BY <2>1
<1>14. \A i \in DOMAIN t : i \in DOMAIN c /\ c[i] = t[i]
  BY <1>8, JoinedSeqs
<1>15. errors \subseteq DOMAIN t /\ graphs \subseteq DOMAIN t
  BY DEF Positions
<1>16. item = "digests" => c = t
  <2>1. "digests" \in Silent
    BY DEF Silent, Files
  <2>2. QED
    BY <1>7, <1>8, <2>1
<1> HIDE DEF t, outcome, graphs, errors, c, graphs1, errors1
<1>17. graphs1 = {} <=> (outcome = "not_jsonable" \/ Left - 1 > (IF outcome = "error" THEN 3 ELSE 2))
  BY <1>2, <1>4, <1>5, <1>11, <1>12
<1>18. graphs1 # {} => \E i \in DOMAIN c : graphs1 = {i}
  <2>1. CASE item = "graph_event"
    <3>1. graphs = {}
      BY <1>2, <1>5, <2>1
    <3>2. graphs1 = {Len(c)} /\ Len(c) \in DOMAIN c
      BY <1>12, <2>1, <3>1
    <3>3. QED
      BY <3>2
  <2>2. CASE item # "graph_event"
    BY <1>2, <1>11, <1>14, <2>2
  <2>3. QED
    BY <2>1, <2>2
<1>19. outcome \notin Failing => errors1 = {}
  BY <1>2, <1>5, <1>11 DEF Failing
<1>20. outcome = "error" => errors1 = IF Left - 1 <= 2 THEN {Len(c)} ELSE {}
  <2>1. CASE outcome = "error" /\ item = "error_event"
    <3>1. errors = {} /\ Left = 3
      BY <1>2, <1>5, <2>1
    <3>2. errors1 = {Len(c)}
      BY <1>13, <2>1, <3>1
    <3>3. QED
      BY <3>1, <3>2
  <2>2. CASE outcome = "error" /\ item # "error_event" /\ Left <= 2
    <3>1. c = t
      BY <1>4, <1>6, <1>16, <2>2
    <3>2. QED
      BY <1>2, <1>4, <1>11, <2>2, <3>1
  <2>3. CASE outcome = "error" /\ item # "error_event" /\ ~(Left <= 2)
    <3>1. Left # 3
      BY <1>5, <2>3
    <3>2. QED
      BY <1>2, <1>4, <1>11, <2>3, <3>1
  <2>4. QED
    BY <2>1, <2>2, <2>3
<1>21. outcome = "qmark" /\ Left - 1 <= 4 => errors1 # {}
  <2>1. CASE item = "error_event"
    BY <1>13, <2>1
  <2>2. ASSUME item # "error_event", outcome = "qmark", Left - 1 <= 4
        PROVE  errors1 # {}
    <3>1. Left <= 4
      BY <1>4, <1>5, <2>2
    <3>2. QED
      BY <1>2, <1>11, <2>2, <3>1
  <2>3. QED
    BY <2>1, <2>2
<1>22. ASSUME outcome = "qmark", Left - 1 <= 2
       PROVE  \E i \in errors1, j \in DOMAIN c : i < j /\ c[j] # NL
  <2>1. Left <= 4 /\ item # "error_event"
    BY <1>4, <1>5, <1>22
  <2>2. errors1 = errors /\ errors # {}
    BY <1>2, <1>11, <1>22, <2>1
  <2>3. CASE item = "graph_event"
    <3>1. PICK i \in errors : TRUE
      BY <2>2
    <3>2. i \in DOMAIN t
      BY <1>15, <3>1
    <3>3. QED
      BY <1>12, <2>2, <2>3, <3>1, <3>2
  <2>4. CASE item # "graph_event"
    <3>1. Left <= 2
      BY <1>4, <1>5, <1>22, <2>4
    <3>2. QED
      BY <1>2, <1>14, <1>22, <2>2, <3>1
  <2>5. QED
    BY <2>3, <2>4
<1>23. QED
  BY <1>9, <1>17, <1>18, <1>19, <1>20, <1>21, <1>22

-----------------------------------------------------------------------------
(* Files that the run has not written *)

LEMMA FreshStep ==
  ASSUME IndInv, FreshInv, Attempting, NEW item, CarriesOut(item),
         dir'.result = dir.result \/ item = "result",
         dir'.error = dir.error \/ item = "error",
         dir'.digests = dir.digests \/ item = "digests"
  PROVE  FreshInv'
<1>1. TypeOK /\ PlanInv /\ Running /\ run.program.outcome \in Outcomes
  BY RunIsTyped DEF IndInv, Attempting
<1>2. item = Head(run.todo) /\ run'.program = run.program /\ run'.fresh = run.fresh
  BY DEF CarriesOut, Advances
<1>3. TailOf(run.program.outcome) = OkTail <=>
        run.program.outcome \in Outcomes \ {"error", "qmark", "not_jsonable"}
  BY <1>1, Tails
<1>4. /\ item = "result" => TailOf(run.program.outcome) = OkTail
      /\ item = "error" => run.program.outcome \in Failing
      /\ item = "digests" => TailOf(run.program.outcome) = OkTail \/ run.program.outcome \in Failing
  BY <1>1, <1>2, Places
<1>5. Emptied' => Emptied
  <2>1. run'.attempt = run.attempt /\ Attempting'
    BY OneMoreDone DEF CarriesOut, Advances
  <2>2. QED
    BY <1>2, <2>1 DEF Emptied, Attempting, CleaningUp
<1>6. QED
  BY <1>1, <1>2, <1>3, <1>4, <1>5 DEF FreshInv, Failing

-----------------------------------------------------------------------------
(* The end of a run *)

\* The trace is fine if and only if the program does only what verifies.
LEMMA AllInOrder ==
  ASSUME TypeOK, PlanInv, Attempting, Left = 1
  PROVE  LET steps == run.program.steps
             Only(step, others) ==
               \A i \in DOMAIN steps : steps[i] = step => \A j \in 1 .. i : steps[j] \in others
         IN InOrder <=> /\ \A i \in DOMAIN steps : steps[i] \in Verifiable
                        /\ Only("import", {"import", "self"})
                        /\ Only("artifact", {"artifact", "self"})
<1> DEFINE steps == run.program.steps
           Only(step, others) ==
             \A i \in DOMAIN steps : steps[i] = step => \A j \in 1 .. i : steps[j] \in others
           n == Len(steps)
<1>1. /\ n \in Nat /\ DOMAIN steps = 1 .. n
      /\ Len(Plan) = n + Len(TailOf(run.program.outcome))
      /\ Len(TailOf(run.program.outcome)) \in Nat
      /\ \A i \in 1 .. n : Plan[i] = steps[i] /\ Plan[i] \in Steps
      /\ \A i \in 1 .. Len(Plan) : i > n => Plan[i] \notin Steps
  BY StepsFirst
<1>2. Len(Plan) \in Nat /\ Done \in Nat /\ Left = Len(Plan) - Done /\ Plan[Done + 1] = Head(run.todo)
  BY PlanPlace
<1>3. Plan[Done + 1] \notin Steps
  <2>1. Left > 1 \/ Head(run.todo) \in {"settle", "fail"}
    BY Places
  <2>2. QED
    BY <1>2, <2>1 DEF Steps
<1> HIDE DEF steps, n
<1>4. Done >= n
  <2>1. Done + 1 > n
    <3>1. Done + 1 \in 1 .. Len(Plan)
      BY <1>2
    <3>2. QED
      BY <1>1, <1>2, <1>3, <3>1
  <2>2. QED
    BY <1>1, <1>2, <2>1
<1>5. /\ \A i \in 1 .. n : i \in 1 .. Done
      /\ \A i \in 1 .. Done : i \in 1 .. Len(Plan) /\ (i > n \/ i \in 1 .. n)
  BY <1>1, <1>2, <1>4
<1>6. InOrder <=> \A i \in 1 .. n : Follows(steps[i], {steps[j] : j \in 1 .. i - 1})
  <2>1. ASSUME NEW i \in 1 .. n
        PROVE  {Plan[j] : j \in 1 .. i - 1} = {steps[j] : j \in 1 .. i - 1}
    <3>1. \A j \in 1 .. i - 1 : j \in 1 .. n
      BY <1>1
    <3>2. \A j \in 1 .. i - 1 : Plan[j] = steps[j]
      BY <1>1, <3>1
    <3>3. QED
      BY <3>2
  <2>2. \A i \in 1 .. Done : i > n => \A before : Follows(Plan[i], before)
    BY <1>1, <1>5 DEF Follows
  <2>3. QED
    BY <1>1, <1>5, <2>1, <2>2 DEF InOrder
<1>7. ASSUME NEW i \in 1 .. n, NEW step, NEW others, step \in others, steps[i] = step
      PROVE  (\A j \in 1 .. i : steps[j] \in others) <=> {steps[j] : j \in 1 .. i - 1} \subseteq others
  <2>1. \A j : j \in 1 .. i <=> j \in 1 .. i - 1 \/ j = i
    BY <1>1
  <2>2. QED
    BY <1>7, <2>1
<1>8. ASSUME NEW i \in 1 .. n
      PROVE  Follows(steps[i], {steps[j] : j \in 1 .. i - 1}) <=>
               /\ steps[i] \in Verifiable
               /\ steps[i] = "import" => \A j \in 1 .. i : steps[j] \in {"import", "self"}
               /\ steps[i] = "artifact" => \A j \in 1 .. i : steps[j] \in {"artifact", "self"}
  <2>1. steps[i] \in Steps
    BY <1>1
  <2>2. steps[i] = "import" => ((\A j \in 1 .. i : steps[j] \in {"import", "self"})
                                  <=> {steps[j] : j \in 1 .. i - 1} \subseteq {"import", "self"})
    BY <1>7
  <2>3. steps[i] = "artifact" => ((\A j \in 1 .. i : steps[j] \in {"artifact", "self"})
                                  <=> {steps[j] : j \in 1 .. i - 1} \subseteq {"artifact", "self"})
    BY <1>7
  <2>4. QED
    BY <2>1, <2>2, <2>3 DEF Follows
<1>9. InOrder <=> /\ \A i \in DOMAIN steps : steps[i] \in Verifiable
                  /\ Only("import", {"import", "self"})
                  /\ Only("artifact", {"artifact", "self"})
  BY <1>1, <1>6, <1>8
<1>10. QED
  BY <1>9 DEF steps

\* What the verifiers make of the files of an attempt that wrote all of them.
LEMMA LeftAccepted ==
  ASSUME IndInv, FineInv, LastInv, FreshInv, Attempting, Emptied, ~run.noTrace, Left = 1,
         run.program.outcome # "not_jsonable"
  PROVE  Verifies <=>
           /\ InOrder
           /\ run.program.outcome # "qmark"
           /\ DigestsOf(dir).leaf = IF Ok THEN Result ELSE Failure
<1> DEFINE t       == run.trace
           outcome == run.program.outcome
           leaf    == IF Ok THEN Result ELSE Failure
           d       == DigestsOf(dir)
<1>1. /\ TypeOK /\ PlanInv /\ SelfInv /\ TraceInv /\ FilesInv /\ Running
      /\ t \in Traces(Selfs) /\ outcome \in Outcomes /\ run.sink \in {"trace", "devnull"}
  BY RunIsTyped DEF IndInv, Attempting
<1>2. dir.trace = t
  BY <1>1 DEF TraceInv
<1>3. /\ d \in RunIds /\ d.trace = t /\ d.graph = Graph /\ d.ok = Ok
      /\ dir[Leaf(Ok)] = leaf /\ dir.graph = Graph
      /\ (Ok /\ TailOf(outcome) = OkTail) \/ (~Ok /\ outcome \in Failing)
  BY <1>1, DigestsAre
<1>4. dir.digests = d
  BY <1>1, <1>3 DEF FilesInv, Failing
<1>5. Result \in Results(Selfs) /\ Failure \in Failures(Selfs) /\ Graph \in Graphs
  BY <1>1, ContentsAre
<1>6. leaf \in Leaves(Selfs)
  BY <1>5 DEF Leaves
<1>7. /\ d \notin {Absent, Torn} /\ t \notin {Absent, Torn}
      /\ leaf # Absent /\ dir.graph # Absent
  BY <1>1, <1>3, <1>5, <1>6, MarkersAssumption
<1>8. Ok <=> outcome \notin Failing
  BY DEF Ok, Failing
<1>9. dir[Leaf(~Ok)] = Absent
  BY <1>1, <1>8 DEF FreshInv, Leaf
<1>10. /\ Ok => dir.result = leaf /\ dir.error = Absent
       /\ ~Ok => dir.error = leaf /\ dir.result = Absent
  BY <1>3, <1>9 DEF Leaf
<1>11. BundleAccepts(dir) <=> d.leaf = leaf
  BY <1>2, <1>3, <1>4, <1>7, <1>9 DEF BundleAccepts, HashesMatch
<1>12. /\ \E i : Positions(t, "module_graph") = {i}
       /\ outcome \notin Failing => Positions(t, "error") = {}
       /\ outcome = "error" => Positions(t, "error") = {Len(t)}
       /\ outcome = "qmark" =>
            \E i \in Positions(t, "error"), j \in DOMAIN t : i < j /\ t[j] # NL
  BY DEF LastInv
<1>13. Fine(t) <=> InOrder
  BY DEF FineInv
<1>14. \A i : Cardinality({i}) = 1
  BY FS_Singleton
<1>15. DOMAIN t = 1 .. Len(t) /\ Len(t) \in Nat
  BY <1>1 DEF Traces
<1> HIDE DEF t, outcome, leaf, d
<1>16. Cardinality(Positions(t, "module_graph")) = 1
  BY <1>12, <1>14
<1>17. TraceAccepts(dir) <=>
         /\ Fine(t) /\ ErrorLast(t)
         /\ IF Ok THEN Positions(t, "error") = {} ELSE Cardinality(Positions(t, "error")) = 1
  BY <1>2, <1>3, <1>4, <1>7, <1>10, <1>16 DEF TraceAccepts, Fine, EventsOK
<1>18. CASE outcome = "qmark"
  <2>1. PICK i \in Positions(t, "error"), j \in DOMAIN t : i < j /\ t[j] # NL
    BY <1>12, <1>18
  <2>2. i \in DOMAIN t
    BY <2>1 DEF Positions
  <2>3. ~(j <= i)
    BY <1>15, <2>1, <2>2
  <2>4. ~ErrorLast(t)
    BY <2>1, <2>3 DEF ErrorLast
  <2>5. QED
    BY <1>17, <1>18, <2>4 DEF Verifies, outcome
<1>19. CASE outcome = "error"
  <2>1. ~Ok /\ Positions(t, "error") = {Len(t)}
    BY <1>8, <1>12, <1>19 DEF Failing
  <2>2. ErrorLast(t)
    BY <1>15, <2>1 DEF ErrorLast
  <2>3. TraceAccepts(dir) <=> InOrder
    BY <1>13, <1>14, <1>17, <2>1, <2>2
  <2>4. QED
    BY <1>11, <1>19, <2>3 DEF Verifies, outcome, leaf, d
<1>20. CASE outcome \notin Failing
  <2>1. Ok /\ Positions(t, "error") = {}
    BY <1>8, <1>12, <1>20
  <2>2. ErrorLast(t)
    BY <2>1 DEF ErrorLast
  <2>3. TraceAccepts(dir) <=> InOrder
    BY <1>13, <1>17, <2>1, <2>2
  <2>4. QED
    BY <1>11, <1>20, <2>3 DEF Verifies, outcome, leaf, d, Failing
<1>21. QED
  BY <1>18, <1>19, <1>20 DEF Failing

LEMMA SameLeaf ==
  ASSUME IndInv, Attempting, run.program.outcome = "self" => run.prev # Absent,
         NEW leaf, leaf = IF Ok THEN Result ELSE Failure
  PROVE  Normalised(leaf) = leaf <=> run.program.outcome # "self"
<1> DEFINE outcome == run.program.outcome
<1>1. /\ TypeOK /\ SelfInv /\ Running /\ outcome \in Outcomes
      /\ run.self \in Selfs /\ run.prev \in RunIds \union {Absent}
  BY RunIsTyped DEF IndInv, Attempting
<1>2. run.prev # Absent => run.prev = run.self
  BY <1>1 DEF SelfInv
<1>3. Pending \notin RunIds /\ SelfMark \notin Selfs
  BY MarkersAssumption
<1>4. \A a, b : [self |-> a] = [self |-> b] <=> a = b
  <2>1. \A a : [self |-> a].self = a
    OBVIOUS
  <2>2. QED
    BY <2>1
<1>5. Normalised(leaf) = IF run.prev # Absent /\ leaf = [self |-> run.prev]
                         THEN [self |-> SelfMark] ELSE leaf
  BY DEF Normalised
<1>6. CASE outcome = "self"
  <2>1. leaf = [self |-> run.self]
    BY <1>6 DEF Ok, Result
  <2>2. Normalised(leaf) = [self |-> SelfMark]
    BY <1>2, <1>5, <1>6, <2>1
  <2>3. SelfMark # run.self
    BY <1>1, <1>3
  <2>4. QED
    BY <1>4, <1>6, <2>1, <2>2, <2>3
<1>7. CASE outcome = "self_in_thread"
  <2>1. leaf = [self |-> Pending]
    BY <1>7 DEF Ok, Result
  <2>2. run.prev # Absent => run.prev # Pending
    BY <1>1, <1>3
  <2>3. QED
    BY <1>4, <1>5, <1>7, <2>1, <2>2
<1>8. CASE outcome \notin {"self", "self_in_thread"}
  <2>1. DOMAIN leaf # {"self"}
    <3>1. CASE outcome \in Failing
      <4>1. leaf = Failure /\ DOMAIN Failure = {"code", "partial"}
        BY <3>1 DEF Ok, Failure, Failing
      <4>2. QED
        BY <4>1
    <3>2. CASE outcome \notin Failing
      <4>1. leaf = Result
        BY <3>2 DEF Ok, Failing
      <4>2. DOMAIN Result = {"hash"} \/ DOMAIN Result = {"value"}
        BY <1>8 DEF Result
      <4>3. QED
        BY <4>1, <4>2
    <3>3. QED
      BY <3>1, <3>2
  <2>2. leaf # [self |-> run.prev]
    <3>1. DOMAIN [self |-> run.prev] = {"self"}
      OBVIOUS
    <3>2. QED
      BY <2>1, <3>1
  <2>3. QED
    BY <1>5, <1>8, <2>2
<1>9. QED
  BY <1>6, <1>7, <1>8

\* What an attempt leaves when it has one thing left to do, to settle or to fail.
LEMMA LeftVerifies ==
  ASSUME IndInv, FineInv, LastInv, FreshInv, Attempting, Emptied, ~run.noTrace, Left = 1,
         run.program.outcome = "self" => run.prev # Absent
  PROVE  Verifies <=> Acceptable(run.program)
<1> DEFINE steps   == run.program.steps
           outcome == run.program.outcome
<1>1. TypeOK /\ PlanInv /\ SelfInv /\ TraceInv /\ FilesInv /\ Running
  BY DEF IndInv, Attempting
<1>2. Acceptable(run.program) <=> InOrder /\ outcome \notin {"qmark", "self", "not_jsonable"}
  <2>1. InOrder <=>
          /\ \A i \in DOMAIN steps : steps[i] \in Verifiable
          /\ \A i \in DOMAIN steps : steps[i] = "import" =>
               \A j \in 1 .. i : steps[j] \in {"import", "self"}
          /\ \A i \in DOMAIN steps : steps[i] = "artifact" =>
               \A j \in 1 .. i : steps[j] \in {"artifact", "self"}
    BY <1>1, AllInOrder
  <2>2. QED
    BY <2>1 DEF Acceptable, Verifiable
<1>3. CASE outcome = "not_jsonable"
  <2>1. dir.digests = Absent
    BY <1>1, <1>3 DEF FreshInv
  <2>2. QED
    BY <1>2, <1>3, <2>1 DEF Verifies, TraceAccepts
<1>4. CASE outcome # "not_jsonable"
  <2> DEFINE leaf == IF Ok THEN Result ELSE Failure
  <2>1. Verifies <=> InOrder /\ outcome # "qmark" /\ DigestsOf(dir).leaf = leaf
    BY <1>4, LeftAccepted
  <2>2. DigestsOf(dir).leaf = Normalised(leaf)
    <3>1. Left <= 2
      OBVIOUS
    <3>2. QED
      BY <1>1, <1>4, <3>1, DigestsAre
  <2>3. Normalised(leaf) = leaf <=> outcome # "self"
    BY SameLeaf
  <2>4. QED
    BY <1>2, <1>4, <2>1, <2>2, <2>3
<1>5. QED
  BY <1>3, <1>4

-----------------------------------------------------------------------------
(* The invariant holds *)

LEMMA CarriedOutVerifies ==
  ASSUME IndInv, VerifiesInv, Attempting, NEW item, CarriesOut(item),
         dir'.result = dir.result \/ item = "result",
         dir'.error = dir.error \/ item = "error",
         dir'.digests = dir.digests \/ item = "digests"
  PROVE  VerifiesInv'
<1>1. FineInv /\ LastInv /\ FreshInv
  BY DEF VerifiesInv
<1>2. FineInv'
  BY <1>1, FineStep
<1>3. LastInv'
  BY <1>1, LastStep
<1>4. FreshInv'
  BY <1>1, FreshStep
<1>5. Running'
  BY OneMoreDone
<1>6. VerifiesExactlyIf'
  BY <1>5 DEF VerifiesExactlyIf, Finished
<1>7. QED
  BY <1>2, <1>3, <1>4, <1>6 DEF VerifiesInv

\* Events are written to no file but the trace.
LEMMA EventsVerified ==
  ASSUME IndInv, TypeOK', VerifiesInv,
         NEW item \in (Steps \ {"artifact"}) \union EventItems, Next1(item),
         WriteEvents(EventsOf(item), item \in {"self", "emit_self"},
                     IF item = "failure_event" THEN run.trace ELSE run.partial)
  PROVE  VerifiesInv'
<1>1. Attempting /\ CarriesOut(item)
  BY EventsCarryOut
<1>2. \A trace : /\ SetTrace(trace).result = dir.result /\ SetTrace(trace).error = dir.error
                 /\ SetTrace(trace).digests = dir.digests
  BY DEF SetTrace, IndInv, TypeOK
<1>3. \E trace : dir' = SetTrace(trace)
  BY DEF WriteEvents
<1>4. dir'.result = dir.result /\ dir'.error = dir.error /\ dir'.digests = dir.digests
  BY <1>2, <1>3
<1>5. QED
  BY <1>1, <1>4, CarriedOutVerifies

LEMMA ArtifactVerified ==
  ASSUME IndInv, TypeOK', VerifiesInv, EvaluateArtifact
  PROVE  VerifiesInv'
<1>1. Attempting /\ CarriesOut("artifact")
  BY ArtifactCarriesOut
<1>2. \A trace : /\ SetTrace(trace).result = dir.result /\ SetTrace(trace).error = dir.error
                 /\ SetTrace(trace).digests = dir.digests
  BY DEF SetTrace, IndInv, TypeOK
<1>3. \E trace : dir' = SetTrace(trace)
  BY DEF EvaluateArtifact
<1>4. dir'.result = dir.result /\ dir'.error = dir.error /\ dir'.digests = dir.digests
  BY <1>2, <1>3
<1>5. QED
  BY <1>1, <1>4, CarriedOutVerifies

LEMMA FilesVerified ==
  ASSUME IndInv, TypeOK', VerifiesInv, WriteFile \/ WriteDigests
  PROVE  VerifiesInv'
<1>1. PICK file \in {"result", "graph", "error", "digests"} :
        /\ Next1(file)
        /\ \E content : dir' = [dir EXCEPT ![file] = content]
        /\ run' = [run EXCEPT !.todo = Tail(@)]
        /\ sealed \subseteq sealed' /\ UNCHANGED <<receipts, exit, runs>>
  <2>1. CASE WriteFile
    BY <2>1 DEF WriteFile
  <2>2. CASE WriteDigests
    BY <2>2 DEF WriteDigests
  <2>3. QED
    BY <2>1, <2>2
<1>2. Attempting /\ CarriesOut(file)
  BY <1>1, FilesCarryOut
<1>3. /\ dir'.result = dir.result \/ file = "result"
      /\ dir'.error = dir.error \/ file = "error"
      /\ dir'.digests = dir.digests \/ file = "digests"
  BY <1>1 DEF IndInv, TypeOK
<1>4. QED
  BY <1>2, <1>3, CarriedOutVerifies

LEMMA BeginVerifies ==
  ASSUME run' \in RunStates, run'.todo = ToDo(run'.program), ~CleaningUp',
         run'.trace = <<>>, run'.first = TRUE, FreshInv'
  PROVE  VerifiesInv'
<1> DEFINE program == run'.program
<1>1. Running' /\ Attempting'
  BY RunStatesRun DEF Running, Attempting
<1>2. program \in Programs /\ program.outcome \in Outcomes /\ program.steps \in Seq(Steps)
  BY ProgramsAssumption DEF RunStates
<1>3. Plan' = ToDo(program) /\ Left' = Len(ToDo(program))
  BY DEF Plan, Left
<1>4. /\ Len(ToDo(program)) = Len(program.steps) + Len(TailOf(program.outcome))
      /\ Len(program.steps) \in Nat /\ Len(TailOf(program.outcome)) \in Nat
      /\ Len(ToDo(program)) \in Nat
  <2>1. Len(ToDo(program)) = Len(program.steps) + Len(TailOf(program.outcome))
    BY <1>2, PlanBegins
  <2>2. Len(program.steps) \in Nat /\ Len(TailOf(program.outcome)) \in Nat
    BY <1>2, Tails
  <2>3. \A a, b \in Nat : a + b \in Nat
    OBVIOUS
  <2>4. QED
    BY <2>1, <2>2, <2>3
<1>5. 1 .. Done' = {}
  BY <1>3, <1>4 DEF Done
<1>6. /\ InOrder' /\ \A items : OnlyDone(items)'
  BY <1>5 DEF InOrder, OnlyDone
<1>7. Fine(<<>>) /\ LineEnds(<<>>) /\ Resolves(<<>>) /\ \A tag : Positions(<<>>, tag) = {}
  <2>1. DOMAIN <<>> = {} /\ 1 .. Len(<<>>) - 1 = {}
    OBVIOUS
  <2>2. \A tag : Positions(<<>>, tag) = {}
    BY <2>1 DEF Positions
  <2>3. QED
    BY <2>1, <2>2 DEF Fine, LinesOK, EventsOK, ResolvesFirst, LineEnds, Resolves
<1>8. FineInv'
  <2>1. /\ Fine(run.trace)' <=> Fine(<<>>)
        /\ LineEnds(run.trace)' <=> LineEnds(<<>>)
        /\ Resolves(run.trace)' <=> Resolves(<<>>)
    BY DEF Fine, LinesOK, EventsOK, ResolvesFirst, Positions, LineEnds, Resolves
  <2>2. QED
    BY <1>6, <1>7, <2>1 DEF FineInv
<1>9. LastInv'
  <2>1. PICK k \in Nat, n \in Nat : k = Len(program.steps) /\ n = Len(TailOf(program.outcome))
    BY <1>4
  <2>2. Left' = k + n
    BY <1>3, <1>4, <2>1
  <2>3. /\ program.outcome \notin Failing /\ program.outcome # "not_jsonable" => n = 5
        /\ program.outcome = "error" => n = 8
        /\ program.outcome = "qmark" => n = 7
    BY <1>2, <2>1, Tails DEF Failing
  <2>4. /\ n = 5 => k + n > 4
        /\ n \in {7, 8} => k + n > 6 /\ k + n > 4
        /\ k + n \in Nat
    OBVIOUS
  <2>5. program.outcome # "not_jsonable" =>
          Left' > 4 /\ (program.outcome \in Failing => Left' > 6)
    BY <2>2, <2>3, <2>4 DEF Failing
  <2>6. Left' \in Nat
    BY <2>2
  <2>7. /\ Positions(run.trace, "module_graph")' = {}
        /\ Positions(run.trace, "error")' = {}
    <3>1. /\ Positions(run.trace, "module_graph")' = Positions(<<>>, "module_graph")
          /\ Positions(run.trace, "error")' = Positions(<<>>, "error")
      BY DEF Positions
    <3>2. QED
      BY <1>7, <3>1
  <2>8. LastInv' <=> (Attempting' =>
          LET graphs == Positions(run.trace, "module_graph")'
              errors == Positions(run.trace, "error")'
          IN /\ graphs = {} <=> (program.outcome = "not_jsonable"
                                   \/ Left' > (IF program.outcome = "error" THEN 3 ELSE 2))
             /\ graphs # {} => \E i \in DOMAIN run'.trace : graphs = {i}
             /\ program.outcome \notin Failing => errors = {}
             /\ program.outcome = "error" => errors = IF Left' <= 2 THEN {Len(run'.trace)} ELSE {}
             /\ program.outcome = "qmark" /\ Left' <= 4 => errors # {}
             /\ program.outcome = "qmark" /\ Left' <= 2 =>
                  \E i \in errors, j \in DOMAIN run'.trace : i < j /\ run'.trace[j] # NL)
    BY DEF LastInv, Failing
  <2>9. \A m \in Nat : m > 4 => m > 3 /\ m > 2
    OBVIOUS
  <2>10. \A m \in Nat : m > 6 => ~(m <= 4) /\ ~(m <= 2)
    OBVIOUS
  <2> HIDE DEF program
  <2>11. QED
    BY <2>5, <2>6, <2>7, <2>8, <2>9, <2>10 DEF Failing
<1>10. VerifiesExactlyIf'
  BY <1>1 DEF VerifiesExactlyIf, Finished
<1>11. QED
  BY <1>8, <1>9, <1>10 DEF VerifiesInv

LEMMA StartVerifies ==
  ASSUME IndInv, TypeOK', VerifiesInv, NEW program \in Programs, NEW noTrace \in BOOLEAN,
         Start(program, noTrace)
  PROVE  VerifiesInv'
<1>1. run' = Started(program, noTrace, dir = EmptyDir)
      /\ dir' = IF noTrace THEN dir ELSE [dir EXCEPT !.trace = <<>>]
  BY DEF Start
<1>2. /\ run'.todo = ToDo(run'.program) /\ run'.program = program /\ run'.attempt = 1
      /\ run'.trace = <<>> /\ run'.first = TRUE /\ run'.fresh = (dir = EmptyDir)
  BY <1>1 DEF Started
<1>3. ToDo(program) # <<>> /\ Head(ToDo(program)) \notin {"truncate", "remove", "reopen"}
  BY PlanBegins
<1>4. run' # NotRunning
  <2>1. run'.todo # NotRunning.todo
    BY <1>2, <1>3 DEF NotRunning
  <2>2. QED
    BY <2>1
<1>5. run' \in RunStates
  BY <1>4 DEF TypeOK
<1>6. ~CleaningUp'
  BY <1>2, <1>3 DEF CleaningUp
<1>7. FreshInv'
  <2>1. dir'.result = dir.result /\ dir'.error = dir.error /\ dir'.digests = dir.digests
    BY <1>1 DEF IndInv, TypeOK
  <2>2. dir = EmptyDir => dir.result = Absent /\ dir.error = Absent /\ dir.digests = Absent
    BY DEF EmptyDir, Files
  <2>3. ~(run'.attempt > 1) /\ Head(run'.todo) # "reopen"
    BY <1>2, <1>3
  <2>4. Emptied' => dir = EmptyDir
    BY <1>2, <2>3 DEF Emptied
  <2>5. QED
    BY <1>2, <2>1, <2>2, <2>4 DEF FreshInv
<1>8. QED
  BY <1>2, <1>5, <1>6, <1>7, BeginVerifies

LEMMA ReopenVerifies ==
  ASSUME IndInv, TypeOK', VerifiesInv, Reopen
  PROVE  VerifiesInv'
<1>1. Running /\ run \in RunStates /\ run.program \in Programs
  BY CleaningFields, RunIsTyped DEF Reopen, IndInv
<1>2. /\ run' = [run EXCEPT !.todo = ToDo(run.program), !.attempt = @ + 1, !.sink = "trace",
                            !.trace = <<>>, !.first = TRUE, !.accessed = FALSE, !.deps = 0]
      /\ dir' = [dir EXCEPT !.trace = <<>>]
  BY DEF Reopen
<1>3. /\ run'.todo = ToDo(run'.program) /\ run'.program = run.program
      /\ run'.trace = <<>> /\ run'.first = TRUE /\ run'.fresh = run.fresh
  BY <1>1, <1>2 DEF RunStates
<1>4. ToDo(run.program) # <<>> /\ Head(ToDo(run.program)) \notin {"truncate", "remove", "reopen"}
  BY <1>1, PlanBegins
<1>5. run' # NotRunning
  <2>1. run'.todo # NotRunning.todo
    BY <1>3, <1>4 DEF NotRunning
  <2>2. QED
    BY <2>1
<1>6. run' \in RunStates
  BY <1>5 DEF TypeOK
<1>7. ~CleaningUp'
  BY <1>3, <1>4 DEF CleaningUp
<1>8. FreshInv'
  <2>1. dir'.result = dir.result /\ dir'.error = dir.error /\ dir'.digests = dir.digests
    BY <1>2 DEF IndInv, TypeOK
  <2>2. Emptied
    BY DEF Reopen, Next1, Emptied
  <2>3. QED
    BY <1>1, <1>3, <2>1, <2>2 DEF VerifiesInv, FreshInv
<1>9. QED
  BY <1>3, <1>6, <1>7, <1>8, BeginVerifies

LEMMA CleaningVerifies ==
  ASSUME IndInv, VerifiesInv, Truncate \/ Remove
  PROVE  VerifiesInv'
<1>1. PICK item \in {"truncate", "remove"} :
        /\ Next1(item)
        /\ run' = [run EXCEPT !.todo = Tail(@)]
        /\ dir' = IF item = "remove" THEN EmptyDir ELSE [dir EXCEPT !.trace = <<>>]
  BY DEF Truncate, Remove
<1>2. /\ Running /\ CleaningUp /\ run \in RunStates
      /\ item = "truncate" => run.todo = <<"truncate", "remove", "reopen">>
      /\ item = "remove" => run.todo = <<"remove", "reopen">>
  BY <1>1, CleaningFields
<1>3. /\ run'.program = run.program /\ run'.fresh = run.fresh /\ run'.attempt = run.attempt
      /\ run'.todo = Tail(run.todo)
  BY <1>1, <1>2 DEF RunStates
<1>4. Head(run'.todo) \in {"remove", "reopen"} /\ run'.todo # <<>>
  <2>1. /\ Tail(<<"truncate", "remove", "reopen">>) = <<"remove", "reopen">>
        /\ Tail(<<"remove", "reopen">>) = <<"reopen">>
        /\ Head(<<"remove", "reopen">>) = "remove" /\ <<"remove", "reopen">> # <<>>
        /\ Head(<<"reopen">>) = "reopen" /\ <<"reopen">> # <<>>
    OBVIOUS
  <2>2. CASE item = "truncate"
    BY <1>2, <1>3, <2>1, <2>2
  <2>3. CASE item = "remove"
    BY <1>2, <1>3, <2>1, <2>3
  <2>4. QED
    BY <2>2, <2>3
<1>5. Running' /\ CleaningUp' /\ ~Attempting'
  <2>1. NotRunning.todo = <<>>
    BY DEF NotRunning
  <2>2. QED
    BY <1>4, <2>1 DEF Running, CleaningUp, Attempting
<1>6. FreshInv'
  <2>1. dir' = EmptyDir => dir'.result = Absent /\ dir'.error = Absent /\ dir'.digests = Absent
    BY DEF EmptyDir, Files
  <2>2. dir' = [dir EXCEPT !.trace = <<>>] =>
          dir'.result = dir.result /\ dir'.error = dir.error /\ dir'.digests = dir.digests
    BY DEF IndInv, TypeOK
  <2>3. CASE dir' = EmptyDir
    BY <2>1, <2>3 DEF FreshInv
  <2>4. CASE item = "truncate" /\ dir' = [dir EXCEPT !.trace = <<>>]
    <3>1. Head(run'.todo) = "remove"
      <4>1. Tail(<<"truncate", "remove", "reopen">>) = <<"remove", "reopen">>
            /\ Head(<<"remove", "reopen">>) = "remove"
        OBVIOUS
      <4>2. QED
        BY <1>2, <1>3, <2>4, <4>1
    <3>2. Emptied' => Emptied
      BY <1>3, <3>1 DEF Emptied
    <3>3. QED
      BY <1>2, <1>3, <2>2, <2>4, <3>2 DEF VerifiesInv, FreshInv
  <2>5. QED
    BY <1>1, <2>3, <2>4 DEF Truncate, Remove, Next1
<1>7. QED
  BY <1>5, <1>6 DEF VerifiesInv, FineInv, LastInv, VerifiesExactlyIf, Finished

\* A run that is over has nothing of the invariant left but the property.
LEMMA OverVerifies ==
  ASSUME run' = NotRunning, VerifiesExactlyIf'
  PROVE  VerifiesInv'
<1>1. ~Running' /\ ~Attempting'
  BY DEF Running, Attempting
<1>2. QED
  BY <1>1 DEF VerifiesInv, FineInv, LastInv, FreshInv

LEMMA EndVerifies ==
  ASSUME IndInv, VerifiesInv, Attempting, Left = 1,
         run.program.outcome = "self" => run.prev # Absent,
         NEW code, exit' = Ended(code, run.program, run.fresh, run.noTrace),
         run' = NotRunning, UNCHANGED dir
  PROVE  VerifiesInv'
<1>1. exit'.program = run.program /\ exit'.fresh = run.fresh /\ exit'.noTrace = run.noTrace
  BY DEF Ended
<1>2. run.fresh /\ ~run.noTrace => (Verifies <=> Acceptable(run.program))
  BY LeftVerifies DEF VerifiesInv, Emptied
<1>3. Verifies' <=> Verifies
  BY DEF Verifies, TraceAccepts, BundleAccepts, HashesMatch
<1>4. VerifiesExactlyIf'
  <2>1. Finished' /\ exit'.fresh => run.fresh /\ ~run.noTrace
    BY <1>1 DEF Finished
  <2>2. (Verifies <=> Acceptable(exit.program))' <=> (Verifies' <=> Acceptable(run.program))
    BY <1>1 DEF Acceptable
  <2>3. QED
    BY <1>2, <1>3, <2>1, <2>2 DEF VerifiesExactlyIf
<1>5. QED
  BY <1>4, OverVerifies

LEMMA SettleVerifies ==
  ASSUME DigestInv, VerifiesInv, Settle
  PROVE  VerifiesInv'
<1> DEFINE id == dir.digests
<1>1. Next1("settle") /\ UNCHANGED dir
  BY DEF Settle
<1>2. /\ Attempting /\ Running /\ run \in RunStates /\ id \in RunIds
      /\ ~run.accessed => run.program.outcome \notin {"self", "hash_of_self"}
  BY <1>1, Settling
<1>3. /\ IndInv /\ TypeOK /\ PlanInv
  BY DEF DigestInv, IndInv
<1>4. Left = 1
  BY <1>1, <1>2, <1>3, Places DEF Next1
<1>5. /\ run.attempt \in 1 .. 3
      /\ run.attempt # 1 => run.prev \in RunIds
  BY <1>2, PrevIs
<1>6. Absent \notin RunIds
  BY MarkersAssumption
<1>7. CASE run' = [run EXCEPT !.prev = id, !.self = id, !.todo = <<"truncate", "remove", "reopen">>]
  <2>1. /\ run'.program = run.program /\ run'.fresh = run.fresh /\ run'.attempt = run.attempt
        /\ run'.todo = <<"truncate", "remove", "reopen">>
    BY <1>2, <1>7 DEF RunStates
  <2>2. run' # NotRunning
    <3>1. run'.todo # NotRunning.todo
      BY <2>1 DEF NotRunning
    <3>2. QED
      BY <3>1
  <2>3. Running' /\ CleaningUp' /\ ~Attempting'
    BY <2>1, <2>2 DEF Running, CleaningUp, Attempting
  <2>4. FreshInv'
    <3>1. Emptied' => Emptied
      BY <2>1 DEF Emptied
    <3>2. QED
      BY <1>1, <1>2, <2>1, <3>1 DEF VerifiesInv, FreshInv
  <2>5. QED
    BY <2>3, <2>4 DEF VerifiesInv, FineInv, LastInv, VerifiesExactlyIf, Finished
<1>8. CASE ~MayRetry /\ Fail("diverged")
  <2>1. run.attempt # 1
    BY <1>8 DEF MayRetry, MaxAttempts
  <2>2. run.prev # Absent
    BY <1>5, <1>6, <2>1
  <2>3. QED
    BY <1>1, <1>2, <1>3, <1>4, <1>8, <2>2, EndVerifies DEF Fail
<1>9. CASE (~run.accessed \/ Converged(id)) /\ WriteReceipt(id)
  <2>1. run.program.outcome = "self" => run.prev # Absent
    BY <1>2, <1>6, <1>9 DEF Converged
  <2>2. QED
    BY <1>1, <1>2, <1>3, <1>4, <1>9, <2>1, EndVerifies DEF WriteReceipt
<1>10. QED
  BY <1>7, <1>8, <1>9 DEF Settle, RunId

LEMMA ExitVerifies ==
  ASSUME IndInv, VerifiesInv, ExitFailed
  PROVE  VerifiesInv'
<1>1. /\ Attempting /\ Head(run.todo) = "fail"
      /\ exit' = Ended("failed", run.program, run.fresh, run.noTrace)
      /\ run' = NotRunning /\ UNCHANGED dir
  BY DEF ExitFailed, Next1, Fail, Attempting, CleaningUp
<1>2. Left = 1 /\ run.program.outcome # "self"
  BY <1>1, Places DEF IndInv, Failing
<1>3. QED
  BY <1>1, <1>2, EndVerifies

LEMMA InitVerifies == Init => VerifiesInv
<1> SUFFICES ASSUME Init PROVE VerifiesInv
  OBVIOUS
<1>1. ~Running /\ ~Attempting /\ ~Finished
  BY DEF Init, Running, Attempting, Finished
<1>2. QED
  BY <1>1 DEF VerifiesInv, FineInv, LastInv, FreshInv, VerifiesExactlyIf

LEMMA NextVerifies == DigestInv /\ VerifiesInv /\ [Next]_vars => VerifiesInv'
<1> SUFFICES ASSUME DigestInv, VerifiesInv, [Next]_vars PROVE VerifiesInv'
  OBVIOUS
<1>1. IndInv /\ TypeOK'
  BY NextInd DEF DigestInv, IndInv
<1>2. ASSUME NEW program \in Programs, NEW noTrace \in BOOLEAN, Start(program, noTrace)
      PROVE  VerifiesInv'
  BY <1>1, <1>2, StartVerifies
<1>3. ASSUME NEW program \in Programs, RejectTypes(program)
      PROVE  VerifiesInv'
  <2>1. run' = NotRunning /\ exit'.code = "rejected"
    BY <1>3 DEF RejectTypes, Running, Ended
  <2>2. QED
    BY <2>1, OverVerifies DEF VerifiesExactlyIf, Finished
<1>4. CASE Evaluate
  <2>1. PICK step \in Steps \ {"artifact"} :
          /\ Next1(step)
          /\ WriteEvents(EventsOf(step), step \in {"self", "emit_self"}, run.partial)
    BY <1>4 DEF Evaluate
  <2>2. step # "failure_event"
    BY DEF Steps
  <2>3. QED
    BY <1>1, <2>1, <2>2, EventsVerified
<1>5. CASE EvaluateArtifact
  BY <1>1, <1>5, ArtifactVerified
<1>6. CASE WitnessFailure
  <2>1. /\ Next1("failure_event")
        /\ WriteEvents(EventsOf("failure_event"), "failure_event" \in {"self", "emit_self"}, run.trace)
    <3>1. ("failure_event" \in {"self", "emit_self"}) = FALSE
      OBVIOUS
    <3>2. QED
      BY <1>6, <3>1 DEF WitnessFailure
  <2>2. "failure_event" \in (Steps \ {"artifact"}) \union EventItems
    BY DEF EventItems
  <2>3. QED
    BY <1>1, <2>1, <2>2, EventsVerified
<1>7. CASE WriteEvent
  <2>1. PICK item \in {"graph_event", "error_event"} :
          Next1(item) /\ WriteEvents(EventsOf(item), FALSE, run.partial)
    BY <1>7 DEF WriteEvent
  <2>2. item \in EventItems /\ item # "failure_event" /\ (item \in {"self", "emit_self"}) = FALSE
    BY DEF EventItems
  <2>3. QED
    BY <1>1, <2>1, <2>2, EventsVerified
<1>8. CASE WriteFile \/ WriteDigests
  BY <1>1, <1>8, FilesVerified
<1>9. CASE Settle
  BY <1>9, SettleVerifies
<1>10. CASE Truncate \/ Remove
  BY <1>1, <1>10, CleaningVerifies
<1>11. CASE Reopen
  BY <1>1, <1>11, ReopenVerifies
<1>12. CASE ExitFailed
  BY <1>1, <1>12, ExitVerifies
<1>13. CASE Kill
  <2>1. run' = NotRunning /\ exit'.code = "killed"
    BY <1>13 DEF Kill, Ended
  <2>2. QED
    BY <2>1, OverVerifies DEF VerifiesExactlyIf, Finished
<1>14. CASE UNCHANGED vars
  <2>1. dir' = dir /\ run' = run /\ exit' = exit
    BY <1>14 DEF vars
  <2>2. Attempting' <=> Attempting
    BY <2>1 DEF Attempting, Running, CleaningUp
  <2>3. Left' = Left /\ Plan' = Plan /\ Done' = Done
    BY <2>1 DEF Left, Plan, Done
  <2>4. FineInv'
    <3>1. (InOrder' <=> InOrder) /\ \A items : OnlyDone(items)' <=> OnlyDone(items)
      BY <2>3 DEF InOrder, OnlyDone, Follows
    <3>2. QED
      BY <2>1, <2>2, <3>1 DEF VerifiesInv, FineInv, Fine, LinesOK, EventsOK, ResolvesFirst,
           Positions, LineEnds, Resolves
  <2>5. LastInv'
    BY <2>1, <2>2, <2>3 DEF VerifiesInv, LastInv, Positions
  <2>6. FreshInv'
    BY <2>1 DEF VerifiesInv, FreshInv, Running, Emptied
  <2>7. VerifiesExactlyIf'
    BY <2>1 DEF VerifiesInv, VerifiesExactlyIf, Finished, Running, Verifies, TraceAccepts,
       BundleAccepts, HashesMatch, Acceptable
  <2>8. QED
    BY <2>4, <2>5, <2>6, <2>7 DEF VerifiesInv
<1>15. QED
  BY <1>2, <1>3, <1>4, <1>5, <1>6, <1>7, <1>8, <1>9, <1>10, <1>11, <1>12, <1>13, <1>14 DEF Next

\* The verifiers accept what a run leaves in an empty directory exactly if its
\* program avoids what they refuse.
THEOREM FardRunVerifies == Spec => []VerifiesExactlyIf
<1>1. VerifiesInv => VerifiesExactlyIf
  BY DEF VerifiesInv
<1>2. Init => DigestInv /\ VerifiesInv
  BY InitDigest, InitVerifies
<1>3. DigestInv /\ VerifiesInv /\ [Next]_vars => (DigestInv /\ VerifiesInv)'
  BY NextDigest, NextVerifies
<1>4. QED
  BY <1>1, <1>2, <1>3, PTL DEF Spec
-----------------------------------------------------------------------------
(* What a failure leaves.  A run with --no-trace whose result cannot be      *)
(* written does not touch the directory, so what it found there stays.       *)

KeptInv == Running /\ run.noTrace /\ run.program.outcome = "not_jsonable" =>
  /\ run.sink = "devnull"
  /\ Succeeds(dir) <=> passed

FailureInv ==
  /\ KeptInv
  /\ FailureVerifiesExactlyIf

LEMMA SameSuccess ==
  ASSUME dir' = dir
  PROVE  Succeeds(dir)' <=> Succeeds(dir)
  BY DEF Succeeds, TraceAccepts, BundleAccepts, HashesMatch

\* A run that is not over keeps the invariant if it keeps the directory.
LEMMA RunningKeeps ==
  ASSUME KeptInv, Running, Running', run'.program = run.program, run'.noTrace = run.noTrace,
         run'.sink = run.sink, passed' = passed,
         run.program.outcome = "not_jsonable" /\ run.sink = "devnull" => dir' = dir
  PROVE  FailureInv'
<1>1. KeptInv'
  BY SameSuccess DEF KeptInv
<1>2. QED
  BY <1>1 DEF FailureInv, FailureVerifiesExactlyIf

\* Nothing but a run that fails, is rejected or diverges is left to judge at its end.
LEMMA OtherEnds ==
  ASSUME run' = NotRunning, exit'.code \notin {"failed", "rejected", "diverged"}
  PROVE  FailureInv'
  BY DEF FailureInv, KeptInv, FailureVerifiesExactlyIf, Running

LEMMA EventsKept ==
  ASSUME IndInv, KeptInv, TypeOK',
         NEW item \in (Steps \ {"artifact"}) \union EventItems, Next1(item),
         WriteEvents(EventsOf(item), item \in {"self", "emit_self"},
                     IF item = "failure_event" THEN run.trace ELSE run.partial)
  PROVE  FailureInv'
<1>1. Attempting /\ CarriesOut(item)
  BY EventsCarryOut
<1>2. Running /\ Running'
  BY <1>1, OneMoreDone DEF Attempting
<1>3. run.sink = "devnull" => dir' = dir
  BY DEF WriteEvents, SetTrace
<1>4. passed' = passed
  BY DEF WriteEvents
<1>5. QED
  BY <1>1, <1>2, <1>3, <1>4, RunningKeeps DEF CarriesOut, Advances

LEMMA ArtifactKept ==
  ASSUME IndInv, KeptInv, TypeOK', EvaluateArtifact
  PROVE  FailureInv'
<1>1. Attempting /\ CarriesOut("artifact")
  BY ArtifactCarriesOut
<1>2. Running /\ Running'
  BY <1>1, OneMoreDone DEF Attempting
<1>3. run.sink = "devnull" => dir' = dir
  BY DEF EvaluateArtifact, SetTrace
<1>4. passed' = passed
  BY DEF EvaluateArtifact
<1>5. QED
  BY <1>1, <1>2, <1>3, <1>4, RunningKeeps DEF CarriesOut, Advances

\* A run that cannot write its result writes no other file either.
LEMMA FilesKept ==
  ASSUME IndInv, KeptInv, TypeOK', WriteFile \/ WriteDigests
  PROVE  FailureInv'
<1>1. PICK file \in {"result", "graph", "error", "digests"} :
        /\ Next1(file)
        /\ \E content : dir' = [dir EXCEPT ![file] = content]
        /\ run' = [run EXCEPT !.todo = Tail(@)]
        /\ sealed \subseteq sealed' /\ UNCHANGED <<receipts, exit, runs, passed>>
  <2>1. CASE WriteFile
    BY <2>1 DEF WriteFile
  <2>2. CASE WriteDigests
    BY <2>2 DEF WriteDigests
  <2>3. QED
    BY <2>1, <2>2
<1>2. Attempting /\ CarriesOut(file)
  BY <1>1, FilesCarryOut
<1>3. Running /\ Running'
  BY <1>2, OneMoreDone DEF Attempting
<1>4. run.program.outcome # "not_jsonable"
  <2>1. /\ TypeOK /\ PlanInv /\ run.program.outcome \in Outcomes
        /\ Head(run.todo) = file
    BY <1>1, <1>3, RunIsTyped DEF IndInv, Next1
  <2>2. TailOf(run.program.outcome) = OkTail \/ run.program.outcome \in Failing
    BY <1>1, <1>2, <2>1, Places DEF Failing
  <2>3. QED
    BY <2>1, <2>2, Tails DEF Failing
<1>5. passed' = passed
  BY <1>1
<1>6. QED
  BY <1>2, <1>3, <1>4, <1>5, RunningKeeps DEF CarriesOut, Advances

\* Files are not tidied away unless the attempt wrote those of a success.
LEMMA CleaningKept ==
  ASSUME IndInv, KeptInv, TypeOK', Truncate \/ Remove \/ Reopen
  PROVE  FailureInv'
<1>1. PICK item \in {"truncate", "remove", "reopen"} : Next1(item)
  BY DEF Truncate, Remove, Reopen
<1>2. Running /\ CleaningUp /\ PlanInv /\ run.program.outcome \in Outcomes
  BY <1>1, RunIsTyped DEF Next1, CleaningUp, IndInv
<1>3. TailOf(run.program.outcome) = OkTail
  BY <1>2 DEF PlanInv
<1>4. run.program.outcome # "not_jsonable"
  BY <1>2, <1>3, Tails
<1>5. run'.program = run.program
  BY <1>1, CleaningFields DEF Truncate, Remove, Reopen, RunStates
<1>6. run' # NotRunning
  <2>1. CASE Reopen
    <3>1. run'.todo = ToDo(run.program) /\ ToDo(run.program) # <<>>
      BY <1>1, <2>1, CleaningFields, RunIsTyped, PlanBegins DEF Reopen, RunStates, IndInv
    <3>2. QED
      BY <3>1 DEF NotRunning
  <2>2. CASE Truncate
    <3>1. run.todo = <<"truncate", "remove", "reopen">> /\ run'.todo = Tail(run.todo)
      BY <2>2, CleaningFields DEF Truncate, RunStates
    <3>2. Tail(<<"truncate", "remove", "reopen">>) # <<>>
      OBVIOUS
    <3>3. QED
      BY <3>1, <3>2 DEF NotRunning
  <2>3. CASE Remove
    <3>1. run.todo = <<"remove", "reopen">> /\ run'.todo = Tail(run.todo)
      BY <2>3, CleaningFields DEF Remove, RunStates
    <3>2. Tail(<<"remove", "reopen">>) # <<>>
      OBVIOUS
    <3>3. QED
      BY <3>1, <3>2 DEF NotRunning
  <2>4. QED
    BY <2>1, <2>2, <2>3
<1>7. QED
  BY <1>4, <1>5, <1>6 DEF FailureInv, KeptInv, FailureVerifiesExactlyIf, Running

LEMMA StartKept ==
  ASSUME IndInv, NEW program \in Programs, NEW noTrace \in BOOLEAN, Start(program, noTrace)
  PROVE  FailureInv'
<1>1. /\ run' = Started(program, noTrace, dir = EmptyDir)
      /\ dir' = IF noTrace THEN dir ELSE [dir EXCEPT !.trace = <<>>]
      /\ passed' = Succeeds(dir) /\ exit' = [code |-> "none"]
  BY DEF Start
<1>2. run'.noTrace = noTrace /\ run'.sink = IF noTrace THEN "devnull" ELSE "trace"
  BY <1>1 DEF Started
<1>3. noTrace => (Succeeds(dir)' <=> Succeeds(dir))
  BY <1>1, SameSuccess
<1>4. KeptInv'
  BY <1>1, <1>2, <1>3 DEF KeptInv
<1>5. exit'.code = "none"
  BY <1>1
<1>6. QED
  BY <1>4, <1>5 DEF FailureInv, FailureVerifiesExactlyIf

\* What a rejected program leaves has an error.json.
LEMMA RejectTold ==
  ASSUME IndInv, NEW program \in Programs, RejectTypes(program)
  PROVE  FailureInv'
<1> DEFINE failure == [code |-> "type_errors", partial |-> Absent]
<1>1. /\ run' = NotRunning /\ exit'.code = "rejected"
      /\ dir' = [dir EXCEPT !.error = failure]
  BY DEF RejectTypes, Running, Ended
<1>2. dir'.error # Absent
  <2>1. failure \in Leaves(Selfs)
    BY DEF Leaves, Failures
  <2> HIDE DEF failure
  <2>2. dir'.error = failure
    BY <1>1 DEF IndInv, TypeOK
  <2>3. QED
    BY <2>1, <2>2, MarkersAssumption
<1>3. ~Succeeds(dir)'
  BY <1>2 DEF Succeeds, BundleAccepts, Leaf
<1>4. QED
  BY <1>1, <1>3 DEF FailureInv, KeptInv, FailureVerifiesExactlyIf, Running

\* What a failure leaves has digests that say so, or a trace without its module graph,
\* or is what the run found.
LEMMA ExitTold ==
  ASSUME IndInv, KeptInv, ExitFailed
  PROVE  FailureInv'
<1> DEFINE outcome == run.program.outcome
<1>1. /\ TypeOK /\ PlanInv /\ SelfInv /\ TraceInv /\ FilesInv /\ GraphInv
      /\ Attempting /\ Running /\ Head(run.todo) = "fail"
  BY DEF IndInv, ExitFailed, Next1, Attempting, CleaningUp
<1>2. /\ exit' = Ended("failed", run.program, run.fresh, run.noTrace)
      /\ run' = NotRunning /\ dir' = dir /\ passed' = passed
  BY DEF ExitFailed, Fail
<1>3. /\ exit'.code = "failed" /\ exit'.noTrace = run.noTrace /\ exit'.program = run.program
  BY <1>2 DEF Ended
<1>4. Left = 1 /\ outcome \in Failing \union {"not_jsonable"}
  BY <1>1, Places
<1>5. run.noTrace \in BOOLEAN /\ run.sink \in {"trace", "devnull"} /\ outcome \in Outcomes
  BY <1>1, RunIsTyped
<1>6. Succeeds(dir) <=> run.noTrace /\ outcome = "not_jsonable" /\ passed
  <2>1. CASE outcome = "not_jsonable" /\ run.noTrace
    BY <1>1, <2>1 DEF KeptInv
  <2>2. CASE outcome = "not_jsonable" /\ ~run.noTrace
    <3>1. Lacks(run.trace, "module_graph") /\ dir.trace = run.trace
      BY <1>1, <1>5, <2>2 DEF GraphInv, TraceInv
    <3>2. Positions(dir.trace, "module_graph") = {}
      BY <3>1 DEF Positions, Lacks
    <3>3. Cardinality(Positions(dir.trace, "module_graph")) = 0
      BY <3>2, FS_EmptySet
    <3>4. QED
      BY <2>2, <3>3 DEF Succeeds, TraceAccepts
  <2>3. CASE outcome \in Failing
    <3>1. dir.digests = DigestsOf(dir)
      BY <1>1, <1>4, <2>3 DEF FilesInv, Failing
    <3>2. outcome # "not_jsonable" /\ ~Ok
      BY <2>3 DEF Failing, Ok
    <3>3. DigestsOf(dir).ok = Ok
      BY <1>1, <1>4, <3>2, DigestsAre
    <3>4. QED
      BY <3>1, <3>2, <3>3 DEF Succeeds
  <2>4. QED
    BY <1>4, <1>5, <2>1, <2>2, <2>3
<1>7. FailureVerifiesExactlyIf'
  <2>1. Succeeds(dir)' <=> Succeeds(dir)
    BY <1>2, SameSuccess
  <2>2. QED
    BY <1>2, <1>3, <1>6, <2>1 DEF FailureVerifiesExactlyIf
<1>8. QED
  BY <1>2, <1>7 DEF FailureInv, KeptInv, Running

\* A run that does not reach the fixed point has been run again in a directory that was
\* removed, and leaves there the files of a success.
LEMMA DivergedTold ==
  ASSUME DigestInv, VerifiesInv, Settle, ~MayRetry, Fail("diverged")
  PROVE  FailureInv'
<1>1. Next1("settle") /\ dir' = dir
  BY DEF Settle
<1>2. Attempting /\ Running /\ run \in RunStates
  BY <1>1, Settling
<1>3. /\ IndInv /\ TypeOK /\ PlanInv /\ SelfInv /\ FilesInv
      /\ FineInv /\ LastInv /\ FreshInv
  BY DEF DigestInv, IndInv, VerifiesInv
<1>4. Left = 1 /\ TailOf(run.program.outcome) = OkTail /\ Head(run.todo) = "settle"
  BY <1>1, <1>2, <1>3, Places DEF Next1
<1>5. run.attempt \in 1 .. 3 /\ (run.attempt # 1 => run.prev \in RunIds)
  BY <1>2, PrevIs DEF DigestInv
<1>6. ~(run.attempt < 3)
  BY DEF MayRetry, MaxAttempts
<1>7. Emptied /\ run.prev # Absent
  BY <1>5, <1>6, MarkersAssumption DEF Emptied
<1>8. run.program \in Programs /\ run.program.outcome \in Outcomes /\ run.noTrace \in BOOLEAN
  BY <1>2, <1>3, RunIsTyped
<1>9. run.program.outcome \notin Failing /\ run.program.outcome # "not_jsonable" /\ Ok
  BY <1>4, <1>8, Tails DEF Failing, Ok
<1>10. dir.digests = DigestsOf(dir)
  BY <1>2, <1>3, <1>4 DEF FilesInv
<1>11. DigestsOf(dir).ok = Ok /\ (run.noTrace => DigestsOf(dir).trace = NoTrace)
  BY DEF DigestsOf
<1>12. Succeeds(dir) <=> Verifies
  BY <1>9, <1>10, <1>11 DEF Succeeds, Verifies
<1>13. Verifies <=> ~run.noTrace /\ Acceptable(run.program)
  <2>1. CASE run.noTrace
    <3>1. dir.trace # NoTrace
      BY <1>3, MarkersAssumption DEF TypeOK
    <3>2. QED
      BY <1>10, <1>11, <2>1, <3>1 DEF Verifies, BundleAccepts, HashesMatch
  <2>2. CASE ~run.noTrace
    BY <1>2, <1>3, <1>4, <1>7, <2>2, LeftVerifies
  <2>3. QED
    BY <1>8, <2>1, <2>2
<1>14. /\ run' = NotRunning /\ exit'.code = "diverged" /\ exit'.noTrace = run.noTrace
       /\ exit'.program = run.program
  BY DEF Fail, Ended
<1>15. FailureVerifiesExactlyIf'
  <2>1. Succeeds(dir)' <=> Succeeds(dir)
    BY <1>1, SameSuccess
  <2>2. Acceptable(exit.program)' <=> Acceptable(run.program)
    BY <1>14 DEF Acceptable
  <2>3. QED
    BY <1>12, <1>13, <1>14, <2>1, <2>2 DEF FailureVerifiesExactlyIf
<1>16. QED
  BY <1>14, <1>15 DEF FailureInv, KeptInv, Running

LEMMA SettleTold ==
  ASSUME DigestInv, VerifiesInv, KeptInv, Settle
  PROVE  FailureInv'
<1> DEFINE id == dir.digests
<1>1. CASE /\ run' = [run EXCEPT !.prev = id, !.self = id,
                                 !.todo = <<"truncate", "remove", "reopen">>]
  <2>1. Running /\ run \in RunStates /\ dir' = dir /\ passed' = passed
    BY Settling DEF Settle
  <2>2. /\ run'.program = run.program /\ run'.noTrace = run.noTrace /\ run'.sink = run.sink
        /\ run'.todo = <<"truncate", "remove", "reopen">>
    BY <1>1, <2>1 DEF RunStates
  <2>3. Running'
    BY <2>2 DEF Running, NotRunning
  <2>4. QED
    BY <2>1, <2>2, <2>3, RunningKeeps
<1>2. CASE ~MayRetry /\ Fail("diverged")
  BY <1>2, DivergedTold
<1>3. CASE WriteReceipt(id)
  <2>1. run' = NotRunning /\ exit'.code = "ok"
    BY <1>3 DEF WriteReceipt, Ended
  <2>2. QED
    BY <2>1, OtherEnds
<1>4. QED
  BY <1>1, <1>2, <1>3 DEF Settle, RunId

LEMMA InitFailure == Init => FailureInv
  BY DEF Init, FailureInv, KeptInv, FailureVerifiesExactlyIf, Running

LEMMA NextFailure ==
  DigestInv /\ VerifiesInv /\ FailureInv /\ [Next]_vars => FailureInv'
<1> SUFFICES ASSUME DigestInv, VerifiesInv, FailureInv, [Next]_vars PROVE FailureInv'
  OBVIOUS
<1>1. IndInv /\ TypeOK' /\ KeptInv
  BY NextInd DEF DigestInv, IndInv, FailureInv
<1>2. ASSUME NEW program \in Programs, NEW noTrace \in BOOLEAN, Start(program, noTrace)
      PROVE  FailureInv'
  BY <1>1, <1>2, StartKept
<1>3. ASSUME NEW program \in Programs, RejectTypes(program)
      PROVE  FailureInv'
  BY <1>1, <1>3, RejectTold
<1>4. CASE Evaluate
  <2>1. PICK step \in Steps \ {"artifact"} :
          /\ Next1(step)
          /\ WriteEvents(EventsOf(step), step \in {"self", "emit_self"}, run.partial)
    BY <1>4 DEF Evaluate
  <2>2. step # "failure_event"
    BY DEF Steps
  <2>3. QED
    BY <1>1, <2>1, <2>2, EventsKept
<1>5. CASE EvaluateArtifact
  BY <1>1, <1>5, ArtifactKept
<1>6. CASE WitnessFailure
  <2>1. /\ Next1("failure_event")
        /\ WriteEvents(EventsOf("failure_event"), "failure_event" \in {"self", "emit_self"}, run.trace)
    <3>1. ("failure_event" \in {"self", "emit_self"}) = FALSE
      OBVIOUS
    <3>2. QED
      BY <1>6, <3>1 DEF WitnessFailure
  <2>2. "failure_event" \in (Steps \ {"artifact"}) \union EventItems
    BY DEF EventItems
  <2>3. QED
    BY <1>1, <2>1, <2>2, EventsKept
<1>7. CASE WriteEvent
  <2>1. PICK item \in {"graph_event", "error_event"} :
          Next1(item) /\ WriteEvents(EventsOf(item), FALSE, run.partial)
    BY <1>7 DEF WriteEvent
  <2>2. item \in EventItems /\ item # "failure_event" /\ (item \in {"self", "emit_self"}) = FALSE
    BY DEF EventItems
  <2>3. QED
    BY <1>1, <2>1, <2>2, EventsKept
<1>8. CASE WriteFile \/ WriteDigests
  BY <1>1, <1>8, FilesKept
<1>9. CASE Settle
  BY <1>1, <1>9, SettleTold
<1>10. CASE Truncate \/ Remove \/ Reopen
  BY <1>1, <1>10, CleaningKept
<1>11. CASE ExitFailed
  BY <1>1, <1>11, ExitTold
<1>12. CASE Kill
  <2>1. run' = NotRunning /\ exit'.code = "killed"
    BY <1>12 DEF Kill, Ended
  <2>2. QED
    BY <2>1, OtherEnds
<1>13. CASE UNCHANGED vars
  <2>1. dir' = dir /\ run' = run /\ exit' = exit /\ passed' = passed
    BY <1>13 DEF vars
  <2>2. Succeeds(dir)' <=> Succeeds(dir)
    BY <2>1, SameSuccess
  <2>3. Acceptable(exit.program)' <=> Acceptable(exit.program)
    BY <2>1 DEF Acceptable
  <2>4. QED
    BY <2>1, <2>2, <2>3 DEF FailureInv, KeptInv, FailureVerifiesExactlyIf, Running
<1>14. QED
  BY <1>2, <1>3, <1>4, <1>5, <1>6, <1>7, <1>8, <1>9, <1>10, <1>11, <1>12, <1>13 DEF Next

\* What a failure leaves passes for a success exactly if the run did not reach the fixed
\* point and the verifiers accept its program otherwise, or if its result could not be
\* written, with --no-trace, and what it found there passed.
THEOREM FardRunFailureIsTold == Spec => []FailureVerifiesExactlyIf
<1>1. FailureInv => FailureVerifiesExactlyIf
  BY DEF FailureInv
<1>2. Init => DigestInv /\ VerifiesInv /\ FailureInv
  BY InitDigest, InitVerifies, InitFailure
<1>3. DigestInv /\ VerifiesInv /\ FailureInv /\ [Next]_vars
        => (DigestInv /\ VerifiesInv /\ FailureInv)'
  BY NextDigest, NextVerifies, NextFailure
<1>4. QED
  BY <1>1, <1>2, <1>3, PTL DEF Spec
=============================================================================
