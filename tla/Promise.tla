------------------------------- MODULE Promise -------------------------------
(***************************************************************************)
(* The promises of std/promise (spawn, await and spawn_ordered in           *)
(* src/bin/fardrun.rs).  A promise is a thread with a trace file of its own *)
(* and a slot for its result.  Whoever awaits it polls the slot, takes the  *)
(* result out in a second step, digests and removes the trace file, and     *)
(* leaves the digest in a receipt in its own trace.  The process ends with  *)
(* its main thread, whatever the others are doing.                          *)
(***************************************************************************)
EXTENDS Naturals, Sequences, FiniteSets, SequencesExt

CONSTANTS MaxPromises,  \* bound on the promises spawned
          MaxEmits,     \* bound on the events that are about no promise
          Sharing       \* whether a thread hands its promises on over a channel
               \* (once: a bound)

ASSUME BoundsAssumption == MaxPromises \in Nat /\ MaxEmits \in Nat

ASSUME SharingAssumption == Sharing \in BOOLEAN

VARIABLES
  stage,     \* stage[t]: how far thread t is
  busy,      \* busy[t]: the call to the library that t is in
  slot,      \* slot[p]: the result nobody has taken yet
  poisoned,  \* poisoned[p]: a thread panicked while it held the slot's lock
  file,      \* file[p]: the trace file of p exists
  trace,     \* trace[t]: what t has traced; the contents of the file
  held,      \* held[t]: the promises t can name
  shared,    \* history: a promise was handed on over a channel
  awaited,   \* history: the promises an await was begun on
  twice      \* history: an await was begun on one of those

vars == <<stage, busy, slot, poisoned, file, trace, held, shared, awaited, twice>>

Main == 0
Promises == 1 .. MaxPromises
Threads == 0 .. MaxPromises

Running(t) == stage[t] = "running" /\ stage[Main] = "running"

\* A call: the promises it still waits for, in this order, the step it is at, how
\* many promises it has yet to spawn, whether something that is no function comes
\* after those, how many receipts it has left, and the digest of a trace file.
Idle == [call |-> "none", at |-> "check", todo |-> <<>>, left |-> 0, bad |-> FALSE,
         got |-> 0, run |-> 0]
Await(p) == [Idle EXCEPT !.call = "await", !.todo = <<p>>]
SpawnOrdered(n, bad) ==
  [call |-> "spawn_ordered", at |-> "spawn", todo |-> <<>>, left |-> n, bad |-> bad,
   got |-> 0, run |-> 0]

\* One promise has been spawned, one has been joined.
WithSpawned(b, p) == [b EXCEPT !.left = @ - 1, !.todo = Append(@, p)]
WithJoined(b) == [b EXCEPT !.at = "check", !.todo = Tail(@), !.got = @ + 1]

\* Events.  Traces only grow, so a number of events stands for the digest of the
\* file that has these.
Spawned(p) == [t |-> "child_spawn", of |-> p]
Receipt(p, n) == [t |-> "child_receipt", of |-> p, run |-> n]
Complete(n) == [t |-> "spawn_ordered_complete", count |-> n]
Emitted == [t |-> "emit"]

\* Events that have nothing to do with a promise: MaxEmits bounds them.
Emits == FoldFunction(LAMBDA tr, n : Len(SelectSeq(tr, LAMBDA e : e \in {Emitted, Complete(0)})) + n,
                      0, trace)
Unborn == {p \in Promises : stage[p] = "unborn"}
Fresh(p) == p \in Unborn /\ \A q \in Unborn : p <= q

\* Ids that no spawn_ordered in progress will need.
Spare == Cardinality(Unborn) - FoldFunction(LAMBDA b, n : b.left + n, 0, busy)

\* Variant of Stop: an error does not reach the slot.
StopSilently(t, how) ==
  /\ stage' = [stage EXCEPT ![t] = how]
  /\ busy' = [busy EXCEPT ![t] = Idle]
  /\ slot' = IF t = Main \/ how # "ok" THEN slot ELSE [slot EXCEPT ![t] = how]

\* A thread comes to its end.  The slot of a promise gets the result or the error
\* of the function; a panic leaves it empty.
Stop(t, how) ==
  /\ stage' = [stage EXCEPT ![t] = how]
  /\ busy' = [busy EXCEPT ![t] = Idle]
  /\ slot' = IF t = Main \/ how = "panicked" THEN slot ELSE [slot EXCEPT ![t] = how]

Init ==
  /\ stage = [t \in Threads |-> IF t = Main THEN "running" ELSE "unborn"]
  /\ busy = [t \in Threads |-> Idle]
  /\ slot = [p \in Promises |-> "none"]
  /\ poisoned = [p \in Promises |-> FALSE]
  /\ file = [p \in Promises |-> FALSE]
  /\ trace = [t \in Threads |-> <<>>]
  /\ held = [t \in Threads |-> {}]
  /\ shared = FALSE
  /\ awaited = {}
  /\ twice = FALSE

-----------------------------------------------------------------------------
(* The program *)

\* io.emit and the other calls that trace
Emit(t) ==
  /\ Running(t) /\ busy[t] = Idle
  /\ Emits < MaxEmits
  /\ trace' = [trace EXCEPT ![t] = Append(@, Emitted)]
  /\ UNCHANGED <<stage, busy, slot, poisoned, file, held, shared, awaited, twice>>

Create(t, p) ==
  /\ Fresh(p)
  /\ stage' = [stage EXCEPT ![p] = "born"]
  /\ trace' = [trace EXCEPT ![t] = Append(@, Spawned(p))]

\* Variant of Spawn: the child's function can name the promise it runs for.
SpawnKnowing(t, p) ==
  /\ Running(t) /\ busy[t] = Idle
  /\ Spare > 0
  /\ Create(t, p)
  /\ held' = [held EXCEPT ![p] = held[t] \union {p}, ![t] = @ \union {p}]
  /\ UNCHANGED <<busy, slot, poisoned, file, shared, awaited, twice>>

\* The child's function has captured the promises that the spawner can name.
Spawn(t, p) ==
  /\ Running(t) /\ busy[t] = Idle
  /\ Spare > 0
  /\ Create(t, p)
  /\ held' = [held EXCEPT ![p] = held[t], ![t] = @ \union {p}]
  /\ UNCHANGED <<busy, slot, poisoned, file, shared, awaited, twice>>

\* The new thread creates its trace file.
Begin(p) ==
  /\ stage[p] = "born" /\ stage[Main] = "running"
  /\ stage' = [stage EXCEPT ![p] = "running"]
  /\ file' = [file EXCEPT ![p] = TRUE]
  /\ UNCHANGED <<busy, slot, poisoned, trace, held, shared, awaited, twice>>

\* A thread hands its promises on: a send and a receive.
HandOn(t, u) ==
  /\ Sharing /\ ~shared
  /\ t # u
  /\ Running(t) /\ busy[t] = Idle /\ held[t] # {}
  /\ Running(u) /\ busy[u] = Idle
  /\ held' = [held EXCEPT ![u] = @ \union held[t]]
  /\ shared' = TRUE
  /\ UNCHANGED <<stage, busy, slot, poisoned, file, trace, awaited, twice>>

\* The function of a thread returns or fails.  A promise passes on in its result
\* what it holds.
End(t) ==
  /\ Running(t) /\ busy[t] = Idle
  /\ \E how \in {"ok", "err"} : Stop(t, how)
  /\ UNCHANGED <<poisoned, file, trace, held, shared, awaited, twice>>

\* The function of a promise panics.  (If the main thread does, the process ends
\* as it does when the main thread fails.)
Panic(p) ==
  /\ Running(p) /\ busy[p] = Idle
  /\ Stop(p, "panicked")
  /\ UNCHANGED <<poisoned, file, trace, held, shared, awaited, twice>>

-----------------------------------------------------------------------------
(* spawn_ordered: nobody but the caller gets at these promises *)

BeginSpawnOrdered(t) ==
  /\ Running(t) /\ busy[t] = Idle
  /\ \E n \in 0 .. Spare, bad \in BOOLEAN :
       /\ n > 0 \/ bad \/ Emits < MaxEmits
       /\ busy' = [busy EXCEPT ![t] = SpawnOrdered(n, bad)]
  /\ UNCHANGED <<stage, slot, poisoned, file, trace, held, shared, awaited, twice>>

\* Variant of SpawnNext: the promises are joined from the last to the first.
SpawnNextFirst(t, p) ==
  /\ Running(t) /\ busy[t].at = "spawn" /\ busy[t].left > 0
  /\ Create(t, p)
  /\ busy' = [busy EXCEPT ![t] = [@ EXCEPT !.left = @ - 1, !.todo = <<p>> \o @]]
  /\ held' = [held EXCEPT ![p] = held[t]]
  /\ UNCHANGED <<slot, poisoned, file, shared, awaited, twice>>

SpawnNext(t, p) ==
  /\ Running(t) /\ busy[t].at = "spawn" /\ busy[t].left > 0
  /\ Create(t, p)
  /\ busy' = [busy EXCEPT ![t] = WithSpawned(busy[t], p)]
  /\ held' = [held EXCEPT ![p] = held[t]]
  /\ UNCHANGED <<slot, poisoned, file, shared, awaited, twice>>

\* An element is no function: the call fails, and who was spawned runs on.
SpawnBad(t) ==
  /\ Running(t) /\ busy[t].at = "spawn" /\ busy[t].left = 0 /\ busy[t].bad
  /\ Stop(t, "err")
  /\ UNCHANGED <<poisoned, file, trace, held, shared, awaited, twice>>

SpawnedAll(t) ==
  /\ Running(t) /\ busy[t].at = "spawn" /\ busy[t].left = 0 /\ ~busy[t].bad
  /\ busy' = [busy EXCEPT ![t].at = "check"]
  /\ UNCHANGED <<stage, slot, poisoned, file, trace, held, shared, awaited, twice>>

\* Every promise has been joined.
Ordered(t) ==
  /\ Running(t)
  /\ busy[t].call = "spawn_ordered" /\ busy[t].at = "check" /\ busy[t].todo = <<>>
  /\ trace' = [trace EXCEPT ![t] = Append(@, Complete(busy[t].got))]
  /\ busy' = [busy EXCEPT ![t] = Idle]
  /\ UNCHANGED <<stage, slot, poisoned, file, held, shared, awaited, twice>>

-----------------------------------------------------------------------------
(* Joining: await waits for one promise, spawn_ordered for one after the other *)

BeginAwait(t, p) ==
  /\ Running(t) /\ busy[t] = Idle
  /\ p \in held[t]
  /\ busy' = [busy EXCEPT ![t] = Await(p)]
  /\ awaited' = awaited \union {p}
  /\ twice' = (twice \/ p \in awaited)
  /\ UNCHANGED <<stage, slot, poisoned, file, trace, held, shared>>

At(t, step) == Running(t) /\ busy[t].at = step /\ busy[t].todo # <<>>
Joined(t) == Head(busy[t].todo)

\* slot.lock() finds the lock poisoned.
PanicPoisoned(t) ==
  /\ At(t, "check") \/ At(t, "take")
  /\ poisoned[Joined(t)]
  /\ Stop(t, "panicked")
  /\ UNCHANGED <<poisoned, file, trace, held, shared, awaited, twice>>

Spin(t) ==
  /\ At(t, "check")
  /\ ~poisoned[Joined(t)]
  /\ slot[Joined(t)] = "none"
  /\ UNCHANGED vars

Check(t) ==
  /\ At(t, "check")
  /\ ~poisoned[Joined(t)]
  /\ slot[Joined(t)] # "none"
  /\ busy' = [busy EXCEPT ![t].at = "take"]
  /\ UNCHANGED <<stage, slot, poisoned, file, trace, held, shared, awaited, twice>>

\* Variant of Take: the result stays in the slot.
TakeCopy(t) ==
  /\ At(t, "take")
  /\ ~poisoned[Joined(t)]
  /\ slot[Joined(t)] = "ok"
  /\ busy' = [busy EXCEPT ![t].at = "digest"]
  /\ UNCHANGED <<stage, slot, poisoned, file, trace, held, shared, awaited, twice>>

Take(t) ==
  /\ At(t, "take")
  /\ ~poisoned[Joined(t)]
  /\ slot[Joined(t)] = "ok"
  /\ slot' = [slot EXCEPT ![Joined(t)] = "none"]
  /\ busy' = [busy EXCEPT ![t].at = "digest"]
  /\ UNCHANGED <<stage, poisoned, file, trace, held, shared, awaited, twice>>

\* The promise failed, and so does whoever waits for it: the file stays, and the
\* promises behind it are not joined.
TakeError(t) ==
  LET p == Joined(t) IN
  /\ At(t, "take")
  /\ ~poisoned[p]
  /\ slot[p] = "err"
  /\ stage' = [stage EXCEPT ![t] = "err"]
  /\ busy' = [busy EXCEPT ![t] = Idle]
  /\ slot' = [u \in Promises |-> IF u = p THEN "none" ELSE IF u = t THEN "err" ELSE slot[u]]
  /\ UNCHANGED <<poisoned, file, trace, held, shared, awaited, twice>>

\* Another thread took the result first: unwrap() panics under the lock.
TakeNothing(t) ==
  /\ At(t, "take")
  /\ ~poisoned[Joined(t)]
  /\ slot[Joined(t)] = "none"
  /\ poisoned' = [poisoned EXCEPT ![Joined(t)] = TRUE]
  /\ Stop(t, "panicked")
  /\ UNCHANGED <<file, trace, held, shared, awaited, twice>>

\* The trace file is read and removed.
Digest(t) ==
  /\ At(t, "digest")
  /\ file' = [file EXCEPT ![Joined(t)] = FALSE]
  /\ busy' = [busy EXCEPT ![t] = [@ EXCEPT !.at = "receipt", !.run = Len(trace[Joined(t)])]]
  /\ UNCHANGED <<stage, slot, poisoned, trace, held, shared, awaited, twice>>

LeaveReceipt(t) ==
  /\ At(t, "receipt")
  /\ trace' = [trace EXCEPT ![t] = Append(@, Receipt(Joined(t), busy[t].run))]
  /\ held' = [held EXCEPT ![t] = @ \union held[Joined(t)]]
  /\ busy' = [busy EXCEPT ![t] = IF busy[t].call = "await" THEN Idle ELSE WithJoined(busy[t])]
  /\ UNCHANGED <<stage, slot, poisoned, file, shared, awaited, twice>>

-----------------------------------------------------------------------------

\* What a thread does without anybody's help.
Step(t) ==
  \/ Emit(t) \/ End(t)
  \/ BeginSpawnOrdered(t) \/ SpawnBad(t) \/ SpawnedAll(t) \/ Ordered(t)
  \/ \E p \in Promises : Spawn(t, p) \/ SpawnNext(t, p) \/ BeginAwait(t, p)
  \/ PanicPoisoned(t) \/ Check(t) \/ Take(t) \/ TakeError(t) \/ TakeNothing(t)
  \/ Digest(t) \/ LeaveReceipt(t)

\* The process is over.
Over == stage[Main] # "running" /\ UNCHANGED vars

Next ==
  \/ \E t \in Threads : Step(t) \/ Spin(t)
  \/ \E p \in Promises : Begin(p) \/ Panic(p)
  \/ \E t, u \in Threads : HandOn(t, u)
  \/ Over

\* Threads are scheduled, and what they run comes to an end.  Nothing makes a
\* thread panic or hand a promise on.
Fairness ==
  /\ \A t \in Threads : WF_vars(Step(t))
  /\ \A p \in Promises : WF_vars(Begin(p))

Spec == Init /\ [][Next]_vars /\ Fairness

-----------------------------------------------------------------------------
(* Properties *)

Calls == [call : {"none", "await", "spawn_ordered"},
          at : {"spawn", "check", "take", "digest", "receipt"},
          todo : Seq(Promises), left : Nat, bad : BOOLEAN, got : Nat, run : Nat]

Events == [t : {"emit"}] \union [t : {"child_spawn"}, of : Promises]
          \union [t : {"child_receipt"}, of : Promises, run : Nat]
          \union [t : {"spawn_ordered_complete"}, count : Nat]

TypeOK ==
  /\ stage \in [Threads -> {"unborn", "born", "running", "ok", "err", "panicked"}]
  /\ busy \in [Threads -> Calls]
  /\ slot \in [Promises -> {"none", "ok", "err"}]
  /\ poisoned \in [Promises -> BOOLEAN]
  /\ file \in [Promises -> BOOLEAN]
  /\ trace \in [Threads -> Seq(Events)]
  /\ held \in [Threads -> SUBSET Promises]
  /\ shared \in BOOLEAN /\ twice \in BOOLEAN
  /\ awaited \in SUBSET Promises

WaitsFor(t, p) == busy[t].todo # <<>> /\ busy[t].at # "spawn" /\ p = Joined(t)

\* Unless promises travel over channels, threads never wait for each other in a
\* ring: a promise can only be named by threads that were spawned, or got their
\* results, after it.
NoRingOfWaits ==
  ~shared => \A S \in (SUBSET Threads) \ {{}} : \E t \in S : \A p \in S : ~WaitsFor(t, p)

\* At most one receipt is ever left for a promise, whoever awaits it and however
\* often, and it names all that the promise traced until it returned.
ReceiptsAreWhole ==
  \A t \in Threads : \A i \in DOMAIN trace[t] : trace[t][i].t = "child_receipt" =>
    LET p == trace[t][i].of IN
    /\ stage[p] = "ok"
    /\ trace[t][i].run = Len(trace[p])
    /\ \A u \in Threads : \A j \in DOMAIN trace[u] :
         (trace[u][j].t = "child_receipt" /\ trace[u][j].of = p) => <<u, j>> = <<t, i>>

\* spawn_ordered has left as many receipts as it spawned promises, next to each
\* other and in the order of the spawns, whatever the order they finished in.
OrderedJoins ==
  \A t \in Threads : \A i \in DOMAIN trace[t] : trace[t][i].t = "spawn_ordered_complete" =>
    LET n == trace[t][i].count IN
    /\ i > 2 * n
    /\ \A k \in 1 .. n :
         LET spawn == trace[t][i - 2 * n + k - 1]
             join == trace[t][i - n + k - 1] IN
         /\ spawn.t = "child_spawn" /\ join.t = "child_receipt"
         /\ spawn.of = join.of

Receipted == {p \in Promises : \E t \in Threads : \E i \in DOMAIN trace[t] :
                trace[t][i].t = "child_receipt" /\ trace[t][i].of = p}

\* A trace file stays behind exactly when no receipt names it: the promise is not
\* awaited, fails or panics, or comes after one that failed.
FilesLeft ==
  \A p \in Promises :
    file[p] <=> /\ stage[p] \notin {"unborn", "born"}
                /\ p \notin Receipted
                /\ ~\E t \in Threads : WaitsFor(t, p) /\ busy[t].at = "receipt"

\* spawn_ordered leaves its receipts in the order of the spawns or not at all,
\* and no trace file that a receipt names.
JoinsAreClean == OrderedJoins /\ FilesLeft

\* A wait comes to an end, or some promise was handed on, awaited twice or
\* panicked, or the process is over: nothing else makes it spin for ever.
WaitsEnd ==
  \A t \in Threads :
    (busy[t].todo # <<>>) ~>
      (busy[t].todo = <<>> \/ shared \/ twice \/ \E u \in Threads : stage[u] = "panicked"
       \/ stage[Main] # "running")

=============================================================================
