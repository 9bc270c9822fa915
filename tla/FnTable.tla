------------------------------ MODULE FnTable -------------------------------
(***************************************************************************)
(* The tables of compiled functions (VM_FNS in src/bin/fardrun.rs).  A      *)
(* compiled function is a value by its index only, and every thread has a   *)
(* table of its own: a promise starts with a copy of its parent's, a worker *)
(* of par_map with an empty one.  The tree walker calls a function in a     *)
(* copy of the thread's table, in which compiled code resolves what it      *)
(* calls in turn, unless a pointer to the table itself has been set.        *)
(***************************************************************************)
EXTENDS Naturals, Sequences, FiniteSets, SequencesExt

CONSTANTS Threads,   \* the threads a run may have
          Main,      \* the first of them
          Loaded,    \* the functions of the program
          MaxFns,    \* bound on the functions of all tables but copies
          MaxCalls   \* bound on the calls in progress in all threads

ASSUME BoundsAssumption == Loaded \in Nat /\ MaxFns \in Nat /\ MaxCalls \in Nat

ASSUME ThreadsAssumption == Main \in Threads /\ IsFiniteSet(Threads)

VARIABLES
  ptr,     \* VM_FNS_PTR is set in the main thread: fardrun test does that
  stage,   \* stage[t]: how far thread t is
  origin,  \* origin[t]: the thread that started it, how, and how many functions
           \*   that thread had
  table,   \* table[t]: VM_FNS
  held,    \* held[t]: the functions t has as values
  calls    \* calls[t]: the calls of compiled functions in progress, innermost last

vars == <<ptr, stage, origin, table, held, calls>>

\* A function, by the thread that compiled it and its index in the table there.
Fn(t, i) == [by |-> t, at |-> i]
Compiled == {Fn(t, i) : t \in Threads, i \in 1 .. MaxFns}

Started(from, how) == [from |-> from, how |-> how, had |-> Len(table[from])]

\* The caller of par_map waits for all of its workers.
Waits(t) == \E c \in Threads : stage[c] = "running" /\ origin[c].how = "par_map" /\ origin[c].from = t
Acts(t) == stage[t] = "running" /\ stage[Main] = "running" /\ ~Waits(t)

\* The functions a call's copy of the table has: it has no later ones, but through
\* the pointer.
Reach(t, call) == IF call.live THEN Len(table[t]) ELSE call.n

Room == FoldFunction(LAMBDA cs, n : Len(cs) + n, 0, calls) < MaxCalls

Init ==
  LET program == [i \in 1 .. Loaded |-> Fn(Main, i)] IN
  /\ ptr \in BOOLEAN
  /\ stage = [t \in Threads |-> IF t = Main THEN "running" ELSE "unborn"]
  /\ origin = [t \in Threads |-> [from |-> Main, how |-> "main", had |-> 0]]
  /\ table = [t \in Threads |-> IF t = Main THEN program ELSE <<>>]
  /\ held = [t \in Threads |-> IF t = Main THEN Range(program) ELSE {}]
  /\ calls = [t \in Threads |-> <<>>]

\* std/eval evaluates the items of a text, and one is a function it can compile.
Define(t) ==
  LET f == Fn(t, Len(table[t]) + 1) IN
  /\ Acts(t)
  /\ f \in Compiled
  /\ table' = [table EXCEPT ![t] = Append(@, f)]
  /\ held' = [held EXCEPT ![t] = @ \union {f}]
  /\ UNCHANGED <<ptr, stage, origin, calls>>

\* A thread starts with a closure, and with it the functions its parent has.
Begin(t, c, how) ==
  /\ stage' = [stage EXCEPT ![c] = "running"]
  /\ origin' = [origin EXCEPT ![c] = Started(t, how)]
  /\ table' = [table EXCEPT ![c] = IF how = "spawn" THEN table[t] ELSE <<>>]
  /\ held' = [held EXCEPT ![c] = held[t]]
  /\ UNCHANGED <<ptr, calls>>

Spawn(t, c) == Acts(t) /\ stage[c] = "unborn" /\ Begin(t, c, "spawn")

\* par_map on a list with as many elements as there are in cs.
ParMap(t, cs) ==
  /\ Acts(t)
  /\ cs # {} /\ \A c \in cs : stage[c] = "unborn"
  /\ stage' = [c \in Threads |-> IF c \in cs THEN "running" ELSE stage[c]]
  /\ origin' = [c \in Threads |-> IF c \in cs THEN Started(t, "par_map") ELSE origin[c]]
  /\ held' = [c \in Threads |-> IF c \in cs THEN held[t] ELSE held[c]]
  /\ UNCHANGED <<ptr, table, calls>>

\* A value goes from thread to thread through a channel, or as a promise's result.
Hand(s, t, f) ==
  /\ Acts(s) /\ Acts(t)
  /\ f \in held[s] \ held[t]
  /\ held' = [held EXCEPT ![t] = @ \union {f}]
  /\ UNCHANGED <<ptr, stage, origin, table, calls>>

\* Variant of Resolve: the last function of the copy is out of bounds.
ResolveShort(t, call, f) ==
  IF f.at < Reach(t, call)
  THEN /\ calls' = [calls EXCEPT ![t] = Append(@, [call EXCEPT !.for = f, !.runs = table[t][f.at]])]
       /\ UNCHANGED stage
  ELSE /\ stage' = [stage EXCEPT ![t] = "panicked"]
       /\ calls' = [calls EXCEPT ![t] = Append(@, [call EXCEPT !.for = f])]

\* vm_exec_fn on the functions that call has: an index out of these is a panic.
Resolve(t, call, f) ==
  IF f.at <= Reach(t, call)
  THEN /\ calls' = [calls EXCEPT ![t] = Append(@, [call EXCEPT !.for = f, !.runs = table[t][f.at]])]
       /\ UNCHANGED stage
  ELSE /\ stage' = [stage EXCEPT ![t] = "panicked"]
       /\ calls' = [calls EXCEPT ![t] = Append(@, [call EXCEPT !.for = f])]

\* The tree walker, or a function of the library, calls a compiled function.
CallFromWalker(t, f) ==
  /\ Acts(t) /\ f \in held[t] /\ Room
  /\ Resolve(t, [n |-> Len(table[t]), live |-> ptr /\ t = Main, for |-> f, runs |-> f], f)
  /\ UNCHANGED <<ptr, origin, table, held>>

\* Compiled code does.
CallFromCode(t, f) ==
  /\ Acts(t) /\ f \in held[t] /\ Room
  /\ calls[t] # <<>>
  /\ Resolve(t, Last(calls[t]), f)
  /\ UNCHANGED <<ptr, origin, table, held>>

Return(t) ==
  /\ Acts(t) /\ calls[t] # <<>>
  /\ calls' = [calls EXCEPT ![t] = Front(@)]
  /\ UNCHANGED <<ptr, stage, origin, table, held>>

\* A thread is over, and its table is gone.  What a worker returns its caller has.
End(t) ==
  /\ Acts(t) /\ calls[t] = <<>>
  /\ stage' = [stage EXCEPT ![t] = "ended"]
  /\ held' = IF origin[t].how = "par_map"
             THEN [held EXCEPT ![t] = {}, ![origin[t].from] = @ \union held[t]]
             ELSE [held EXCEPT ![t] = {}]
  /\ table' = [table EXCEPT ![t] = <<>>]
  /\ UNCHANGED <<ptr, origin, calls>>

Next ==
  \E t \in Threads :
    \/ Define(t)
    \/ \E c \in Threads : Spawn(t, c)
    \/ \E cs \in SUBSET Threads : ParMap(t, cs)
    \/ \E s \in Threads, f \in Compiled : Hand(s, t, f)
    \/ \E f \in Compiled : CallFromWalker(t, f) \/ CallFromCode(t, f)
    \/ Return(t)
    \/ End(t)

Spec == Init /\ [][Next]_vars

-----------------------------------------------------------------------------
(* Properties *)

Functions == [by : Threads, at : Nat \ {0}]

\* Every variable has its type.
TypeOK ==
  /\ ptr \in BOOLEAN
  /\ stage \in [Threads -> {"unborn", "running", "panicked", "ended"}]
  /\ origin \in [Threads -> [from : Threads, how : {"main", "spawn", "par_map"}, had : Nat]]
  /\ table \in [Threads -> Seq(Functions)]
  /\ held \in [Threads -> SUBSET Functions]
  /\ calls \in [Threads -> Seq([n : Nat, live : BOOLEAN, for : Functions, runs : Functions])]

\* What t has in common with the thread that compiled f includes f: t compiled it,
\* or is a promise, or a promise's promise, spawned after it was compiled.  So t is
\* in every set with the former that such promises of its members are in.
Shares(t, f) ==
  \A S \in SUBSET Threads :
    /\ f.by \in S
    /\ \A c \in Threads :
         origin[c].how = "spawn" /\ f.at <= origin[c].had /\ origin[c].from \in S => c \in S
    => t \in S

\* A call runs the function it is for, exactly if the thread shares it; any other
\* is one that was compiled in this thread under the same index.
CallsRunTheirFunction ==
  \A t \in Threads : \A i \in DOMAIN calls[t] :
    LET call == calls[t][i] IN
    (stage[t] # "panicked" \/ i < Len(calls[t])) =>
      (call.runs = call.for <=> Shares(t, call.for))

\* A thread panics on a function it does not share, or one that was compiled after
\* the tree walker's last call in it, and the latter only without the pointer.
PanicsOnForeignOrLate ==
  \A t \in Threads : stage[t] = "panicked" =>
    LET call == Last(calls[t]) IN
    \/ ~Shares(t, call.for)
    \/ call.n < call.for.at /\ call.n < Len(table[t]) /\ ~call.live

\* A thread calls the functions that it shares with the thread that compiled them, and fails on no other of its own.
CallsShareTheTable == CallsRunTheirFunction /\ PanicsOnForeignOrLate
=============================================================================
