---------------------------- MODULE PromiseProofs ----------------------------
(***************************************************************************)
(* Promise for every number of promises: type correctness, the absence of   *)
(* rings of waiting threads while no promise travels over a channel, what   *)
(* a receipt proves, and what joins leave behind.                           *)
(***************************************************************************)
EXTENDS Promise, SequenceTheorems, TLAPS

USE BoundsAssumption, SharingAssumption

-----------------------------------------------------------------------------
(* Types *)

LEMMA ThreadsArePromisesAndMain ==
  /\ Main \in Threads /\ Promises \subseteq Threads
  /\ \A t \in Threads : t # Main => t \in Promises
  BY DEF Main, Threads, Promises

\* A call with one field changed.
LEMMA CallUpdates ==
  ASSUME NEW b \in Calls
  PROVE  /\ \A at \in {"spawn", "check", "take", "digest", "receipt"} : [b EXCEPT !.at = at] \in Calls
         /\ \A call \in {"await", "spawn_ordered"} : [b EXCEPT !.call = call] \in Calls
         /\ \A todo \in Seq(Promises) : [b EXCEPT !.todo = todo] \in Calls
         /\ \A n \in Nat : /\ [b EXCEPT !.left = n] \in Calls
                           /\ [b EXCEPT !.got = n] \in Calls
                           /\ [b EXCEPT !.run = n] \in Calls
<1>1. \A at \in {"spawn", "check", "take", "digest", "receipt"} : [b EXCEPT !.at = at] \in Calls
  BY SMT DEF Calls
<1>2. \A call \in {"await", "spawn_ordered"} : [b EXCEPT !.call = call] \in Calls
  BY SMT DEF Calls
<1>3. \A todo \in Seq(Promises) : [b EXCEPT !.todo = todo] \in Calls
  BY SMT DEF Calls
<1>4. \A n \in Nat : [b EXCEPT !.left = n] \in Calls
  BY SMT DEF Calls
<1>5. \A n \in Nat : [b EXCEPT !.got = n] \in Calls
  BY SMT DEF Calls
<1>6. \A n \in Nat : [b EXCEPT !.run = n] \in Calls
  BY SMT DEF Calls
<1>7. QED
  BY <1>1, <1>2, <1>3, <1>4, <1>5, <1>6

LEMMA CallFields ==
  ASSUME NEW b \in Calls
  PROVE  /\ b.call \in {"none", "await", "spawn_ordered"}
         /\ b.at \in {"spawn", "check", "take", "digest", "receipt"}
         /\ b.todo \in Seq(Promises)
         /\ b.left \in Nat /\ b.got \in Nat /\ b.run \in Nat
  BY DEF Calls

\* The calls a thread begins with.
LEMMA IdleCall ==
  Idle \in Calls /\ Idle.at = "check" /\ Idle.todo = <<>> /\ Idle.call = "none" /\ Idle.got = 0
<1>1. <<>> \in Seq(Promises) /\ 0 \in Nat /\ FALSE \in BOOLEAN
  OBVIOUS
<1>2. Idle \in Calls
  BY <1>1, Zenon DEF Idle, Calls
<1>3. QED
  BY <1>2 DEF Idle

LEMMA AwaitCall ==
  ASSUME NEW p \in Promises
  PROVE  /\ Await(p) \in Calls /\ Await(p).todo = <<p>>
         /\ Await(p).at = "check" /\ Await(p).call = "await"
<1>1. <<p>> \in Seq(Promises)
  OBVIOUS
<1>2. Await(p) = [[Idle EXCEPT !.call = "await"] EXCEPT !.todo = <<p>>]
  BY DEF Await, Idle
<1>3. [Idle EXCEPT !.call = "await"] \in Calls
  BY IdleCall, CallUpdates
<1>4. Await(p) \in Calls
  BY <1>1, <1>2, <1>3, CallUpdates
<1>5. QED
  BY <1>4 DEF Await, Idle

LEMMA SpawnOrderedCall ==
  ASSUME NEW n \in Nat, NEW bad \in BOOLEAN
  PROVE  LET b == SpawnOrdered(n, bad) IN
         b \in Calls /\ b.todo = <<>> /\ b.at = "spawn" /\ b.call = "spawn_ordered" /\ b.got = 0
<1>1. <<>> \in Seq(Promises) /\ 0 \in Nat
  OBVIOUS
<1>2. SpawnOrdered(n, bad) \in Calls
  BY <1>1, Zenon DEF Calls, SpawnOrdered
<1>3. QED
  BY <1>2 DEF SpawnOrdered

\* What the steps of a call make of it.
LEMMA SpawnedFields ==
  ASSUME NEW b \in Calls, NEW p \in Promises, b.left > 0
  PROVE  LET c == WithSpawned(b, p) IN
         c \in Calls /\ c.todo = Append(b.todo, p) /\ c.at = b.at /\ c.call = b.call /\ c.got = b.got
<1>1. /\ b.left - 1 \in Nat
      /\ Append(b.todo, p) \in Seq(Promises)
  BY CallFields
<1>2. [b EXCEPT !.left = b.left - 1] \in Calls
  BY <1>1, CallUpdates
<1>3. WithSpawned(b, p) = [[b EXCEPT !.left = b.left - 1] EXCEPT !.todo = Append(b.todo, p)]
  BY DEF WithSpawned, Calls
<1>4. WithSpawned(b, p) \in Calls
  BY <1>1, <1>2, <1>3, CallUpdates
<1>5. QED
  BY <1>4 DEF WithSpawned, Calls

LEMMA JoinedFields ==
  ASSUME NEW b \in Calls, b.todo # <<>>
  PROVE  LET c == WithJoined(b) IN
         c \in Calls /\ c.todo = Tail(b.todo) /\ c.at = "check" /\ c.call = b.call /\ c.got = b.got + 1
<1>1. /\ b.got + 1 \in Nat
      /\ Tail(b.todo) \in Seq(Promises)
  BY CallFields
<1>2. [b EXCEPT !.at = "check"] \in Calls
  BY CallUpdates
<1>3. [[b EXCEPT !.at = "check"] EXCEPT !.todo = Tail(b.todo)] \in Calls
  BY <1>1, <1>2, CallUpdates
<1>4. WithJoined(b) = [[[b EXCEPT !.at = "check"] EXCEPT !.todo = Tail(b.todo)] EXCEPT !.got = b.got + 1]
  BY DEF WithJoined, Calls
<1>5. WithJoined(b) \in Calls
  BY <1>1, <1>3, <1>4, CallUpdates
<1>6. QED
  BY <1>5 DEF WithJoined, Calls

LEMMA AtFields ==
  ASSUME NEW b \in Calls, NEW at \in {"check", "take", "digest"}
  PROVE  LET c == [b EXCEPT !.at = at] IN
         c \in Calls /\ c.todo = b.todo /\ c.at = at /\ c.call = b.call /\ c.got = b.got
<1>1. [b EXCEPT !.at = at] \in Calls
  BY CallUpdates
<1>2. QED
  BY <1>1 DEF Calls

LEMMA DigestFields ==
  ASSUME NEW b \in Calls, NEW n \in Nat
  PROVE  LET c == [b EXCEPT !.at = "receipt", !.run = n] IN
         /\ c \in Calls /\ c.todo = b.todo /\ c.at = "receipt" /\ c.run = n
         /\ c.call = b.call /\ c.got = b.got
<1>1. [b EXCEPT !.at = "receipt"] \in Calls
  BY CallUpdates
<1>2. [b EXCEPT !.at = "receipt", !.run = n] = [[b EXCEPT !.at = "receipt"] EXCEPT !.run = n]
  BY DEF Calls
<1>3. [b EXCEPT !.at = "receipt", !.run = n] \in Calls
  BY <1>1, <1>2, CallUpdates
<1>4. QED
  BY <1>3 DEF Calls

LEMMA EventTypes ==
  /\ Emitted \in Events
  /\ \A p \in Promises : Spawned(p) \in Events
  /\ \A p \in Promises, n \in Nat : Receipt(p, n) \in Events
  /\ \A n \in Nat : Complete(n) \in Events
  BY DEF Events, Emitted, Spawned, Receipt, Complete

LEMMA StopTypes ==
  ASSUME TypeOK, NEW t \in Threads, NEW how \in {"ok", "err", "panicked"}, Stop(t, how)
  PROVE  /\ stage' \in [Threads -> {"unborn", "born", "running", "ok", "err", "panicked"}]
         /\ busy' \in [Threads -> Calls]
         /\ slot' \in [Promises -> {"none", "ok", "err"}]
  BY IdleCall DEF TypeOK, Stop

LEMMA TraceTypes ==
  ASSUME TypeOK, NEW t \in Threads, NEW e \in Events, trace' = [trace EXCEPT ![t] = Append(@, e)]
  PROVE  trace' \in [Threads -> Seq(Events)]
  BY DEF TypeOK

LEMMA JoinedIsPromise ==
  ASSUME TypeOK, NEW t \in Threads, busy[t].todo # <<>>
  PROVE  Joined(t) \in Promises /\ Joined(t) \in Threads
<1>1. busy[t].todo \in Seq(Promises)
  BY DEF TypeOK, Calls
<1>2. QED
  BY <1>1, ThreadsArePromisesAndMain DEF Joined

LEMMA TypeInit == Init => TypeOK
<1>1. Idle \in Calls /\ <<>> \in Seq(Events)
  BY IdleCall
<1> SUFFICES ASSUME Init PROVE TypeOK
  OBVIOUS
<1>2. stage \in [Threads -> {"unborn", "born", "running", "ok", "err", "panicked"}]
  BY DEF Init
<1>3. busy \in [Threads -> Calls] /\ trace \in [Threads -> Seq(Events)]
  BY <1>1 DEF Init
<1>4. slot \in [Promises -> {"none", "ok", "err"}] /\ held \in [Threads -> SUBSET Promises]
  BY DEF Init
<1>5. poisoned \in [Promises -> BOOLEAN] /\ file \in [Promises -> BOOLEAN]
  BY Zenon DEF Init
<1>6. shared \in BOOLEAN /\ twice \in BOOLEAN /\ awaited \in SUBSET Promises
  BY Zenon DEF Init
<1>7. QED
  BY <1>2, <1>3, <1>4, <1>5, <1>6 DEF TypeOK

LEMMA TypeNext == TypeOK /\ [Next]_vars => TypeOK'
<1> SUFFICES ASSUME TypeOK, [Next]_vars PROVE TypeOK'
  OBVIOUS
<1>a. \A t \in Threads : busy[t] \in Calls /\ Idle \in Calls
  BY IdleCall DEF TypeOK
<1>1. ASSUME NEW t \in Threads, Emit(t) PROVE TypeOK'
  BY <1>1, TraceTypes, EventTypes DEF Emit, TypeOK
<1>2. ASSUME NEW t \in Threads, End(t) PROVE TypeOK'
  BY <1>2, StopTypes DEF End, TypeOK
<1>3. ASSUME NEW t \in Threads, BeginSpawnOrdered(t) PROVE TypeOK'
  <2>1. PICK n \in 0 .. Spare, bad \in BOOLEAN : busy' = [busy EXCEPT ![t] = SpawnOrdered(n, bad)]
    BY <1>3 DEF BeginSpawnOrdered
  <2>2. n \in Nat
    OBVIOUS
  <2>3. SpawnOrdered(n, bad) \in Calls
    BY <2>2, SpawnOrderedCall
  <2>4. busy' \in [Threads -> Calls]
    BY <2>1, <2>3 DEF TypeOK
  <2>5. QED
    BY <1>3, <2>4 DEF BeginSpawnOrdered, TypeOK
<1>4. ASSUME NEW t \in Threads, SpawnBad(t) PROVE TypeOK'
  BY <1>4, StopTypes DEF SpawnBad, TypeOK
<1>5. ASSUME NEW t \in Threads, SpawnedAll(t) PROVE TypeOK'
  <2>1. busy' = [busy EXCEPT ![t] = [busy[t] EXCEPT !.at = "check"]]
    BY <1>5 DEF SpawnedAll, TypeOK
  <2>2. busy' \in [Threads -> Calls]
    BY <2>1, <1>a, AtFields DEF TypeOK
  <2>3. QED
    BY <1>5, <2>2 DEF SpawnedAll, TypeOK
<1>6. ASSUME NEW t \in Threads, Ordered(t) PROVE TypeOK'
  <2>1. busy[t].got \in Nat
    BY <1>a DEF Calls
  <2>2. trace' \in [Threads -> Seq(Events)]
    BY <1>6, <2>1, TraceTypes, EventTypes DEF Ordered
  <2>3. QED
    BY <1>6, <2>2, <1>a DEF Ordered, TypeOK
<1>7. ASSUME NEW t \in Threads, NEW p \in Promises, Spawn(t, p) PROVE TypeOK'
  <2>1. trace' \in [Threads -> Seq(Events)]
    BY <1>7, TraceTypes, EventTypes DEF Spawn, Create
  <2>2. held' \in [Threads -> SUBSET Promises]
    BY <1>7 DEF Spawn, TypeOK
  <2>3. QED
    BY <1>7, <2>1, <2>2 DEF Spawn, Create, TypeOK
<1>8. ASSUME NEW t \in Threads, NEW p \in Promises, SpawnNext(t, p) PROVE TypeOK'
  <2>1. trace' \in [Threads -> Seq(Events)]
    BY <1>8, TraceTypes, EventTypes DEF SpawnNext, Create
  <2>2. WithSpawned(busy[t], p) \in Calls
    BY <1>8, <1>a, SpawnedFields DEF SpawnNext
  <2>3. busy' \in [Threads -> Calls]
    BY <1>8, <2>2 DEF SpawnNext, TypeOK
  <2>4. held' \in [Threads -> SUBSET Promises]
    BY <1>8 DEF SpawnNext, TypeOK
  <2>5. QED
    BY <1>8, <2>1, <2>3, <2>4 DEF SpawnNext, Create, TypeOK
<1>9. ASSUME NEW t \in Threads, NEW p \in Promises, BeginAwait(t, p) PROVE TypeOK'
  <2>1. Await(p) \in Calls
    BY AwaitCall
  <2>2. QED
    BY <1>9, <2>1 DEF BeginAwait, TypeOK
<1>10. ASSUME NEW t \in Threads, PanicPoisoned(t) PROVE TypeOK'
  BY <1>10, StopTypes DEF PanicPoisoned, TypeOK
<1>11. ASSUME NEW t \in Threads, Check(t) PROVE TypeOK'
  <2>1. busy' = [busy EXCEPT ![t] = [busy[t] EXCEPT !.at = "take"]]
    BY <1>11 DEF Check, TypeOK
  <2>2. busy' \in [Threads -> Calls]
    BY <2>1, <1>a, AtFields DEF TypeOK
  <2>3. QED
    BY <1>11, <2>2 DEF Check, TypeOK
<1>12. ASSUME NEW t \in Threads, Take(t) PROVE TypeOK'
  <2>1. busy' = [busy EXCEPT ![t] = [busy[t] EXCEPT !.at = "digest"]]
    BY <1>12 DEF Take, TypeOK
  <2>2. busy' \in [Threads -> Calls]
    BY <2>1, <1>a, AtFields DEF TypeOK
  <2>3. QED
    BY <1>12, <2>2 DEF Take, TypeOK
<1>13. ASSUME NEW t \in Threads, TakeError(t) PROVE TypeOK'
  BY <1>13, <1>a DEF TakeError, TypeOK
<1>14. ASSUME NEW t \in Threads, TakeNothing(t) PROVE TypeOK'
  <2>1. poisoned' \in [Promises -> BOOLEAN]
    BY <1>14 DEF TakeNothing, TypeOK
  <2>2. QED
    BY <1>14, <2>1, StopTypes DEF TakeNothing, TypeOK
<1>15. ASSUME NEW t \in Threads, Digest(t) PROVE TypeOK'
  <2>1. Joined(t) \in Threads
    BY <1>15, JoinedIsPromise DEF Digest, At
  <2>2. Len(trace[Joined(t)]) \in Nat
    BY <2>1 DEF TypeOK
  <2>3. busy' \in [Threads -> Calls]
    BY <1>15, <2>2, <1>a, DigestFields DEF Digest, TypeOK
  <2>4. QED
    BY <1>15, <2>3 DEF Digest, TypeOK
<1>16. ASSUME NEW t \in Threads, LeaveReceipt(t) PROVE TypeOK'
  <2>1. busy[t].todo # <<>> /\ Joined(t) \in Promises /\ Joined(t) \in Threads
    BY <1>16, JoinedIsPromise DEF LeaveReceipt, At
  <2>2. busy[t].run \in Nat
    BY <1>a DEF Calls
  <2>3. trace' \in [Threads -> Seq(Events)]
    BY <1>16, <2>1, <2>2, TraceTypes, EventTypes DEF LeaveReceipt
  <2>4. WithJoined(busy[t]) \in Calls
    BY <2>1, <1>a, JoinedFields
  <2>5. busy' \in [Threads -> Calls]
    BY <1>16, <2>4, <1>a DEF LeaveReceipt, TypeOK
  <2>6. held' \in [Threads -> SUBSET Promises]
    BY <1>16, <2>1 DEF LeaveReceipt, TypeOK
  <2>7. QED
    BY <1>16, <2>3, <2>5, <2>6 DEF LeaveReceipt, TypeOK
<1>17. ASSUME NEW p \in Promises, Begin(p) PROVE TypeOK'
  BY <1>17 DEF Begin, TypeOK
<1>18. ASSUME NEW p \in Promises, Panic(p) PROVE TypeOK'
  BY <1>18, StopTypes, ThreadsArePromisesAndMain DEF Panic, TypeOK
<1>19. ASSUME NEW t \in Threads, NEW u \in Threads, HandOn(t, u) PROVE TypeOK'
  BY <1>19 DEF HandOn, TypeOK
<1>20. ASSUME UNCHANGED vars PROVE TypeOK'
  BY <1>20 DEF vars, TypeOK
<1>21. QED
  BY <1>1, <1>2, <1>3, <1>4, <1>5, <1>6, <1>7, <1>8, <1>9, <1>10, <1>11, <1>12, <1>13, <1>14,
     <1>15, <1>16, <1>17, <1>18, <1>19, <1>20 DEF Next, Step, Spin, Over

\* Whatever threads do, the state has its types.
THEOREM PromiseTypeOK == Spec => []TypeOK
<1>1. QED
  BY TypeInit, TypeNext, PTL DEF Spec

-----------------------------------------------------------------------------
(* Rings of waits: whoever can be named was born before whoever names it, or  *)
(* before a promise whose result that one has                                *)

LEMMA RangeFacts ==
  ASSUME NEW q \in Seq(Promises)
  PROVE  /\ Range(<<>>) = {}
         /\ Range(q) \subseteq Promises
         /\ \A p \in Promises : Range(<<p>>) = {p} /\ Range(Append(q, p)) = Range(q) \union {p}
         /\ q # <<>> => Head(q) \in Range(q) /\ Range(Tail(q)) \subseteq Range(q)
<1>1. Range(<<>>) = {} /\ Range(q) \subseteq Promises
  BY DEF Range
<1>2. \A p \in Promises : Range(<<p>>) = {p}
  BY DEF Range
<1>3. ASSUME NEW p \in Promises PROVE Range(Append(q, p)) = Range(q) \union {p}
  <2>1. /\ DOMAIN Append(q, p) = 1 .. Len(q) + 1 /\ DOMAIN q = 1 .. Len(q)
        /\ Append(q, p)[Len(q) + 1] = p
        /\ \A i \in 1 .. Len(q) : Append(q, p)[i] = q[i]
    OBVIOUS
  <2>2. QED
    BY <2>1 DEF Range
<1>4. ASSUME q # <<>> PROVE Head(q) \in Range(q) /\ Range(Tail(q)) \subseteq Range(q)
  <2>1. /\ Len(q) >= 1 /\ Head(q) = q[1] /\ DOMAIN q = 1 .. Len(q)
        /\ DOMAIN Tail(q) = 1 .. Len(q) - 1
        /\ \A i \in 1 .. Len(q) - 1 : Tail(q)[i] = q[i + 1]
    BY <1>4
  <2>2. QED
    BY <2>1 DEF Range
<1>5. QED
  BY <1>1, <1>2, <1>3, <1>4

\* The promises that t can come to wait for.
Named(t) == held[t] \union Range(busy[t].todo)

BornInv ==
  /\ \A t \in Threads : stage[t] = "unborn" => busy[t] = Idle /\ held[t] = {}
  /\ \A t \in Threads : stage[t] = "born" => busy[t] = Idle
  /\ \A t \in Threads : \A p \in Named(t) : stage[p] # "unborn"

\* Of any set of threads one can name none of the set.
NoRing == ~shared => \A S \in SUBSET Threads : S # {} => \E t \in S : Named(t) \intersect S = {}

\* What steps do to these sets.
Shrinks == shared' = shared /\ \A u \in Threads : Named(u)' \subseteq Named(u)
Births ==
  \E t \in Threads, p \in Promises :
    /\ shared' = shared /\ t # p
    /\ \A u \in Threads : p \notin Named(u)
    /\ Named(p)' \subseteq Named(t)
    /\ Named(t)' \subseteq Named(t) \union {p}
    /\ \A u \in Threads \ {t, p} : Named(u)' \subseteq Named(u)
Joins ==
  \E t \in Threads, j \in Promises :
    /\ shared' = shared
    /\ j \in Named(t)
    /\ Named(t)' \subseteq Named(t) \union Named(j)
    /\ \A u \in Threads \ {t} : Named(u)' \subseteq Named(u)

LEMMA ShrinksKeeps == NoRing /\ Shrinks => NoRing'
  BY DEF NoRing, Shrinks

LEMMA BirthsKeep == NoRing /\ Births => NoRing'
<1> SUFFICES ASSUME NoRing, Births, ~shared', NEW S \in SUBSET Threads, S # {}
             PROVE  \E u \in S : Named(u)' \intersect S = {}
  BY DEF NoRing
<1>1. PICK t \in Threads, p \in Promises :
        /\ shared' = shared /\ t # p
        /\ \A u \in Threads : p \notin Named(u)
        /\ Named(p)' \subseteq Named(t)
        /\ Named(t)' \subseteq Named(t) \union {p}
        /\ \A u \in Threads \ {t, p} : Named(u)' \subseteq Named(u)
  BY DEF Births
<1>2. \A R \in SUBSET Threads : R # {} => \E u \in R : Named(u) \intersect R = {}
  BY <1>1 DEF NoRing
<1>3. CASE p \notin S
  <2>1. PICK u \in S : Named(u) \intersect S = {}
    BY <1>2
  <2>2. Named(u)' \intersect S = {}
    BY <1>1, <1>3, <2>1
  <2>3. QED
    BY <2>2
<1>4. CASE p \in S
  <2>1. CASE S = {p}
    BY <1>1, <2>1
  <2>2. CASE S # {p}
    <3>1. S \ {p} # {} /\ S \ {p} \in SUBSET Threads
      BY <1>4, <2>2
    <3>2. PICK u \in S \ {p} : Named(u) \intersect (S \ {p}) = {}
      BY <1>2, <3>1
    <3>3. Named(u) \intersect S = {}
      BY <1>1, <3>2
    <3>4. CASE u = t
      BY <1>1, <1>4, <3>3, <3>4
    <3>5. CASE u # t
      BY <1>1, <3>2, <3>3, <3>5
    <3>6. QED
      BY <3>4, <3>5
  <2>3. QED
    BY <2>1, <2>2
<1>5. QED
  BY <1>3, <1>4

LEMMA JoinsKeep == NoRing /\ Joins => NoRing'
<1> SUFFICES ASSUME NoRing, Joins, ~shared', NEW S \in SUBSET Threads, S # {}
             PROVE  \E u \in S : Named(u)' \intersect S = {}
  BY DEF NoRing
<1>1. PICK t \in Threads, j \in Promises :
        /\ shared' = shared
        /\ j \in Named(t)
        /\ Named(t)' \subseteq Named(t) \union Named(j)
        /\ \A u \in Threads \ {t} : Named(u)' \subseteq Named(u)
  BY DEF Joins
<1>2. \A R \in SUBSET Threads : R # {} => \E u \in R : Named(u) \intersect R = {}
  BY <1>1 DEF NoRing
<1>3. PICK v \in S : Named(v) \intersect S = {}
  BY <1>2
<1>4. S \union {j} \in SUBSET Threads /\ S \union {j} # {}
  BY ThreadsArePromisesAndMain
<1>5. PICK u \in S \union {j} : Named(u) \intersect (S \union {j}) = {}
  BY <1>2, <1>4
<1>6. CASE v # t
  BY <1>1, <1>3, <1>6
<1>7. CASE v = t /\ u \in S
  <2>1. u # t
    BY <1>1, <1>5
  <2>2. Named(u)' \intersect S = {}
    BY <1>1, <1>5, <1>7, <2>1
  <2>3. QED
    BY <1>7, <2>2
<1>8. CASE v = t /\ u = j
  <2>1. Named(t)' \intersect S = {}
    BY <1>1, <1>3, <1>5, <1>8
  <2>2. QED
    BY <1>8, <2>1
<1>9. QED
  BY <1>5, <1>6, <1>7, <1>8

\* A thread that was born goes on by itself, and comes to know no promise.
Own(t) ==
  /\ stage[t] # "unborn" /\ stage'[t] \notin {"unborn", "born"}
  /\ \A u \in Threads \ {t} : stage'[u] = stage[u] /\ busy'[u] = busy[u]
  /\ busy'[t].todo \in {busy[t].todo, <<>>}
  /\ held' = held /\ shared' = shared

LEMMA OwnNames ==
  ASSUME TypeOK, BornInv, NEW t \in Threads, Own(t)
  PROVE  Shrinks /\ BornInv'
<1>1. Range(<<>>) = {}
  BY DEF Range
<1>2. Named(t)' \subseteq Named(t)
  BY <1>1 DEF Own, Named
<1>3. \A u \in Threads \ {t} : Named(u)' = Named(u)
  BY DEF Own, Named
<1>4. Shrinks
  BY <1>2, <1>3 DEF Own, Shrinks
<1>5. /\ \A u \in Threads : stage'[u] = "unborn" => busy'[u] = Idle /\ held'[u] = {}
      /\ \A u \in Threads : stage'[u] = "born" => busy'[u] = Idle
  BY DEF Own, BornInv
<1>6. \A u \in Threads : stage[u] # "unborn" => stage'[u] # "unborn"
  BY DEF Own
<1>7. \A u \in Threads : Named(u) \subseteq Promises
  BY RangeFacts, CallFields DEF TypeOK, Named
<1>8. \A u \in Threads : \A p \in Named(u)' : stage'[p] # "unborn"
  BY <1>4, <1>6, <1>7, ThreadsArePromisesAndMain DEF Shrinks, BornInv
<1>9. QED
  BY <1>4, <1>5, <1>8 DEF BornInv

\* Every step is of one of these kinds, but for handing promises on.
LEMMA OwnSteps ==
  ASSUME TypeOK, NEW t \in Threads,
         \/ Emit(t) \/ End(t) \/ BeginSpawnOrdered(t) \/ SpawnBad(t) \/ SpawnedAll(t) \/ Ordered(t)
         \/ PanicPoisoned(t) \/ Check(t) \/ Take(t) \/ TakeError(t) \/ TakeNothing(t) \/ Digest(t)
         \/ t \in Promises /\ (Begin(t) \/ Panic(t))
  PROVE  Own(t)
<1>a. /\ Idle.todo = <<>>
      /\ stage \in [Threads -> {"unborn", "born", "running", "ok", "err", "panicked"}]
      /\ busy \in [Threads -> Calls]
      /\ \A u \in Threads : busy[u] \in Calls
  BY IdleCall DEF TypeOK
<1>1. ASSUME Emit(t) PROVE Own(t)
  BY <1>1 DEF Emit, Running, Own
<1>2. ASSUME End(t) PROVE Own(t)
  BY <1>2, <1>a DEF End, Stop, Running, Own
<1>3. ASSUME BeginSpawnOrdered(t) PROVE Own(t)
  <2>1. PICK n \in 0 .. Spare, bad \in BOOLEAN : busy' = [busy EXCEPT ![t] = SpawnOrdered(n, bad)]
    BY <1>3 DEF BeginSpawnOrdered
  <2>2. n \in Nat
    OBVIOUS
  <2>3. SpawnOrdered(n, bad).todo = <<>>
    BY <2>2, SpawnOrderedCall
  <2>4. busy'[t].todo = <<>>
    BY <1>a, <2>1, <2>3
  <2>5. QED
    BY <1>3, <1>a, <2>1, <2>4 DEF BeginSpawnOrdered, Running, Own
<1>4. ASSUME SpawnBad(t) PROVE Own(t)
  BY <1>4, <1>a DEF SpawnBad, Stop, Running, Own
<1>5. ASSUME SpawnedAll(t) PROVE Own(t)
  BY <1>5, <1>a, AtFields DEF SpawnedAll, Running, Own
<1>6. ASSUME Ordered(t) PROVE Own(t)
  BY <1>6, <1>a DEF Ordered, Running, Own
<1>7. ASSUME PanicPoisoned(t) PROVE Own(t)
  BY <1>7, <1>a DEF PanicPoisoned, Stop, At, Running, Own
<1>8. ASSUME Check(t) PROVE Own(t)
  BY <1>8, <1>a, AtFields DEF Check, At, Running, Own
<1>9. ASSUME Take(t) PROVE Own(t)
  BY <1>9, <1>a, AtFields DEF Take, At, Running, Own
<1>10. ASSUME TakeError(t) PROVE Own(t)
  BY <1>10, <1>a DEF TakeError, At, Running, Own
<1>11. ASSUME TakeNothing(t) PROVE Own(t)
  BY <1>11, <1>a DEF TakeNothing, Stop, At, Running, Own
<1>12. ASSUME Digest(t) PROVE Own(t)
  <2>1. Len(trace[Joined(t)]) \in Nat
    BY <1>12, JoinedIsPromise DEF Digest, At, TypeOK
  <2>2. busy'[t].todo = busy[t].todo
    BY <1>12, <1>a, <2>1, DigestFields DEF Digest
  <2>3. QED
    BY <1>12, <1>a, <2>2 DEF Digest, At, Running, Own
<1>13. ASSUME t \in Promises, Begin(t) PROVE Own(t)
  BY <1>13, <1>a DEF Begin, Own
<1>14. ASSUME t \in Promises, Panic(t) PROVE Own(t)
  BY <1>14, <1>a DEF Panic, Stop, Running, Own
<1>15. QED
  BY <1>1, <1>2, <1>3, <1>4, <1>5, <1>6, <1>7, <1>8, <1>9, <1>10, <1>11, <1>12, <1>13, <1>14

LEMMA SpawnNames ==
  ASSUME TypeOK, BornInv, NEW t \in Threads, NEW p \in Promises, Spawn(t, p) \/ SpawnNext(t, p)
  PROVE  Births /\ BornInv'
<1>1. /\ stage[t] = "running" /\ stage[p] = "unborn" /\ t # p
      /\ p \in Threads
      /\ \A u \in Threads : stage'[u] # "unborn" <=> (stage[u] # "unborn" \/ u = p)
  BY ThreadsArePromisesAndMain DEF Spawn, SpawnNext, Running, Create, Fresh, Unborn, TypeOK
<1>2. /\ shared' = shared
      /\ held'[p] = held[t]
      /\ held'[t] \subseteq held[t] \union {p}
      /\ \A u \in Threads \ {t, p} : held'[u] = held[u]
  BY <1>1 DEF Spawn, SpawnNext, TypeOK
<1>3. /\ Range(busy'[t].todo) \subseteq Range(busy[t].todo) \union {p}
      /\ \A u \in Threads \ {t} : busy'[u] = busy[u]
  <2>1. CASE Spawn(t, p)
    BY <2>1 DEF Spawn
  <2>2. CASE SpawnNext(t, p)
    <3>1. busy[t] \in Calls /\ busy[t].todo \in Seq(Promises) /\ busy[t].left > 0
      BY <2>2, CallFields DEF SpawnNext, TypeOK
    <3>2. busy'[t].todo = Append(busy[t].todo, p)
      BY <2>2, <3>1, SpawnedFields DEF SpawnNext, TypeOK
    <3>3. Range(Append(busy[t].todo, p)) = Range(busy[t].todo) \union {p}
      BY <3>1, RangeFacts
    <3>4. Range(busy'[t].todo) \subseteq Range(busy[t].todo) \union {p}
      BY <3>2, <3>3
    <3>5. \A u \in Threads \ {t} : busy'[u] = busy[u]
      BY <2>2 DEF SpawnNext, TypeOK
    <3>6. QED
      BY <3>4, <3>5
  <2>3. QED
    BY <2>1, <2>2
<1>4. /\ \A u \in Threads : p \notin Named(u)
      /\ busy[p] = Idle /\ Range(busy[p].todo) = {}
  BY <1>1, IdleCall DEF BornInv, Range
<1>5. /\ Named(p)' \subseteq Named(t)
      /\ Named(t)' \subseteq Named(t) \union {p}
      /\ \A u \in Threads \ {t, p} : Named(u)' \subseteq Named(u)
  BY <1>1, <1>2, <1>3, <1>4 DEF Named
<1>6. Births
  BY <1>1, <1>2, <1>4, <1>5 DEF Births
<1>7. \A u \in Threads : \A q \in Named(u)' : stage'[q] # "unborn"
  <2> SUFFICES ASSUME NEW u \in Threads, NEW q \in Named(u)' PROVE stage'[q] # "unborn"
    OBVIOUS
  <2>1. \A v \in Threads : Named(v) \subseteq Promises
    BY RangeFacts, CallFields DEF TypeOK, Named
  <2>2. q \in Named(t) \/ q \in Named(u) \/ q = p
    BY <1>5
  <2>3. QED
    BY <1>1, <2>1, <2>2, ThreadsArePromisesAndMain DEF BornInv
<1>8. /\ \A u \in Threads : stage'[u] = "unborn" => busy'[u] = Idle /\ held'[u] = {}
      /\ \A u \in Threads : stage'[u] = "born" => busy'[u] = Idle
  <2>1. \A u \in Threads \ {p} : stage'[u] = stage[u]
    BY DEF Spawn, SpawnNext, Create, TypeOK
  <2>2. stage'[p] # "unborn" /\ stage'[t] = "running" /\ busy'[p] = busy[p]
    BY <1>1, <1>3, <2>1
  <2>3. \A u \in Threads \ {t, p} : busy'[u] = busy[u] /\ held'[u] = held[u]
    BY <1>2, <1>3
  <2>4. QED
    BY <1>1, <1>4, <2>1, <2>2, <2>3 DEF BornInv
<1>9. QED
  BY <1>6, <1>7, <1>8 DEF BornInv

LEMMA AwaitNames ==
  ASSUME TypeOK, BornInv, NEW t \in Threads, NEW p \in Promises, BeginAwait(t, p)
  PROVE  Shrinks /\ BornInv'
<1>1. /\ stage' = stage /\ held' = held /\ shared' = shared
      /\ p \in held[t] /\ stage[t] = "running"
      /\ busy'[t] = Await(p) /\ \A u \in Threads \ {t} : busy'[u] = busy[u]
  BY DEF BeginAwait, Running, TypeOK
<1>2. Range(busy'[t].todo) = {p}
  <2>1. Range(<<p>>) = {p}
    BY DEF Range
  <2>2. QED
    BY <1>1, <2>1, AwaitCall
<1>3. \A u \in Threads : Named(u)' \subseteq Named(u)
  BY <1>1, <1>2 DEF Named
<1>4. QED
  BY <1>1, <1>3 DEF Shrinks, BornInv

LEMMA JoinNames ==
  ASSUME TypeOK, BornInv, NEW t \in Threads, LeaveReceipt(t)
  PROVE  Joins /\ BornInv'
<1>1. /\ stage' = stage /\ shared' = shared /\ stage[t] # "unborn"
      /\ busy[t].todo # <<>> /\ busy[t].todo \in Seq(Promises) /\ busy[t] \in Calls
      /\ Joined(t) \in Promises /\ Joined(t) \in Threads
      /\ held'[t] = held[t] \union held[Joined(t)]
      /\ \A u \in Threads \ {t} : held'[u] = held[u] /\ busy'[u] = busy[u]
  BY JoinedIsPromise, CallFields DEF LeaveReceipt, At, Running, TypeOK
<1>2. busy'[t].todo = Tail(busy[t].todo) \/ busy'[t].todo = <<>>
  BY <1>1, JoinedFields, IdleCall DEF LeaveReceipt, TypeOK
<1>3. Joined(t) \in Range(busy[t].todo) /\ Range(busy'[t].todo) \subseteq Range(busy[t].todo)
  BY <1>1, <1>2, RangeFacts DEF Joined
<1>4. /\ Joined(t) \in Named(t)
      /\ Named(t)' \subseteq Named(t) \union Named(Joined(t))
      /\ \A u \in Threads \ {t} : Named(u)' \subseteq Named(u)
  BY <1>1, <1>3 DEF Named
<1>5. Joins
  BY <1>1, <1>4 DEF Joins
<1>6. \A u \in Threads : \A q \in Named(u)' : stage'[q] # "unborn"
  BY <1>1, <1>4 DEF BornInv
<1>7. /\ \A u \in Threads : stage'[u] = "unborn" => busy'[u] = Idle /\ held'[u] = {}
      /\ \A u \in Threads : stage'[u] = "born" => busy'[u] = Idle
  <2>1. stage[t] = "running"
    BY DEF LeaveReceipt, At, Running
  <2>2. QED
    BY <1>1, <2>1 DEF BornInv
<1>8. QED
  BY <1>5, <1>6, <1>7 DEF BornInv

LEMMA HandOnNames ==
  ASSUME TypeOK, BornInv, NEW t \in Threads, NEW u \in Threads, HandOn(t, u)
  PROVE  shared' /\ BornInv'
<1>1. /\ shared' /\ stage' = stage /\ busy' = busy /\ stage[u] # "unborn"
      /\ held'[u] = held[u] \union held[t]
      /\ \A v \in Threads \ {u} : held'[v] = held[v]
  BY DEF HandOn, Running, TypeOK
<1>2. \A v \in Threads : \A q \in Named(v)' : q \in Named(v) \/ q \in Named(t)
  BY <1>1 DEF Named
<1>3. QED
  BY <1>1, <1>2 DEF BornInv

LEMMA NamesNext == TypeOK /\ BornInv /\ NoRing /\ [Next]_vars => BornInv' /\ NoRing'
<1> SUFFICES ASSUME TypeOK, BornInv, NoRing, [Next]_vars PROVE BornInv' /\ NoRing'
  OBVIOUS
<1>1. ASSUME NEW t \in Threads, Own(t) PROVE BornInv' /\ NoRing'
  BY <1>1, OwnNames, ShrinksKeeps
<1>2. ASSUME NEW t \in Threads, NEW p \in Promises, Spawn(t, p) \/ SpawnNext(t, p)
      PROVE  BornInv' /\ NoRing'
  BY <1>2, SpawnNames, BirthsKeep
<1>3. ASSUME NEW t \in Threads, NEW p \in Promises, BeginAwait(t, p) PROVE BornInv' /\ NoRing'
  BY <1>3, AwaitNames, ShrinksKeeps
<1>4. ASSUME NEW t \in Threads, LeaveReceipt(t) PROVE BornInv' /\ NoRing'
  BY <1>4, JoinNames, JoinsKeep
<1>5. ASSUME NEW t \in Threads, NEW u \in Threads, HandOn(t, u) PROVE BornInv' /\ NoRing'
  BY <1>5, HandOnNames DEF NoRing
<1>6. ASSUME UNCHANGED vars PROVE BornInv' /\ NoRing'
  BY <1>6 DEF vars, BornInv, NoRing, Named
<1>7. ASSUME NEW t \in Threads, Step(t) PROVE BornInv' /\ NoRing'
  BY <1>1, <1>2, <1>3, <1>4, <1>7, OwnSteps DEF Step
<1>8. ASSUME NEW p \in Promises, Begin(p) \/ Panic(p) PROVE BornInv' /\ NoRing'
  BY <1>1, <1>8, OwnSteps, ThreadsArePromisesAndMain
<1>9. QED
  BY <1>5, <1>6, <1>7, <1>8 DEF Next, Spin, Over

LEMMA NamesInit == Init => BornInv /\ NoRing
<1> SUFFICES ASSUME Init PROVE BornInv /\ NoRing
  OBVIOUS
<1>1. \A t \in Threads : busy[t] = Idle /\ held[t] = {} /\ Named(t) = {}
  BY IdleCall DEF Init, Named, Range
<1>2. QED
  BY <1>1 DEF BornInv, NoRing

\* For any number of promises: unless some travel over channels, no set of threads
\* waits in a ring.
THEOREM PromiseNoRingOfWaits == Spec => []NoRingOfWaits
<1>1. TypeOK /\ NoRing => NoRingOfWaits
  <2> SUFFICES ASSUME TypeOK, NoRing, ~shared, NEW S \in SUBSET Threads, S # {}
               PROVE  \E t \in S : \A p \in S : ~WaitsFor(t, p)
    BY DEF NoRingOfWaits
  <2>1. PICK t \in S : Named(t) \intersect S = {}
    BY DEF NoRing
  <2>2. busy[t].todo \in Seq(Promises)
    BY CallFields DEF TypeOK
  <2>3. busy[t].todo # <<>> => Head(busy[t].todo) \in Range(busy[t].todo)
    BY <2>2, RangeFacts
  <2>4. \A p : WaitsFor(t, p) => p \in Named(t)
    BY <2>3 DEF WaitsFor, Joined, Named
  <2>5. QED
    BY <2>1, <2>4
<1>2. QED
  BY <1>1, TypeInit, TypeNext, NamesInit, NamesNext, PTL DEF Spec

-----------------------------------------------------------------------------
(* Receipts: the result of a promise is in its slot, with one thread that     *)
(* joins it, or named by one receipt                                          *)

\* t has taken the result of the promise it joins.
Took(t) == busy[t].at \in {"digest", "receipt"}

TokensInSlots == \A p \in Promises : slot[p] = "ok" => stage[p] = "ok"
TokensTaken ==
  \A t \in Threads : Took(t) =>
    /\ busy[t].todo # <<>>
    /\ stage[Joined(t)] = "ok" /\ slot[Joined(t)] = "none"
    /\ busy[t].at = "receipt" => busy[t].run = Len(trace[Joined(t)])
    /\ Joined(t) \notin Receipted
    /\ \A u \in Threads : Took(u) /\ Joined(u) = Joined(t) => u = t
TokensSpent == \A p \in Receipted : slot[p] = "none"
Tokens == TokensInSlots /\ TokensTaken /\ TokensSpent

\* A thread gets a new event.
LEMMA Appended ==
  ASSUME TypeOK, NEW t \in Threads, NEW e \in Events, trace' = [trace EXCEPT ![t] = Append(@, e)]
  PROVE  /\ \A u \in Threads \ {t} : trace'[u] = trace[u]
         /\ Len(trace[t]) \in Nat /\ DOMAIN trace[t] = 1 .. Len(trace[t])
         /\ Len(trace'[t]) = Len(trace[t]) + 1 /\ DOMAIN trace'[t] = 1 .. Len(trace[t]) + 1
         /\ \A i \in 1 .. Len(trace[t]) : trace'[t][i] = trace[t][i]
         /\ trace'[t][Len(trace[t]) + 1] = e
<1>1. trace[t] \in Seq(Events) /\ trace'[t] = Append(trace[t], e)
  BY DEF TypeOK
<1>2. QED
  BY <1>1 DEF TypeOK

LEMMA ReceiptsNamePromises ==
  ASSUME TypeOK
  PROVE  \A t \in Threads : \A i \in DOMAIN trace[t] :
           trace[t][i].t = "child_receipt" => trace[t][i].of \in Promises
<1> SUFFICES ASSUME NEW t \in Threads, NEW i \in DOMAIN trace[t], trace[t][i].t = "child_receipt"
             PROVE  trace[t][i].of \in Promises
  OBVIOUS
<1>1. trace[t][i] \in Events
  BY DEF TypeOK
<1>2. QED
  BY <1>1 DEF Events

\* A thread that has taken no result does something else than take one.
Quiet(t) ==
  /\ stage[t] # "ok" /\ ~Took(t) /\ ~Took(t)'
  /\ \A u \in Threads \ {t} : /\ busy'[u] = busy[u]
                              /\ stage[u] # "unborn" => stage'[u] = stage[u]
  /\ \A p \in Promises \ {t} : slot'[p] \in {slot[p], "none"}
  /\ t \in Promises => slot'[t] \in {slot[t], stage'[t], "none"}
  /\ \/ trace' = trace
     \/ \E e \in Events : e.t # "child_receipt" /\ trace' = [trace EXCEPT ![t] = Append(@, e)]

LEMMA QuietTraces ==
  ASSUME TypeOK, NEW t \in Threads, Quiet(t)
  PROVE  /\ \A u \in Threads : u # t => trace'[u] = trace[u]
         /\ \A u \in Threads : \A i \in DOMAIN trace[u] : i \in DOMAIN trace'[u] /\ trace'[u][i] = trace[u][i]
         /\ \A u \in Threads : \A i \in DOMAIN trace'[u] : trace'[u][i].t = "child_receipt" =>
              i \in DOMAIN trace[u] /\ trace'[u][i] = trace[u][i]
         /\ Receipted' = Receipted
<1>1. CASE trace' = trace
  BY <1>1 DEF Receipted
<1>2. CASE \E e \in Events : e.t # "child_receipt" /\ trace' = [trace EXCEPT ![t] = Append(@, e)]
  <2>1. PICK e \in Events : e.t # "child_receipt" /\ trace' = [trace EXCEPT ![t] = Append(@, e)]
    BY <1>2
  <2>2. /\ \A u \in Threads \ {t} : trace'[u] = trace[u]
        /\ DOMAIN trace[t] = 1 .. Len(trace[t]) /\ Len(trace[t]) \in Nat
        /\ DOMAIN trace'[t] = 1 .. Len(trace[t]) + 1
        /\ \A i \in 1 .. Len(trace[t]) : trace'[t][i] = trace[t][i]
        /\ trace'[t][Len(trace[t]) + 1] = e
    BY <2>1, Appended
  <2>3. \A i \in DOMAIN trace'[t] : i \in DOMAIN trace[t] \/ i = Len(trace[t]) + 1
    BY <2>2
  <2>4. \A i \in DOMAIN trace[t] : i \in DOMAIN trace'[t] /\ trace'[t][i] = trace[t][i]
    BY <2>2
  <2>5. \A u \in Threads : \A i \in DOMAIN trace[u] : i \in DOMAIN trace'[u] /\ trace'[u][i] = trace[u][i]
    BY <2>2, <2>4
  <2>6. \A i \in DOMAIN trace'[t] : trace'[t][i].t = "child_receipt" =>
          i \in DOMAIN trace[t] /\ trace'[t][i] = trace[t][i]
    BY <2>1, <2>2, <2>3, <2>4
  <2>7. \A u \in Threads : \A i \in DOMAIN trace'[u] : trace'[u][i].t = "child_receipt" =>
          i \in DOMAIN trace[u] /\ trace'[u][i] = trace[u][i]
    BY <2>2, <2>6
  <2>8. Receipted' = Receipted
    BY <2>5, <2>7 DEF Receipted
  <2>9. QED
    BY <2>2, <2>5, <2>7, <2>8
<1>3. QED
  BY <1>1, <1>2 DEF Quiet

LEMMA QuietKeeps ==
  ASSUME TypeOK, Tokens, ReceiptsAreWhole, NEW t \in Threads, Quiet(t)
  PROVE  Tokens' /\ ReceiptsAreWhole'
<1>1. \A p \in Promises : stage[p] = "ok" => p # t /\ stage'[p] = "ok" /\ trace'[p] = trace[p]
  BY QuietTraces, ThreadsArePromisesAndMain DEF Quiet
<1>2. \A u \in Threads : Took(u)' => Took(u) /\ busy'[u] = busy[u] /\ Joined(u)' = Joined(u)
  BY DEF Quiet, Took, Joined
<1>3. \A u \in Threads : Took(u) => Joined(u) \in Promises
  BY JoinedIsPromise DEF Tokens, TokensTaken
<1>4. \A p \in Promises : stage[p] = "ok" /\ slot[p] = "none" => slot'[p] = "none"
  BY DEF Quiet
<1>5. TokensInSlots'
  <2> SUFFICES ASSUME NEW p \in Promises, slot'[p] = "ok" PROVE stage'[p] = "ok"
    BY DEF TokensInSlots
  <2>1. CASE p = t
    BY <2>1 DEF Quiet, Tokens, TokensInSlots
  <2>2. CASE p # t
    <3>1. slot[p] = "ok"
      BY <2>2 DEF Quiet
    <3>2. QED
      BY <1>1, <3>1 DEF Tokens, TokensInSlots
  <2>3. QED
    BY <2>1, <2>2
<1>6. Receipted' = Receipted
  BY QuietTraces
<1>7. TokensTaken'
  <2> SUFFICES ASSUME NEW u \in Threads, Took(u)'
               PROVE  /\ busy'[u].todo # <<>>
                      /\ stage'[Joined(u)'] = "ok" /\ slot'[Joined(u)'] = "none"
                      /\ busy'[u].at = "receipt" => busy'[u].run = Len(trace'[Joined(u)'])
                      /\ Joined(u)' \notin Receipted'
                      /\ \A v \in Threads : Took(v)' /\ Joined(v)' = Joined(u)' => v = u
    BY DEF TokensTaken
  <2>1. Took(u) /\ busy'[u] = busy[u] /\ Joined(u)' = Joined(u) /\ Joined(u) \in Promises
    BY <1>2, <1>3
  <2>2. /\ busy[u].todo # <<>>
        /\ stage[Joined(u)] = "ok" /\ slot[Joined(u)] = "none"
        /\ busy[u].at = "receipt" => busy[u].run = Len(trace[Joined(u)])
        /\ Joined(u) \notin Receipted
        /\ \A v \in Threads : Took(v) /\ Joined(v) = Joined(u) => v = u
    BY <2>1 DEF Tokens, TokensTaken
  <2>3. stage'[Joined(u)] = "ok" /\ slot'[Joined(u)] = "none" /\ trace'[Joined(u)] = trace[Joined(u)]
    BY <1>1, <1>4, <2>1, <2>2
  <2>4. \A v \in Threads : Took(v)' /\ Joined(v)' = Joined(u)' => v = u
    BY <1>2, <2>1, <2>2
  <2>5. QED
    BY <1>6, <2>1, <2>2, <2>3, <2>4
<1>8. \A v \in Threads : \A i \in DOMAIN trace[v] : trace[v][i].t = "child_receipt" =>
        /\ trace[v][i].of \in Promises /\ trace[v][i].of \in Receipted
        /\ stage[trace[v][i].of] = "ok"
  BY ReceiptsNamePromises DEF ReceiptsAreWhole, Receipted
<1>9. TokensSpent'
  <2> SUFFICES ASSUME NEW p \in Receipted PROVE slot'[p] = "none"
    BY <1>6 DEF TokensSpent
  <2>1. p \in Promises /\ stage[p] = "ok" /\ slot[p] = "none"
    BY <1>8 DEF Tokens, TokensSpent, Receipted
  <2>2. QED
    BY <1>4, <2>1
<1>10. ReceiptsAreWhole'
  <2> SUFFICES ASSUME NEW v \in Threads, NEW i \in DOMAIN trace'[v], trace'[v][i].t = "child_receipt"
               PROVE  /\ stage'[trace'[v][i].of] = "ok"
                      /\ trace'[v][i].run = Len(trace'[trace'[v][i].of])
                      /\ \A u \in Threads : \A j \in DOMAIN trace'[u] :
                           (trace'[u][j].t = "child_receipt" /\ trace'[u][j].of = trace'[v][i].of)
                           => <<u, j>> = <<v, i>>
    BY DEF ReceiptsAreWhole
  <2>1. i \in DOMAIN trace[v] /\ trace'[v][i] = trace[v][i] /\ trace[v][i].t = "child_receipt"
    BY QuietTraces
  <2>2. /\ stage[trace[v][i].of] = "ok"
        /\ trace[v][i].run = Len(trace[trace[v][i].of])
        /\ \A u \in Threads : \A j \in DOMAIN trace[u] :
             (trace[u][j].t = "child_receipt" /\ trace[u][j].of = trace[v][i].of) => <<u, j>> = <<v, i>>
    BY <2>1 DEF ReceiptsAreWhole
  <2>3. stage'[trace[v][i].of] = "ok" /\ trace'[trace[v][i].of] = trace[trace[v][i].of]
    BY <1>1, <1>8, <2>1
  <2>4. \A u \in Threads : \A j \in DOMAIN trace'[u] :
          (trace'[u][j].t = "child_receipt" /\ trace'[u][j].of = trace'[v][i].of) => <<u, j>> = <<v, i>>
    BY <2>1, <2>2, QuietTraces
  <2>5. QED
    BY <2>1, <2>2, <2>3, <2>4
<1>11. QED
  BY <1>5, <1>7, <1>9, <1>10 DEF Tokens

LEMMA QuietSteps ==
  ASSUME TypeOK, BornInv, NEW t \in Threads,
         \/ Emit(t) \/ End(t) \/ BeginSpawnOrdered(t) \/ SpawnBad(t) \/ SpawnedAll(t) \/ Ordered(t)
         \/ PanicPoisoned(t) \/ Check(t) \/ TakeError(t) \/ TakeNothing(t)
         \/ t \in Promises /\ (Begin(t) \/ Panic(t))
         \/ \E p \in Promises : Spawn(t, p) \/ SpawnNext(t, p) \/ BeginAwait(t, p)
  PROVE  Quiet(t)
<1>a. /\ Idle.at = "check"
      /\ stage \in [Threads -> {"unborn", "born", "running", "ok", "err", "panicked"}]
      /\ busy \in [Threads -> Calls] /\ slot \in [Promises -> {"none", "ok", "err"}]
      /\ busy[t] \in Calls
  BY IdleCall DEF TypeOK
<1>1. ASSUME Emit(t) PROVE Quiet(t)
  <2>1. Emitted \in Events /\ Emitted.t # "child_receipt"
    BY EventTypes DEF Emitted
  <2>2. QED
    BY <1>1, <1>a, <2>1 DEF Emit, Running, Quiet, Took
<1>2. ASSUME End(t) PROVE Quiet(t)
  BY <1>2, <1>a DEF End, Stop, Running, Quiet, Took
<1>3. ASSUME BeginSpawnOrdered(t) PROVE Quiet(t)
  <2>1. PICK n \in 0 .. Spare, bad \in BOOLEAN : busy' = [busy EXCEPT ![t] = SpawnOrdered(n, bad)]
    BY <1>3 DEF BeginSpawnOrdered
  <2>2. n \in Nat
    OBVIOUS
  <2>3. SpawnOrdered(n, bad).at = "spawn"
    BY <2>2, SpawnOrderedCall
  <2>4. busy'[t].at = "spawn"
    BY <1>a, <2>1, <2>3
  <2>5. QED
    BY <1>3, <1>a, <2>1, <2>4 DEF BeginSpawnOrdered, Running, Quiet, Took
<1>4. ASSUME SpawnBad(t) PROVE Quiet(t)
  BY <1>4, <1>a DEF SpawnBad, Stop, Running, Quiet, Took
<1>5. ASSUME SpawnedAll(t) PROVE Quiet(t)
  BY <1>5, <1>a, AtFields DEF SpawnedAll, Running, Quiet, Took
<1>6. ASSUME Ordered(t) PROVE Quiet(t)
  <2>1. Complete(busy[t].got) \in Events /\ Complete(busy[t].got).t # "child_receipt"
    BY <1>a, CallFields, EventTypes DEF Complete
  <2>2. QED
    BY <1>6, <1>a, <2>1 DEF Ordered, Running, Quiet, Took
<1>7. ASSUME PanicPoisoned(t) PROVE Quiet(t)
  BY <1>7, <1>a DEF PanicPoisoned, Stop, At, Running, Quiet, Took
<1>8. ASSUME Check(t) PROVE Quiet(t)
  BY <1>8, <1>a, AtFields DEF Check, At, Running, Quiet, Took
<1>9. ASSUME TakeError(t) PROVE Quiet(t)
  <2>1. \A u \in Promises : slot'[u] = IF u = Joined(t) THEN "none" ELSE IF u = t THEN "err" ELSE slot[u]
    BY <1>9 DEF TakeError
  <2>2. stage[t] = "running" /\ stage' = [stage EXCEPT ![t] = "err"] /\ slot[Joined(t)] = "err"
    BY <1>9 DEF TakeError, At, Running
  <2>3. t \in Promises => slot'[t] \in {slot[t], stage'[t], "none"}
    BY <2>1, <2>2, <1>a
  <2>4. \A p \in Promises \ {t} : slot'[p] \in {slot[p], "none"}
    BY <2>1
  <2>5. QED
    BY <1>9, <1>a, <2>2, <2>3, <2>4 DEF TakeError, At, Quiet, Took
<1>10. ASSUME TakeNothing(t) PROVE Quiet(t)
  BY <1>10, <1>a DEF TakeNothing, Stop, At, Running, Quiet, Took
<1>11. ASSUME t \in Promises, Begin(t) PROVE Quiet(t)
  <2>1. ~Took(t)
    BY <1>11, <1>a, IdleCall DEF Begin, Took, BornInv
  <2>2. QED
    BY <1>11, <1>a, <2>1 DEF Begin, Quiet, Took
<1>12. ASSUME t \in Promises, Panic(t) PROVE Quiet(t)
  BY <1>12, <1>a DEF Panic, Stop, Running, Quiet, Took
<1>13. ASSUME NEW p \in Promises, Spawn(t, p) \/ SpawnNext(t, p) PROVE Quiet(t)
  <2>1. Spawned(p) \in Events /\ Spawned(p).t # "child_receipt"
    BY EventTypes DEF Spawned
  <2>2. /\ stage[t] = "running" /\ slot' = slot
        /\ trace' = [trace EXCEPT ![t] = Append(@, Spawned(p))]
        /\ \A u \in Threads \ {t} : stage[u] # "unborn" => stage'[u] = stage[u]
    BY <1>13, <1>a DEF Spawn, SpawnNext, Running, Create, Fresh, Unborn
  <2>3. ~Took(t) /\ ~Took(t)' /\ \A u \in Threads \ {t} : busy'[u] = busy[u]
    BY <1>13, <1>a, SpawnedFields DEF Spawn, SpawnNext, Took
  <2>4. QED
    BY <2>1, <2>2, <2>3 DEF Quiet
<1>14. ASSUME NEW p \in Promises, BeginAwait(t, p) PROVE Quiet(t)
  BY <1>14, <1>a, AwaitCall DEF BeginAwait, Running, Quiet, Took
<1>15. QED
  BY <1>1, <1>2, <1>3, <1>4, <1>5, <1>6, <1>7, <1>8, <1>9, <1>10, <1>11, <1>12, <1>13, <1>14

\* Taking a result, digesting its trace and leaving the receipt.
LEMMA TakeKeeps ==
  ASSUME TypeOK, Tokens, ReceiptsAreWhole, NEW t \in Threads, Take(t)
  PROVE  Tokens' /\ ReceiptsAreWhole'
<1> DEFINE j == Joined(t)
<1>1. /\ j \in Promises /\ slot[j] = "ok" /\ busy[t].todo # <<>>
      /\ stage' = stage /\ trace' = trace
      /\ slot' = [slot EXCEPT ![j] = "none"]
      /\ busy'[t] = [busy[t] EXCEPT !.at = "digest"]
      /\ \A u \in Threads \ {t} : busy'[u] = busy[u]
  BY JoinedIsPromise DEF Take, At, TypeOK
<1>2. stage[j] = "ok" /\ slot'[j] = "none" /\ \A p \in Promises \ {j} : slot'[p] = slot[p]
  BY <1>1 DEF Tokens, TokensInSlots, TypeOK
<1>3. busy'[t].todo = busy[t].todo /\ busy'[t].at = "digest"
  BY <1>1, AtFields DEF TypeOK
<1>4. \A u \in Threads : Joined(u)' = Joined(u)
  BY <1>1, <1>3 DEF Joined
<1>5. Receipted' = Receipted /\ j \notin Receipted
  BY <1>1 DEF Tokens, TokensSpent, Receipted
<1>6. \A u \in Threads : Took(u)' => u = t \/ (Took(u) /\ Joined(u) # j /\ Joined(u) \in Promises)
  BY <1>1, JoinedIsPromise DEF Took, Tokens, TokensTaken
<1>7. TokensInSlots' /\ TokensSpent'
  BY <1>1, <1>2, <1>5 DEF Tokens, TokensInSlots, TokensSpent, Receipted
<1>8. TokensTaken'
  <2> SUFFICES ASSUME NEW u \in Threads, Took(u)'
               PROVE  /\ busy'[u].todo # <<>>
                      /\ stage'[Joined(u)'] = "ok" /\ slot'[Joined(u)'] = "none"
                      /\ busy'[u].at = "receipt" => busy'[u].run = Len(trace'[Joined(u)'])
                      /\ Joined(u)' \notin Receipted'
                      /\ \A v \in Threads : Took(v)' /\ Joined(v)' = Joined(u)' => v = u
    BY DEF TokensTaken
  <2>1. CASE u = t
    <3>1. busy'[t].todo # <<>> /\ busy'[t].at # "receipt" /\ Joined(t)' = j
      BY <1>1, <1>3, <1>4
    <3>2. stage'[j] = "ok" /\ slot'[j] = "none" /\ j \notin Receipted'
      BY <1>1, <1>2, <1>5
    <3>3. \A v \in Threads : Took(v)' /\ Joined(v)' = j => v = t
      BY <1>4, <1>6
    <3>4. QED
      BY <2>1, <3>1, <3>2, <3>3
  <2>2. CASE u # t
    <3>1. Took(u) /\ Joined(u) # j /\ Joined(u) \in Promises /\ busy'[u] = busy[u]
      BY <1>1, <1>6, <2>2
    <3>2. /\ busy[u].todo # <<>>
          /\ stage[Joined(u)] = "ok" /\ slot[Joined(u)] = "none"
          /\ busy[u].at = "receipt" => busy[u].run = Len(trace[Joined(u)])
          /\ Joined(u) \notin Receipted
          /\ \A v \in Threads : Took(v) /\ Joined(v) = Joined(u) => v = u
      BY <3>1 DEF Tokens, TokensTaken
    <3>3. \A v \in Threads : Took(v)' /\ Joined(v)' = Joined(u)' => v = u
      BY <1>4, <1>6, <3>1, <3>2
    <3>4. QED
      BY <1>1, <1>2, <1>4, <1>5, <3>1, <3>2, <3>3
  <2>3. QED
    BY <2>1, <2>2
<1>9. ReceiptsAreWhole'
  BY <1>1 DEF ReceiptsAreWhole
<1>10. QED
  BY <1>7, <1>8, <1>9 DEF Tokens

LEMMA DigestKeeps ==
  ASSUME TypeOK, Tokens, ReceiptsAreWhole, NEW t \in Threads, Digest(t)
  PROVE  Tokens' /\ ReceiptsAreWhole'
<1> DEFINE j == Joined(t)
<1>1. /\ j \in Promises /\ j \in Threads /\ Took(t)
      /\ stage' = stage /\ trace' = trace /\ slot' = slot
  BY JoinedIsPromise DEF Digest, At, Took
<1>2. /\ busy'[t].todo = busy[t].todo /\ busy'[t].at = "receipt" /\ busy'[t].run = Len(trace[j])
      /\ \A u \in Threads \ {t} : busy'[u] = busy[u]
  <2>1. Len(trace[j]) \in Nat /\ busy[t] \in Calls /\ busy \in [Threads -> Calls]
    BY <1>1 DEF TypeOK
  <2>2. QED
    BY <2>1, DigestFields DEF Digest
<1>3. \A u \in Threads : Took(u)' => /\ Took(u) /\ Joined(u)' = Joined(u)
                                    /\ busy'[u].todo = busy[u].todo
  <2>1. \A u \in Threads : busy'[u].todo = busy[u].todo
    BY <1>1, <1>2
  <2>2. \A u \in Threads : Took(u)' => Took(u)
    BY <1>1, <1>2 DEF Took
  <2>3. QED
    BY <2>1, <2>2 DEF Joined
<1>4. Receipted' = Receipted
  BY <1>1 DEF Receipted
<1>5. TokensInSlots' /\ TokensSpent'
  BY <1>1, <1>4 DEF Tokens, TokensInSlots, TokensSpent
<1>6. TokensTaken'
  <2> SUFFICES ASSUME NEW u \in Threads, Took(u)'
               PROVE  /\ busy'[u].todo # <<>>
                      /\ stage'[Joined(u)'] = "ok" /\ slot'[Joined(u)'] = "none"
                      /\ busy'[u].at = "receipt" => busy'[u].run = Len(trace'[Joined(u)'])
                      /\ Joined(u)' \notin Receipted'
                      /\ \A v \in Threads : Took(v)' /\ Joined(v)' = Joined(u)' => v = u
    BY DEF TokensTaken
  <2>1. /\ busy[u].todo # <<>>
        /\ stage[Joined(u)] = "ok" /\ slot[Joined(u)] = "none"
        /\ busy[u].at = "receipt" => busy[u].run = Len(trace[Joined(u)])
        /\ Joined(u) \notin Receipted
        /\ \A v \in Threads : Took(v) /\ Joined(v) = Joined(u) => v = u
    <3>1. Took(u)
      BY <1>3
    <3>2. QED
      BY <3>1 DEF Tokens, TokensTaken
  <2>2. busy'[u].at = "receipt" => busy'[u].run = Len(trace[Joined(u)])
    <3>1. CASE u = t
      BY <1>2, <3>1
    <3>2. CASE u # t
      BY <1>2, <2>1, <3>2
    <3>3. QED
      BY <3>1, <3>2
  <2>3. \A v \in Threads : Took(v)' /\ Joined(v)' = Joined(u)' => v = u
    BY <1>3, <2>1
  <2>4. busy'[u].todo # <<>> /\ Joined(u)' = Joined(u) /\ Joined(u) \notin Receipted'
    BY <1>3, <1>4, <2>1
  <2>5. QED
    BY <1>1, <2>1, <2>2, <2>3, <2>4
<1>7. ReceiptsAreWhole'
  BY <1>1 DEF ReceiptsAreWhole
<1>8. QED
  BY <1>5, <1>6, <1>7 DEF Tokens

LEMMA ReceiptKeeps ==
  ASSUME TypeOK, Tokens, ReceiptsAreWhole, NEW t \in Threads, LeaveReceipt(t)
  PROVE  /\ Tokens' /\ ReceiptsAreWhole'
         /\ Receipted' = Receipted \union {Joined(t)}
<1> DEFINE j == Joined(t)
<1> DEFINE e == Receipt(j, busy[t].run)
<1>1. /\ busy[t].todo # <<>> /\ j \in Promises /\ j \in Threads /\ Took(t)
      /\ stage' = stage /\ slot' = slot /\ stage[t] = "running"
      /\ busy[t].at = "receipt" /\ busy[t].run \in Nat
      /\ trace' = [trace EXCEPT ![t] = Append(@, e)]
  BY JoinedIsPromise, CallFields DEF LeaveReceipt, At, Running, Took, TypeOK
<1>2. /\ e \in Events /\ e.t = "child_receipt" /\ e.of = j /\ e.run = busy[t].run
  BY <1>1, EventTypes DEF Receipt
<1>3. /\ \A u \in Threads \ {t} : trace'[u] = trace[u]
      /\ Len(trace[t]) \in Nat /\ DOMAIN trace[t] = 1 .. Len(trace[t])
      /\ DOMAIN trace'[t] = 1 .. Len(trace[t]) + 1
      /\ \A i \in 1 .. Len(trace[t]) : trace'[t][i] = trace[t][i]
      /\ trace'[t][Len(trace[t]) + 1] = e
  BY <1>1, <1>2, Appended
<1> HIDE DEF e
<1>4. /\ \A u \in Threads : \A i \in DOMAIN trace[u] : i \in DOMAIN trace'[u] /\ trace'[u][i] = trace[u][i]
      /\ \A u \in Threads : \A i \in DOMAIN trace'[u] :
           \/ i \in DOMAIN trace[u] /\ trace'[u][i] = trace[u][i]
           \/ u = t /\ i = Len(trace[t]) + 1 /\ trace'[u][i] = e
  <2>1. \A i \in DOMAIN trace[t] : i \in DOMAIN trace'[t] /\ trace'[t][i] = trace[t][i]
    BY <1>3
  <2>2. \A i \in DOMAIN trace'[t] : \/ i \in DOMAIN trace[t] /\ trace'[t][i] = trace[t][i]
                                    \/ i = Len(trace[t]) + 1 /\ trace'[t][i] = e
    BY <1>3
  <2>3. QED
    BY <1>3, <2>1, <2>2
<1>5. Len(trace[t]) + 1 \in DOMAIN trace'[t] /\ Len(trace[t]) + 1 \notin DOMAIN trace[t]
  BY <1>3
<1>6. Receipted' = Receipted \union {j}
  <2>1. ASSUME NEW p \in Receipted PROVE p \in Receipted'
    BY <1>4, <2>1 DEF Receipted
  <2>2. j \in Receipted'
    BY <1>1, <1>2, <1>3, <1>5 DEF Receipted
  <2>3. ASSUME NEW p \in Receipted', p # j PROVE p \in Receipted
    BY <1>2, <1>4, <2>3 DEF Receipted
  <2>4. QED
    BY <2>1, <2>2, <2>3
<1>7. /\ stage[j] = "ok" /\ slot[j] = "none" /\ busy[t].run = Len(trace[j]) /\ j \notin Receipted
      /\ \A u \in Threads : Took(u) /\ Joined(u) = j => u = t
  BY <1>1 DEF Tokens, TokensTaken
<1>8. \A p \in Promises : stage[p] = "ok" => p # t /\ trace'[p] = trace[p]
  BY <1>1, <1>3, ThreadsArePromisesAndMain
<1>9. /\ \A u \in Threads \ {t} : busy'[u] = busy[u]
      /\ busy'[t].at = "check"
  BY <1>1, IdleCall, JoinedFields DEF LeaveReceipt, TypeOK
<1>10. \A u \in Threads : Took(u)' =>
         /\ u # t /\ Took(u) /\ busy'[u] = busy[u] /\ Joined(u)' = Joined(u)
         /\ Joined(u) \in Promises /\ Joined(u) # j
  BY <1>7, <1>9, JoinedIsPromise DEF Took, Joined, Tokens, TokensTaken
<1>11. TokensInSlots' /\ TokensSpent'
  BY <1>1, <1>6, <1>7 DEF Tokens, TokensInSlots, TokensSpent
<1>12. TokensTaken'
  <2> SUFFICES ASSUME NEW u \in Threads, Took(u)'
               PROVE  /\ busy'[u].todo # <<>>
                      /\ stage'[Joined(u)'] = "ok" /\ slot'[Joined(u)'] = "none"
                      /\ busy'[u].at = "receipt" => busy'[u].run = Len(trace'[Joined(u)'])
                      /\ Joined(u)' \notin Receipted'
                      /\ \A v \in Threads : Took(v)' /\ Joined(v)' = Joined(u)' => v = u
    BY DEF TokensTaken
  <2>1. /\ u # t /\ Took(u) /\ busy'[u] = busy[u] /\ Joined(u)' = Joined(u)
        /\ Joined(u) \in Promises /\ Joined(u) # j
    BY <1>10
  <2>2. /\ busy[u].todo # <<>>
        /\ stage[Joined(u)] = "ok" /\ slot[Joined(u)] = "none"
        /\ busy[u].at = "receipt" => busy[u].run = Len(trace[Joined(u)])
        /\ Joined(u) \notin Receipted
        /\ \A v \in Threads : Took(v) /\ Joined(v) = Joined(u) => v = u
    BY <2>1 DEF Tokens, TokensTaken
  <2>3. trace'[Joined(u)] = trace[Joined(u)]
    BY <1>8, <2>1, <2>2
  <2>4. \A v \in Threads : Took(v)' /\ Joined(v)' = Joined(u)' => v = u
    BY <1>10, <2>1, <2>2
  <2>5. QED
    BY <1>1, <1>6, <2>1, <2>2, <2>3, <2>4
<1>13. ReceiptsAreWhole'
  <2> SUFFICES ASSUME NEW v \in Threads, NEW i \in DOMAIN trace'[v], trace'[v][i].t = "child_receipt"
               PROVE  /\ stage'[trace'[v][i].of] = "ok"
                      /\ trace'[v][i].run = Len(trace'[trace'[v][i].of])
                      /\ \A u \in Threads : \A k \in DOMAIN trace'[u] :
                           (trace'[u][k].t = "child_receipt" /\ trace'[u][k].of = trace'[v][i].of)
                           => <<u, k>> = <<v, i>>
    BY DEF ReceiptsAreWhole
  <2>1. CASE i \in DOMAIN trace[v] /\ trace'[v][i] = trace[v][i]
    <3>1. /\ stage[trace[v][i].of] = "ok"
          /\ trace[v][i].run = Len(trace[trace[v][i].of])
          /\ \A u \in Threads : \A k \in DOMAIN trace[u] :
               (trace[u][k].t = "child_receipt" /\ trace[u][k].of = trace[v][i].of) => <<u, k>> = <<v, i>>
          /\ trace[v][i].of \in Promises /\ trace[v][i].of \in Receipted
      BY <2>1, ReceiptsNamePromises DEF ReceiptsAreWhole, Receipted
    <3>2. trace'[trace[v][i].of] = trace[trace[v][i].of] /\ trace[v][i].of # j
      BY <1>7, <1>8, <3>1
    <3>3. \A u \in Threads : \A k \in DOMAIN trace'[u] :
            (trace'[u][k].t = "child_receipt" /\ trace'[u][k].of = trace[v][i].of) => <<u, k>> = <<v, i>>
      BY <1>2, <1>4, <3>1, <3>2
    <3>4. QED
      BY <1>1, <2>1, <3>1, <3>2, <3>3
  <2>2. CASE v = t /\ i = Len(trace[t]) + 1 /\ trace'[v][i] = e
    <3>1. \A u \in Threads : \A k \in DOMAIN trace[u] :
            ~(trace[u][k].t = "child_receipt" /\ trace[u][k].of = j)
      BY <1>1, <1>7 DEF Receipted
    <3>2. \A u \in Threads : \A k \in DOMAIN trace'[u] :
            (trace'[u][k].t = "child_receipt" /\ trace'[u][k].of = j) => u = t /\ k = Len(trace[t]) + 1
      BY <1>4, <3>1
    <3>3. trace'[j] = trace[j]
      BY <1>1, <1>7, <1>8
    <3>4. QED
      BY <1>1, <1>2, <1>7, <2>2, <3>2, <3>3
  <2>3. QED
    BY <1>4, <2>1, <2>2
<1>14. QED
  BY <1>6, <1>11, <1>12, <1>13 DEF Tokens

LEMMA ReceiptsNext ==
  TypeOK /\ BornInv /\ Tokens /\ ReceiptsAreWhole /\ [Next]_vars => Tokens' /\ ReceiptsAreWhole'
<1> SUFFICES ASSUME TypeOK, BornInv, Tokens, ReceiptsAreWhole, [Next]_vars
             PROVE  Tokens' /\ ReceiptsAreWhole'
  OBVIOUS
<1>1. ASSUME NEW t \in Threads, Quiet(t) PROVE Tokens' /\ ReceiptsAreWhole'
  BY <1>1, QuietKeeps
<1>2. ASSUME NEW t \in Threads, Take(t) \/ Digest(t) \/ LeaveReceipt(t) PROVE Tokens' /\ ReceiptsAreWhole'
  BY <1>2, TakeKeeps, DigestKeeps, ReceiptKeeps
<1>3. ASSUME UNCHANGED <<stage, busy, slot, trace>> PROVE Tokens' /\ ReceiptsAreWhole'
  BY <1>3 DEF Tokens, TokensInSlots, TokensTaken, TokensSpent, ReceiptsAreWhole, Receipted, Took, Joined
<1>4. ASSUME NEW t \in Threads, Step(t) PROVE Tokens' /\ ReceiptsAreWhole'
  BY <1>1, <1>2, <1>4, QuietSteps DEF Step
<1>5. ASSUME NEW p \in Promises, Begin(p) \/ Panic(p) PROVE Tokens' /\ ReceiptsAreWhole'
  BY <1>1, <1>5, QuietSteps, ThreadsArePromisesAndMain
<1>6. ASSUME NEW t \in Threads, NEW u \in Threads, HandOn(t, u) PROVE Tokens' /\ ReceiptsAreWhole'
  BY <1>3, <1>6 DEF HandOn
<1>7. QED
  BY <1>3, <1>4, <1>5, <1>6 DEF Next, Spin, Over, vars

LEMMA ReceiptsInit == Init => Tokens /\ ReceiptsAreWhole
<1> SUFFICES ASSUME Init PROVE Tokens /\ ReceiptsAreWhole
  OBVIOUS
<1>1. \A t \in Threads : ~Took(t) /\ DOMAIN trace[t] = {}
  BY IdleCall DEF Init, Took
<1>2. Receipted = {} /\ \A p \in Promises : slot[p] = "none"
  BY <1>1 DEF Receipted, Init
<1>3. QED
  BY <1>1, <1>2 DEF Tokens, TokensInSlots, TokensTaken, TokensSpent, ReceiptsAreWhole

\* For any number of promises: no promise gets a second receipt, and the one it gets
\* names its whole trace.
THEOREM PromiseReceiptsAreWhole == Spec => []ReceiptsAreWhole
<1>1. QED
  BY TypeInit, TypeNext, NamesInit, NamesNext, ReceiptsInit, ReceiptsNext, PTL DEF Spec

-----------------------------------------------------------------------------
(* What joins leave behind: trace files *)

\* Neither a trace file nor who has begun changes.
Still ==
  /\ file' = file
  /\ \A p \in Promises : stage'[p] \in {"unborn", "born"} <=> stage[p] \in {"unborn", "born"}

LEMMA StillSteps ==
  ASSUME TypeOK, NEW t \in Threads,
         \/ Emit(t) \/ End(t) \/ BeginSpawnOrdered(t) \/ SpawnBad(t) \/ SpawnedAll(t) \/ Ordered(t)
         \/ PanicPoisoned(t) \/ Check(t) \/ TakeError(t) \/ TakeNothing(t)
         \/ t \in Promises /\ Panic(t)
         \/ \E p \in Promises : Spawn(t, p) \/ SpawnNext(t, p) \/ BeginAwait(t, p)
  PROVE  Still
<1>a. stage \in [Threads -> {"unborn", "born", "running", "ok", "err", "panicked"}]
  BY DEF TypeOK
<1>1. CASE stage' = stage /\ file' = file
  BY <1>1 DEF Still
<1>2. ASSUME NEW how \in {"ok", "err", "panicked"},
             stage[t] = "running", stage' = [stage EXCEPT ![t] = how], file' = file
      PROVE  Still
  BY <1>2, <1>a DEF Still
<1>3. ASSUME NEW p \in Promises, stage[p] = "unborn", stage' = [stage EXCEPT ![p] = "born"], file' = file
      PROVE  Still
  BY <1>3, <1>a DEF Still
<1>4. CASE Emit(t) \/ BeginSpawnOrdered(t) \/ SpawnedAll(t) \/ Ordered(t) \/ Check(t)
  BY <1>1, <1>4 DEF Emit, BeginSpawnOrdered, SpawnedAll, Ordered, Check
<1>5. CASE End(t) \/ SpawnBad(t) \/ PanicPoisoned(t) \/ TakeError(t) \/ TakeNothing(t) \/ Panic(t)
  BY <1>2, <1>5 DEF End, SpawnBad, PanicPoisoned, TakeError, TakeNothing, Panic, Stop, At, Running
<1>6. CASE \E p \in Promises : Spawn(t, p) \/ SpawnNext(t, p)
  BY <1>3, <1>6 DEF Spawn, SpawnNext, Create, Fresh, Unborn
<1>7. CASE \E p \in Promises : BeginAwait(t, p)
  BY <1>1, <1>7 DEF BeginAwait
<1>8. QED
  BY <1>4, <1>5, <1>6, <1>7

\* The promises that somebody is about to leave a receipt for.
Digested == {p \in Promises : \E t \in Threads : WaitsFor(t, p) /\ busy[t].at = "receipt"}

LEMMA FilesLeftIs ==
  FilesLeft <=> \A p \in Promises :
    file[p] <=> stage[p] \notin {"unborn", "born"} /\ p \notin Receipted /\ p \notin Digested
  BY DEF FilesLeft, Digested

LEMMA QuietDigested ==
  ASSUME NEW t \in Threads, Quiet(t) PROVE Digested' = Digested
<1>1. \A u \in Threads, p \in Promises :
        (WaitsFor(u, p) /\ busy[u].at = "receipt")' <=> (WaitsFor(u, p) /\ busy[u].at = "receipt")
  BY DEF Quiet, Took, WaitsFor, Joined
<1>2. QED
  BY <1>1 DEF Digested

LEMMA FilesNext ==
  TypeOK /\ BornInv /\ Tokens /\ ReceiptsAreWhole /\ FilesLeft /\ [Next]_vars => FilesLeft'
<1> SUFFICES ASSUME TypeOK, BornInv, Tokens, ReceiptsAreWhole, FilesLeft, [Next]_vars PROVE FilesLeft'
  OBVIOUS
<1>1. ASSUME NEW t \in Threads, Quiet(t), Still PROVE FilesLeft'
  <2>1. Receipted' = Receipted /\ Digested' = Digested
    BY <1>1, QuietTraces, QuietDigested
  <2>2. QED
    BY <1>1, <2>1, FilesLeftIs DEF Still, FilesLeft, Digested
<1>2. ASSUME NEW p \in Promises, Begin(p) PROVE FilesLeft'
  <2>1. Quiet(p) /\ p \in Threads
    BY <1>2, QuietSteps, ThreadsArePromisesAndMain
  <2>2. Receipted' = Receipted /\ Digested' = Digested
    BY <2>1, QuietTraces, QuietDigested
  <2>3. stage[p] = "born" /\ stage'[p] = "running" /\ file'[p]
        /\ \A q \in Promises \ {p} : stage'[q] = stage[q] /\ file'[q] = file[q]
    BY <1>2, <2>1 DEF Begin, TypeOK
  <2>4. p \notin Receipted
    BY <2>3 DEF ReceiptsAreWhole, Receipted
  <2>5. p \notin Digested
    BY <2>3 DEF Digested, Tokens, TokensTaken, Took, WaitsFor
  <2>6. QED
    BY <2>2, <2>3, <2>4, <2>5 DEF FilesLeft, Digested
<1>3. ASSUME NEW t \in Threads, Take(t) PROVE FilesLeft'
  <2>1. /\ file' = file /\ stage' = stage /\ trace' = trace
        /\ busy[t].at = "take" /\ busy'[t].at = "digest"
        /\ \A u \in Threads \ {t} : busy'[u] = busy[u]
    BY <1>3, AtFields DEF Take, At, TypeOK
  <2>2. Receipted' = Receipted
    BY <2>1 DEF Receipted
  <2>3. Digested' = Digested
    BY <2>1 DEF Digested, WaitsFor, Joined
  <2>4. QED
    BY <2>1, <2>2, <2>3 DEF FilesLeft, Digested
<1>4. ASSUME NEW t \in Threads, Digest(t) PROVE FilesLeft'
  <2>1. /\ stage' = stage /\ trace' = trace
        /\ busy[t].at = "digest" /\ busy[t].todo # <<>>
        /\ Joined(t) \in Promises /\ Joined(t) \in Threads
    BY <1>4, JoinedIsPromise DEF Digest, At
  <2>2. /\ busy'[t].at = "receipt" /\ busy'[t].todo = busy[t].todo
        /\ \A u \in Threads \ {t} : busy'[u] = busy[u]
    <3>1. Len(trace[Joined(t)]) \in Nat /\ busy[t] \in Calls /\ busy \in [Threads -> Calls]
      BY <2>1 DEF TypeOK
    <3>2. QED
      BY <1>4, <3>1, DigestFields DEF Digest
  <2>3. ~file'[Joined(t)] /\ \A p \in Promises \ {Joined(t)} : file'[p] = file[p]
    BY <1>4, <2>1 DEF Digest, TypeOK
  <2>4. Receipted' = Receipted
    BY <2>1 DEF Receipted
  <2>5. Digested' = Digested \union {Joined(t)}
    <3>1. \A p \in Promises : (WaitsFor(t, p) /\ busy[t].at = "receipt")' <=> p = Joined(t)
      BY <2>1, <2>2 DEF WaitsFor, Joined
    <3>2. \A p \in Promises : ~(WaitsFor(t, p) /\ busy[t].at = "receipt")
      BY <2>1
    <3>3. \A u \in Threads \ {t}, p \in Promises :
            (WaitsFor(u, p) /\ busy[u].at = "receipt")' <=> (WaitsFor(u, p) /\ busy[u].at = "receipt")
      BY <2>2 DEF WaitsFor, Joined
    <3>4. QED
      BY <2>1, <3>1, <3>2, <3>3 DEF Digested
  <2>6. QED
    BY <2>1, <2>3, <2>4, <2>5 DEF FilesLeft, Digested
<1>5. ASSUME NEW t \in Threads, LeaveReceipt(t) PROVE FilesLeft'
  <2>1. /\ file' = file /\ stage' = stage
        /\ busy[t].at = "receipt" /\ busy[t].todo # <<>>
        /\ Joined(t) \in Promises
    BY <1>5, JoinedIsPromise DEF LeaveReceipt, At
  <2>2. /\ busy'[t].at = "check"
        /\ \A u \in Threads \ {t} : busy'[u] = busy[u]
    BY <1>5, <2>1, IdleCall, JoinedFields DEF LeaveReceipt, TypeOK
  <2>3. Receipted' = Receipted \union {Joined(t)}
    BY <1>5, ReceiptKeeps
  <2>4. Digested = Digested' \union {Joined(t)}
    <3>1. \A p \in Promises : (WaitsFor(t, p) /\ busy[t].at = "receipt") <=> p = Joined(t)
      BY <2>1 DEF WaitsFor
    <3>2. \A p \in Promises : ~(WaitsFor(t, p) /\ busy[t].at = "receipt")'
      BY <2>2
    <3>3. \A u \in Threads \ {t}, p \in Promises :
            (WaitsFor(u, p) /\ busy[u].at = "receipt")' <=> (WaitsFor(u, p) /\ busy[u].at = "receipt")
      BY <2>2 DEF WaitsFor, Joined
    <3>4. QED
      BY <2>1, <3>1, <3>2, <3>3 DEF Digested
  <2>5. QED
    BY <2>1, <2>3, <2>4 DEF FilesLeft, Digested
<1>6. ASSUME UNCHANGED <<stage, busy, file, trace>> PROVE FilesLeft'
  BY <1>6 DEF FilesLeft, Receipted, WaitsFor, Joined
<1>7. ASSUME NEW t \in Threads, Step(t) PROVE FilesLeft'
  BY <1>1, <1>3, <1>4, <1>5, <1>7, QuietSteps, StillSteps DEF Step
<1>8. ASSUME NEW p \in Promises, Panic(p) PROVE FilesLeft'
  BY <1>1, <1>8, QuietSteps, StillSteps, ThreadsArePromisesAndMain
<1>9. ASSUME NEW t \in Threads, NEW u \in Threads, HandOn(t, u) PROVE FilesLeft'
  BY <1>6, <1>9 DEF HandOn
<1>10. QED
  BY <1>2, <1>6, <1>7, <1>8, <1>9 DEF Next, Spin, Over, vars

-----------------------------------------------------------------------------
(* What joins leave behind: receipts in the order of the spawns *)

\* A trace ends with the events of a join that has spawned promises, left receipts
\* for so many of them, and has these to do.
JoiningFrom(tr, todo, got, n, s) ==
  /\ s >= 0
  /\ \A k \in 1 .. n : tr[s + k].t = "child_spawn"
  /\ \A k \in 1 .. got : tr[s + n + k].t = "child_receipt" /\ tr[s + n + k].of = tr[s + k].of
  /\ \A k \in 1 .. Len(todo) : todo[k] = tr[s + got + k].of
Joining(tr, todo, got) ==
  JoiningFrom(tr, todo, got, got + Len(todo), Len(tr) - got - (got + Len(todo)))

Progress ==
  \A t \in Threads : busy[t].call = "spawn_ordered" =>
    /\ Joining(trace[t], busy[t].todo, busy[t].got)
    /\ busy[t].at = "spawn" => busy[t].got = 0

\* The i-th event ends a join only if the events before it are those of the join.
OrderedAt(tr, i) ==
  tr[i].t = "spawn_ordered_complete" =>
    LET n == tr[i].count IN
    /\ i > 2 * n
    /\ \A k \in 1 .. n :
         LET spawn == tr[i - 2 * n + k - 1]
             join == tr[i - n + k - 1] IN
         /\ spawn.t = "child_spawn" /\ join.t = "child_receipt"
         /\ spawn.of = join.of

LEMMA JoiningBegins == ASSUME NEW tr \in Seq(Events) PROVE Joining(tr, <<>>, 0)
<1>1. Len(tr) \in Nat /\ Len(<<>>) = 0
  OBVIOUS
<1>2. QED
  BY <1>1 DEF Joining, JoiningFrom

LEMMA JoiningSpawns ==
  ASSUME NEW tr \in Seq(Events), NEW todo \in Seq(Promises), NEW p \in Promises, Joining(tr, todo, 0)
  PROVE  Joining(Append(tr, Spawned(p)), Append(todo, p), 0)
<1> DEFINE m == Len(tr)
<1> DEFINE n == Len(todo)
<1> DEFINE tr2 == Append(tr, Spawned(p))
<1> DEFINE todo2 == Append(todo, p)
<1>1. /\ m \in Nat /\ n \in Nat /\ Len(tr2) = m + 1 /\ Len(todo2) = n + 1
      /\ tr2[m + 1] = Spawned(p) /\ todo2[n + 1] = p
      /\ \A i \in 1 .. m : tr2[i] = tr[i]
      /\ \A i \in 1 .. n : todo2[i] = todo[i]
  BY EventTypes
<1>2. Spawned(p).t = "child_spawn" /\ Spawned(p).of = p
  BY DEF Spawned
<1>3. /\ m - n >= 0
      /\ \A k \in 1 .. n : tr[m - n + k].t = "child_spawn" /\ todo[k] = tr[m - n + k].of
  <2>1. 0 + n = n /\ m - 0 - (0 + n) = m - n /\ (m - n) + 0 = m - n
    BY <1>1
  <2>2. JoiningFrom(tr, todo, 0, n, m - n)
    BY <2>1 DEF Joining
  <2>3. QED
    BY <2>1, <2>2 DEF JoiningFrom
<1> HIDE DEF m, n, tr2, todo2
<1>4. \A k \in 1 .. n : m - n + k \in 1 .. m
  BY <1>1, <1>3
<1>5. \A k \in 1 .. n : tr2[m - n + k].t = "child_spawn" /\ todo2[k] = tr2[m - n + k].of
  BY <1>1, <1>3, <1>4
<1>6. \A k \in 1 .. n + 1 : k \in 1 .. n \/ (k = n + 1 /\ m - n + k = m + 1)
  BY <1>1
<1>7. \A k \in 1 .. n + 1 : tr2[m - n + k].t = "child_spawn" /\ todo2[k] = tr2[m - n + k].of
  BY <1>1, <1>2, <1>5, <1>6
<1>8. Len(tr2) - 0 - (0 + Len(todo2)) = m - n /\ 0 + Len(todo2) = n + 1 /\ (m - n) + 0 = m - n
  BY <1>1
<1>9. JoiningFrom(tr2, todo2, 0, n + 1, m - n)
  <2>1. \A k \in 1 .. Len(todo2) : todo2[k] = tr2[(m - n) + 0 + k].of
    <3>1. (m - n) + 0 = m - n /\ Len(todo2) = n + 1
      BY <1>1
    <3>2. QED
      BY <1>7, <3>1
  <2>2. \A k \in 1 .. 0 : FALSE
    OBVIOUS
  <2>3. QED
    BY <1>3, <1>7, <2>1, <2>2, Zenon DEF JoiningFrom
<1>10. Joining(tr2, todo2, 0)
  BY <1>8, <1>9 DEF Joining
<1>11. QED
  BY <1>10 DEF tr2, todo2

LEMMA JoiningJoins ==
  ASSUME NEW tr \in Seq(Events), NEW todo \in Seq(Promises), NEW got \in Nat, NEW run \in Nat,
         todo # <<>>, Joining(tr, todo, got)
  PROVE  Joining(Append(tr, Receipt(Head(todo), run)), Tail(todo), got + 1)
<1> DEFINE m == Len(tr)
<1> DEFINE l == Len(todo)
<1> DEFINE e == Receipt(Head(todo), run)
<1> DEFINE tr2 == Append(tr, e)
<1> DEFINE todo2 == Tail(todo)
<1> DEFINE s == m - got - (got + l)
<1>1. e \in Events /\ e.t = "child_receipt" /\ e.of = todo[1]
  <2>1. Head(todo) \in Promises /\ Head(todo) = todo[1]
    OBVIOUS
  <2>2. QED
    BY <2>1, EventTypes DEF Receipt
<1>2. /\ m \in Nat /\ l \in Nat /\ l >= 1 /\ Len(tr2) = m + 1 /\ Len(todo2) = l - 1
      /\ tr2[m + 1] = e
      /\ \A i \in 1 .. m : tr2[i] = tr[i]
      /\ \A i \in 1 .. l - 1 : todo2[i] = todo[i + 1]
  BY <1>1
<1>3. /\ s >= 0 /\ s \in Int
      /\ \A k \in 1 .. got + l : tr[s + k].t = "child_spawn"
      /\ \A k \in 1 .. got : /\ tr[s + (got + l) + k].t = "child_receipt"
                             /\ tr[s + (got + l) + k].of = tr[s + k].of
      /\ \A k \in 1 .. l : todo[k] = tr[s + got + k].of
  BY <1>2 DEF Joining, JoiningFrom
<1> HIDE DEF e, tr2, todo2
<1>4. /\ \A k \in 1 .. got + l : s + k \in 1 .. m
      /\ \A k \in 1 .. got : s + (got + l) + k \in 1 .. m
      /\ s + got + 1 \in 1 .. m
      /\ s + (got + l) + (got + 1) = m + 1
      /\ \A k \in 1 .. l - 1 : s + got + (k + 1) \in 1 .. m
  BY <1>2, <1>3
<1>5. \A k \in 1 .. got + l : tr2[s + k].t = "child_spawn"
  BY <1>2, <1>3, <1>4
<1>6. \A k \in 1 .. got + 1 : /\ tr2[s + (got + l) + k].t = "child_receipt"
                             /\ tr2[s + (got + l) + k].of = tr2[s + k].of
  <2> SUFFICES ASSUME NEW k \in 1 .. got + 1
               PROVE  /\ tr2[s + (got + l) + k].t = "child_receipt"
                      /\ tr2[s + (got + l) + k].of = tr2[s + k].of
    OBVIOUS
  <2>1. CASE k \in 1 .. got
    <3>1. k \in 1 .. got + l
      BY <1>2, <2>1
    <3>2. QED
      BY <1>2, <1>3, <1>4, <2>1, <3>1
  <2>2. CASE k = got + 1
    <3>1. tr2[s + (got + l) + k] = e
      BY <1>2, <1>4, <2>2
    <3>2. tr2[s + k] = tr[s + got + 1]
      <4>1. s + k = s + got + 1
        BY <1>3, <2>2
      <4>2. QED
        BY <1>2, <1>4, <4>1
    <3>3. tr[s + got + 1].of = todo[1]
      BY <1>2, <1>3
    <3>4. QED
      BY <1>1, <3>1, <3>2, <3>3
  <2>3. QED
    BY <2>1, <2>2
<1>7. \A k \in 1 .. l - 1 : todo2[k] = tr2[s + (got + 1) + k].of
  <2> SUFFICES ASSUME NEW k \in 1 .. l - 1 PROVE todo2[k] = tr2[s + (got + 1) + k].of
    OBVIOUS
  <2>1. k + 1 \in 1 .. l /\ s + (got + 1) + k = s + got + (k + 1)
    BY <1>2, <1>3
  <2>2. todo2[k] = tr[s + got + (k + 1)].of
    BY <1>2, <1>3, <2>1
  <2>3. QED
    BY <1>2, <1>4, <2>1, <2>2
<1>8. /\ Len(tr2) - (got + 1) - ((got + 1) + Len(todo2)) = s
      /\ (got + 1) + Len(todo2) = got + l
  BY <1>2
<1> HIDE DEF s
<1>9. JoiningFrom(tr2, todo2, got + 1, got + l, s)
  BY <1>2, <1>3, <1>5, <1>6, <1>7 DEF JoiningFrom
<1>10. Joining(tr2, todo2, got + 1)
  BY <1>8, <1>9 DEF Joining
<1>11. QED
  BY <1>10 DEF tr2, todo2, e

LEMMA JoiningEnds ==
  ASSUME NEW tr \in Seq(Events), NEW got \in Nat, Joining(tr, <<>>, got)
  PROVE  OrderedAt(Append(tr, Complete(got)), Len(tr) + 1)
<1> DEFINE m == Len(tr)
<1> DEFINE tr2 == Append(tr, Complete(got))
<1>1. /\ m \in Nat /\ tr2[m + 1] = Complete(got)
      /\ \A i \in 1 .. m : tr2[i] = tr[i]
  BY EventTypes
<1>2. Complete(got).count = got
  BY DEF Complete
<1>3. /\ m - got - got >= 0
      /\ \A k \in 1 .. got : tr[m - got - got + k].t = "child_spawn"
      /\ \A k \in 1 .. got : /\ tr[m - got - got + got + k].t = "child_receipt"
                             /\ tr[m - got - got + got + k].of = tr[m - got - got + k].of
  <2>1. Len(<<>>) = 0 /\ got + 0 = got
    OBVIOUS
  <2>2. QED
    BY <1>1, <2>1 DEF Joining, JoiningFrom
<1> HIDE DEF m, tr2
<1>4. \A k \in 1 .. got :
        /\ (m + 1) - 2 * got + k - 1 = m - got - got + k
        /\ (m + 1) - got + k - 1 = m - got - got + got + k
        /\ m - got - got + k \in 1 .. m
        /\ m - got - got + got + k \in 1 .. m
  BY <1>1, <1>3
<1>5. m + 1 > 2 * got
  BY <1>1, <1>3
<1>6. \A k \in 1 .. got :
        /\ tr2[(m + 1) - 2 * got + k - 1].t = "child_spawn"
        /\ tr2[(m + 1) - got + k - 1].t = "child_receipt"
        /\ tr2[(m + 1) - 2 * got + k - 1].of = tr2[(m + 1) - got + k - 1].of
  <2> SUFFICES ASSUME NEW k \in 1 .. got
               PROVE  /\ tr2[(m + 1) - 2 * got + k - 1].t = "child_spawn"
                      /\ tr2[(m + 1) - got + k - 1].t = "child_receipt"
                      /\ tr2[(m + 1) - 2 * got + k - 1].of = tr2[(m + 1) - got + k - 1].of
    OBVIOUS
  <2>1. tr2[(m + 1) - 2 * got + k - 1] = tr[m - got - got + k]
    BY <1>1, <1>4
  <2>2. tr2[(m + 1) - got + k - 1] = tr[m - got - got + got + k]
    BY <1>1, <1>4
  <2>3. QED
    BY <1>3, <2>1, <2>2
<1>7. OrderedAt(tr2, m + 1)
  BY <1>1, <1>2, <1>5, <1>6 DEF OrderedAt
<1>8. QED
  BY <1>7 DEF tr2, m

\* Later events leave it so.
LEMMA OrderedStays ==
  ASSUME NEW tr \in Seq(Events), NEW e \in Events, NEW i \in 1 .. Len(tr), OrderedAt(tr, i)
  PROVE  OrderedAt(Append(tr, e), i)
<1> DEFINE m == Len(tr)
<1> DEFINE tr2 == Append(tr, e)
<1>1. m \in Nat /\ \A k \in 1 .. m : tr2[k] = tr[k]
  OBVIOUS
<1> HIDE DEF m, tr2
<1>2. SUFFICES ASSUME tr2[i].t = "spawn_ordered_complete"
               PROVE  /\ i > 2 * tr2[i].count
                      /\ \A k \in 1 .. tr2[i].count :
                           LET spawn == tr2[i - 2 * tr2[i].count + k - 1]
                               join == tr2[i - tr2[i].count + k - 1] IN
                           /\ spawn.t = "child_spawn" /\ join.t = "child_receipt"
                           /\ spawn.of = join.of
  BY DEF OrderedAt, tr2
<1>3. tr2[i] = tr[i] /\ i \in 1 .. m
  BY <1>1 DEF m
<1>4. tr[i].count \in Nat
  <2>1. tr[i] \in Events
    OBVIOUS
  <2>2. QED
    BY <1>2, <1>3, <2>1 DEF Events
<1>5. /\ i > 2 * tr[i].count
      /\ \A k \in 1 .. tr[i].count :
           /\ tr[i - 2 * tr[i].count + k - 1].t = "child_spawn"
           /\ tr[i - tr[i].count + k - 1].t = "child_receipt"
           /\ tr[i - 2 * tr[i].count + k - 1].of = tr[i - tr[i].count + k - 1].of
  BY <1>2, <1>3 DEF OrderedAt
<1>6. \A k \in 1 .. tr[i].count : /\ i - 2 * tr[i].count + k - 1 \in 1 .. m
                                 /\ i - tr[i].count + k - 1 \in 1 .. m
  BY <1>1, <1>3, <1>4, <1>5
<1>7. QED
  BY <1>1, <1>3, <1>5, <1>6

LEMMA OrderedJoinsIs == OrderedJoins <=> \A t \in Threads : \A i \in DOMAIN trace[t] : OrderedAt(trace[t], i)
  BY DEF OrderedJoins, OrderedAt

\* No join begins, goes on or ends.
Apart(t) ==
  /\ \A u \in Threads \ {t} : busy'[u] = busy[u] /\ trace'[u] = trace[u]
  /\ \/ trace'[t] = trace[t]
     \/ \E e \in Events : e.t # "spawn_ordered_complete" /\ trace'[t] = Append(trace[t], e)
  /\ busy'[t].call = "spawn_ordered" =>
       /\ busy[t].call = "spawn_ordered" /\ trace'[t] = trace[t]
       /\ busy'[t].todo = busy[t].todo /\ busy'[t].got = busy[t].got /\ busy'[t].at # "spawn"

\* One more event of another kind.
LEMMA OrderedAppends ==
  ASSUME NEW tr \in Seq(Events), NEW e \in Events,
         \A i \in DOMAIN tr : OrderedAt(tr, i),
         e.t = "spawn_ordered_complete" => OrderedAt(Append(tr, e), Len(tr) + 1)
  PROVE  \A i \in DOMAIN Append(tr, e) : OrderedAt(Append(tr, e), i)
<1>1. /\ Len(tr) \in Nat /\ DOMAIN tr = 1 .. Len(tr) /\ DOMAIN Append(tr, e) = 1 .. Len(tr) + 1
      /\ Append(tr, e)[Len(tr) + 1] = e
  OBVIOUS
<1>2. ASSUME NEW i \in 1 .. Len(tr) PROVE OrderedAt(Append(tr, e), i)
  BY <1>1, <1>2, OrderedStays
<1>3. OrderedAt(Append(tr, e), Len(tr) + 1)
  BY <1>1 DEF OrderedAt
<1>4. \A i \in 1 .. Len(tr) + 1 : i \in 1 .. Len(tr) \/ i = Len(tr) + 1
  BY <1>1
<1>5. QED
  BY <1>1, <1>2, <1>3, <1>4

LEMMA ApartKeeps ==
  ASSUME TypeOK, Progress, OrderedJoins, NEW t \in Threads, Apart(t)
  PROVE  Progress' /\ OrderedJoins'
<1>1. Progress'
  BY DEF Progress, Apart
<1>2. \A i \in DOMAIN trace'[t] : OrderedAt(trace'[t], i)
  <2>1. trace[t] \in Seq(Events) /\ \A i \in DOMAIN trace[t] : OrderedAt(trace[t], i)
    BY OrderedJoinsIs DEF TypeOK
  <2>2. CASE trace'[t] = trace[t]
    BY <2>1, <2>2
  <2>3. ASSUME NEW e \in Events, e.t # "spawn_ordered_complete", trace'[t] = Append(trace[t], e)
        PROVE  \A i \in DOMAIN trace'[t] : OrderedAt(trace'[t], i)
    BY <2>1, <2>3, OrderedAppends
  <2>4. QED
    BY <2>2, <2>3 DEF Apart
<1>3. \A u \in Threads : \A i \in DOMAIN trace'[u] : OrderedAt(trace'[u], i)
  BY <1>2, OrderedJoinsIs DEF Apart
<1>4. OrderedJoins'
  BY <1>3 DEF OrderedJoins, OrderedAt
<1>5. QED
  BY <1>1, <1>4

LEMMA ApartSteps ==
  ASSUME TypeOK, BornInv, NEW t \in Threads,
         \/ Emit(t) \/ End(t) \/ SpawnBad(t) \/ SpawnedAll(t)
         \/ PanicPoisoned(t) \/ Check(t) \/ Take(t) \/ TakeError(t) \/ TakeNothing(t) \/ Digest(t)
         \/ t \in Promises /\ (Begin(t) \/ Panic(t))
         \/ \E p \in Promises : Spawn(t, p) \/ BeginAwait(t, p)
  PROVE  Apart(t)
<1>a. /\ Idle.call = "none"
      /\ busy \in [Threads -> Calls] /\ trace \in [Threads -> Seq(Events)]
      /\ busy[t] \in Calls
  BY IdleCall DEF TypeOK
<1>1. CASE busy' = [busy EXCEPT ![t] = Idle] /\ trace' = trace
  BY <1>1, <1>a DEF Apart
<1>2. ASSUME NEW at \in {"check", "take", "digest"}, busy' = [busy EXCEPT ![t].at = at], trace' = trace
      PROVE  Apart(t)
  <2>1. busy'[t] = [busy[t] EXCEPT !.at = at] /\ \A u \in Threads \ {t} : busy'[u] = busy[u]
    BY <1>2, <1>a
  <2>2. QED
    BY <1>2, <1>a, <2>1, AtFields DEF Apart
<1>3. CASE Emit(t)
  <2>1. Emitted \in Events /\ Emitted.t # "spawn_ordered_complete"
    BY EventTypes DEF Emitted
  <2>2. QED
    BY <1>3, <1>a, <2>1 DEF Emit, Apart
<1>4. CASE End(t) \/ SpawnBad(t) \/ PanicPoisoned(t) \/ TakeError(t) \/ TakeNothing(t) \/ Panic(t)
  BY <1>1, <1>4 DEF End, SpawnBad, PanicPoisoned, TakeError, TakeNothing, Panic, Stop
<1>5. CASE SpawnedAll(t) \/ Check(t) \/ Take(t)
  BY <1>2, <1>5 DEF SpawnedAll, Check, Take
<1>6. CASE Digest(t)
  <2>1. Joined(t) \in Threads
    BY <1>6, JoinedIsPromise DEF Digest, At
  <2>2. Len(trace[Joined(t)]) \in Nat
    BY <2>1, <1>a
  <2>3. /\ busy'[t].at = "receipt" /\ busy'[t].todo = busy[t].todo
        /\ busy'[t].call = busy[t].call /\ busy'[t].got = busy[t].got
        /\ \A u \in Threads \ {t} : busy'[u] = busy[u]
    BY <1>6, <1>a, <2>2, DigestFields DEF Digest
  <2>4. QED
    BY <1>6, <2>3 DEF Digest, Apart
<1>7. CASE t \in Promises /\ Begin(t)
  <2>1. busy[t] = Idle
    BY <1>7 DEF Begin, BornInv
  <2>2. QED
    BY <1>7, <1>a, <2>1 DEF Begin, Apart
<1>8. ASSUME NEW p \in Promises, Spawn(t, p) PROVE Apart(t)
  <2>1. Spawned(p) \in Events /\ Spawned(p).t # "spawn_ordered_complete"
    BY EventTypes DEF Spawned
  <2>2. QED
    BY <1>8, <1>a, <2>1 DEF Spawn, Create, Apart
<1>9. ASSUME NEW p \in Promises, BeginAwait(t, p) PROVE Apart(t)
  BY <1>9, <1>a, AwaitCall DEF BeginAwait, Apart
<1>10. QED
  BY <1>3, <1>4, <1>5, <1>6, <1>7, <1>8, <1>9

\* The steps of a join.
JoinStep(t, e) ==
  /\ \A u \in Threads \ {t} : busy'[u] = busy[u] /\ trace'[u] = trace[u]
  /\ trace'[t] = Append(trace[t], e)
  /\ busy'[t].call = "spawn_ordered" =>
       /\ Joining(trace'[t], busy'[t].todo, busy'[t].got)
       /\ busy'[t].at = "spawn" => busy'[t].got = 0

LEMMA JoinStepKeeps ==
  ASSUME TypeOK, Progress, OrderedJoins, NEW t \in Threads, NEW e \in Events, JoinStep(t, e),
         e.t = "spawn_ordered_complete" => OrderedAt(trace'[t], Len(trace[t]) + 1)
  PROVE  Progress' /\ OrderedJoins'
<1>1. Progress'
  BY DEF Progress, JoinStep
<1>2. \A i \in DOMAIN trace'[t] : OrderedAt(trace'[t], i)
  <2>1. trace[t] \in Seq(Events) /\ \A i \in DOMAIN trace[t] : OrderedAt(trace[t], i)
    BY OrderedJoinsIs DEF TypeOK
  <2>2. trace'[t] = Append(trace[t], e)
    BY DEF JoinStep
  <2>3. QED
    BY <2>1, <2>2, OrderedAppends
<1>3. \A u \in Threads : \A i \in DOMAIN trace'[u] : OrderedAt(trace'[u], i)
  BY <1>2, OrderedJoinsIs DEF JoinStep
<1>4. OrderedJoins'
  BY <1>3 DEF OrderedJoins, OrderedAt
<1>5. QED
  BY <1>1, <1>4

LEMMA JoinsNext ==
  TypeOK /\ BornInv /\ Progress /\ OrderedJoins /\ [Next]_vars => Progress' /\ OrderedJoins'
<1> SUFFICES ASSUME TypeOK, BornInv, Progress, OrderedJoins, [Next]_vars
             PROVE  Progress' /\ OrderedJoins'
  OBVIOUS
<1>a. /\ busy \in [Threads -> Calls] /\ trace \in [Threads -> Seq(Events)]
      /\ \A t \in Threads : busy[t] \in Calls /\ trace[t] \in Seq(Events)
  BY DEF TypeOK
<1>1. ASSUME NEW t \in Threads, Apart(t) PROVE Progress' /\ OrderedJoins'
  BY <1>1, ApartKeeps
<1>2. ASSUME NEW t \in Threads, BeginSpawnOrdered(t) PROVE Progress' /\ OrderedJoins'
  <2>1. PICK n \in 0 .. Spare, bad \in BOOLEAN : busy' = [busy EXCEPT ![t] = SpawnOrdered(n, bad)]
    BY <1>2 DEF BeginSpawnOrdered
  <2>2. n \in Nat
    OBVIOUS
  <2>3. /\ busy'[t].todo = <<>> /\ busy'[t].got = 0
        /\ \A u \in Threads \ {t} : busy'[u] = busy[u]
    <3>1. busy'[t] = SpawnOrdered(n, bad) /\ \A u \in Threads \ {t} : busy'[u] = busy[u]
      BY <1>a, <2>1
    <3>2. QED
      BY <2>2, <3>1, SpawnOrderedCall
  <2>4. trace' = trace
    BY <1>2 DEF BeginSpawnOrdered
  <2>5. Joining(trace'[t], busy'[t].todo, busy'[t].got)
    BY <1>a, <2>3, <2>4, JoiningBegins
  <2>6. Progress'
    BY <2>3, <2>4, <2>5 DEF Progress
  <2>7. QED
    BY <2>4, <2>6 DEF OrderedJoins
<1>3. ASSUME NEW t \in Threads, NEW p \in Promises, SpawnNext(t, p) PROVE Progress' /\ OrderedJoins'
  <2>1. /\ trace'[t] = Append(trace[t], Spawned(p))
        /\ \A u \in Threads \ {t} : busy'[u] = busy[u] /\ trace'[u] = trace[u]
        /\ busy'[t] = WithSpawned(busy[t], p) /\ busy[t].left > 0 /\ busy[t].at = "spawn"
    BY <1>3, <1>a DEF SpawnNext, Create
  <2>2. /\ busy'[t].todo = Append(busy[t].todo, p) /\ busy'[t].call = busy[t].call
        /\ busy'[t].got = busy[t].got
    BY <1>a, <2>1, SpawnedFields
  <2>3. busy[t].todo \in Seq(Promises)
    BY <1>a, CallFields
  <2>4. ASSUME busy'[t].call = "spawn_ordered"
        PROVE  busy'[t].got = 0 /\ Joining(trace'[t], busy'[t].todo, busy'[t].got)
    <3>1. busy[t].got = 0 /\ Joining(trace[t], busy[t].todo, 0)
      BY <2>1, <2>2, <2>4 DEF Progress
    <3>2. Joining(Append(trace[t], Spawned(p)), Append(busy[t].todo, p), 0)
      BY <1>a, <2>3, <3>1, JoiningSpawns
    <3>3. QED
      BY <2>1, <2>2, <3>1, <3>2
  <2>5. Spawned(p) \in Events /\ Spawned(p).t # "spawn_ordered_complete"
    BY EventTypes DEF Spawned
  <2>6. JoinStep(t, Spawned(p))
    BY <2>1, <2>4 DEF JoinStep
  <2>7. QED
    BY <2>5, <2>6, JoinStepKeeps
<1>4. ASSUME NEW t \in Threads, LeaveReceipt(t) PROVE Progress' /\ OrderedJoins'
  <2> DEFINE e == Receipt(Joined(t), busy[t].run)
  <2>1. /\ busy[t].todo # <<>> /\ busy[t].todo \in Seq(Promises)
        /\ busy[t].run \in Nat /\ busy[t].got \in Nat /\ Joined(t) \in Promises
    BY <1>4, <1>a, CallFields, JoinedIsPromise DEF LeaveReceipt, At
  <2>2. /\ trace'[t] = Append(trace[t], e)
        /\ \A u \in Threads \ {t} : busy'[u] = busy[u] /\ trace'[u] = trace[u]
        /\ busy'[t] = IF busy[t].call = "await" THEN Idle ELSE WithJoined(busy[t])
    BY <1>4, <1>a DEF LeaveReceipt
  <2>3. e \in Events /\ e.t # "spawn_ordered_complete"
    BY <2>1, EventTypes DEF Receipt
  <2>4. ASSUME busy'[t].call = "spawn_ordered"
        PROVE  busy'[t].at # "spawn" /\ Joining(trace'[t], busy'[t].todo, busy'[t].got)
    <3>1. busy'[t] = WithJoined(busy[t])
      BY <2>2, <2>4, IdleCall
    <3>2. /\ busy'[t].todo = Tail(busy[t].todo) /\ busy'[t].at = "check"
          /\ busy'[t].call = busy[t].call /\ busy'[t].got = busy[t].got + 1
      BY <1>a, <2>1, <3>1, JoinedFields
    <3>3. Joining(trace[t], busy[t].todo, busy[t].got)
      BY <2>4, <3>2 DEF Progress
    <3>4. Joining(Append(trace[t], Receipt(Head(busy[t].todo), busy[t].run)), Tail(busy[t].todo), busy[t].got + 1)
      BY <1>a, <2>1, <3>3, JoiningJoins
    <3>5. QED
      BY <2>2, <3>2, <3>4 DEF Joined
  <2>5. JoinStep(t, e)
    BY <2>2, <2>4 DEF JoinStep
  <2>6. QED
    BY <2>3, <2>5, JoinStepKeeps
<1>5. ASSUME NEW t \in Threads, Ordered(t) PROVE Progress' /\ OrderedJoins'
  <2> DEFINE e == Complete(busy[t].got)
  <2>1. /\ busy[t].todo = <<>> /\ busy[t].got \in Nat /\ e \in Events
    BY <1>5, <1>a, CallFields, EventTypes DEF Ordered
  <2>2. /\ trace'[t] = Append(trace[t], e)
        /\ \A u \in Threads \ {t} : busy'[u] = busy[u] /\ trace'[u] = trace[u]
        /\ busy'[t] = Idle
    BY <1>5, <1>a DEF Ordered
  <2>3. JoinStep(t, e)
    BY <2>2, IdleCall DEF JoinStep
  <2>4. Joining(trace[t], <<>>, busy[t].got)
    BY <1>5, <2>1 DEF Ordered, Progress
  <2>5. OrderedAt(trace'[t], Len(trace[t]) + 1)
    BY <1>a, <2>1, <2>2, <2>4, JoiningEnds
  <2>6. QED
    BY <2>1, <2>3, <2>5, JoinStepKeeps
<1>6. ASSUME UNCHANGED <<busy, trace>> PROVE Progress' /\ OrderedJoins'
  BY <1>6 DEF Progress, OrderedJoins
<1>7. ASSUME NEW t \in Threads, Step(t) PROVE Progress' /\ OrderedJoins'
  BY <1>1, <1>2, <1>3, <1>4, <1>5, <1>7, ApartSteps DEF Step
<1>8. ASSUME NEW p \in Promises, Begin(p) \/ Panic(p) PROVE Progress' /\ OrderedJoins'
  BY <1>1, <1>8, ApartSteps, ThreadsArePromisesAndMain
<1>9. ASSUME NEW t \in Threads, NEW u \in Threads, HandOn(t, u) PROVE Progress' /\ OrderedJoins'
  BY <1>6, <1>9 DEF HandOn
<1>10. QED
  BY <1>6, <1>7, <1>8, <1>9 DEF Next, Spin, Over, vars

LEMMA JoinsInit == Init => Progress /\ OrderedJoins /\ FilesLeft
<1> SUFFICES ASSUME Init PROVE Progress /\ OrderedJoins /\ FilesLeft
  OBVIOUS
<1>1. \A t \in Threads : busy[t].call = "none" /\ busy[t].at = "check" /\ DOMAIN trace[t] = {}
  BY IdleCall DEF Init
<1>2. \A p \in Promises : ~file[p] /\ stage[p] = "unborn"
  BY ThreadsArePromisesAndMain DEF Init, Main, Promises
<1>3. QED
  BY <1>1, <1>2 DEF Progress, OrderedJoins, FilesLeft

\* For any number of promises: spawn_ordered leaves its receipts in the order of the
\* spawns, and the trace files that stay are those that no receipt names.
THEOREM PromiseJoinsAreClean == Spec => []JoinsAreClean
<1>1. OrderedJoins /\ FilesLeft => JoinsAreClean
  BY DEF JoinsAreClean
<1>2. QED
  BY <1>1, TypeInit, TypeNext, NamesInit, NamesNext, ReceiptsInit, ReceiptsNext, FilesNext,
     JoinsInit, JoinsNext, PTL DEF Spec
=============================================================================
