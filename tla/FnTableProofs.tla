---------------------------- MODULE FnTableProofs ----------------------------
(***************************************************************************)
(* FnTable for every number of threads, functions and calls: which calls   *)
(* run the function they are for, and which panic.                         *)
(***************************************************************************)
EXTENDS FnTable, SequenceTheorems, TLAPS

USE BoundsAssumption, ThreadsAssumption

CallRecords == [n : Nat, live : BOOLEAN, for : Functions, runs : Functions]

Alive(t) == stage[t] \in {"running", "panicked"}

\* Nothing has happened to a thread that was not started, and it has started none.
UnbornAreFresh ==
  /\ \A t \in Threads : stage[t] = "unborn" =>
       /\ table[t] = <<>> /\ held[t] = {} /\ calls[t] = <<>>
       /\ origin[t].how = "main"
  /\ \A c \in Threads : stage[origin[c].from] # "unborn"

\* Tables only grow, as long as they are there: what a promise has from its parent
\* both still have.
CopiesAreKept ==
  \A c \in Threads : origin[c].how = "spawn" =>
    /\ Alive(origin[c].from) => origin[c].had <= Len(table[origin[c].from])
    /\ Alive(c) => origin[c].had <= Len(table[c])

\* What is in a thread's table the thread shares, ...
TablesAreShared ==
  \A t \in Threads : \A i \in 1 .. Len(table[t]) :
    /\ table[t][i].at = i
    /\ table[t][i] \in held[t]
    /\ Shares(t, table[t][i])

\* ... and what it shares is in its table, under its index, ...
SharedAreInTable ==
  \A s, t \in Threads : \A f \in held[s] :
    Alive(t) /\ Shares(t, f) => f.at <= Len(table[t]) /\ table[t][f.at] = f

\* ... because a promise compiles its functions after those of the copy it got.
CompiledAfterCopy ==
  \A s \in Threads : \A f \in held[s] :
    /\ stage[f.by] # "unborn"
    /\ origin[f.by].how = "spawn" => origin[f.by].had < f.at

\* A call's copy of the table is not longer than the table; a thread panics in a call.
CallsSeePrefix ==
  \A t \in Threads :
    /\ \A i \in 1 .. Len(calls[t]) : calls[t][i].n <= Len(table[t])
    /\ stage[t] = "panicked" => calls[t] # <<>>

IndInv ==
  /\ TypeOK
  /\ UnbornAreFresh
  /\ CopiesAreKept
  /\ TablesAreShared
  /\ SharedAreInTable
  /\ CompiledAfterCopy
  /\ CallsSeePrefix
  /\ CallsShareTheTable

-----------------------------------------------------------------------------
(* Sharing *)

\* Sharing by the origins o, to speak of the origins before and after a step.
SharedIn(o, t, f) ==
  \A S \in SUBSET Threads :
    /\ f.by \in S
    /\ \A c \in Threads : o[c].how = "spawn" /\ f.at <= o[c].had /\ o[c].from \in S => c \in S
    => t \in S

LEMMA SharesIs ==
  \A t, f : /\ Shares(t, f) <=> SharedIn(origin, t, f)
            /\ Shares(t, f)' <=> SharedIn(origin', t, f)
BY DEF Shares, SharedIn

\* The rule by which a thread shares a function.
LEMMA SharedRule ==
  ASSUME NEW o, \A c \in Threads : o[c].from \in Threads,
         NEW t \in Threads, NEW f \in Functions
  PROVE  SharedIn(o, t, f) <=>
           \/ f.by = t
           \/ o[t].how = "spawn" /\ f.at <= o[t].had /\ SharedIn(o, o[t].from, f)
<1> DEFINE Rule(c) == \/ f.by = c
                      \/ o[c].how = "spawn" /\ f.at <= o[c].had /\ SharedIn(o, o[c].from, f)
           S0 == {c \in Threads : Rule(c)}
<1>1. f.by \in Threads
  BY DEF Functions
<1>2. ASSUME NEW c \in Threads, Rule(c) PROVE SharedIn(o, c, f)
  BY <1>1, <1>2 DEF SharedIn
<1>3. ASSUME SharedIn(o, t, f) PROVE Rule(t)
  <2>1. f.by \in S0
    BY <1>1
  <2>2. \A c \in Threads : o[c].how = "spawn" /\ f.at <= o[c].had /\ o[c].from \in S0 => c \in S0
    BY <1>2
  <2>3. S0 \in SUBSET Threads
    OBVIOUS
  <2>4. t \in S0
    BY <1>3, <2>1, <2>2, <2>3 DEF SharedIn
  <2>5. QED
    BY <2>4
<1>4. QED
  BY <1>2, <1>3

LEMMA SharesRule ==
  ASSUME TypeOK, NEW t \in Threads, NEW f \in Functions
  PROVE  Shares(t, f) <=>
           \/ f.by = t
           \/ origin[t].how = "spawn" /\ f.at <= origin[t].had /\ Shares(origin[t].from, f)
<1>1. \A c \in Threads : origin[c].from \in Threads
  BY DEF TypeOK
<1>2. QED
  BY <1>1, SharedRule, SharesIs

\* A function compiled after every copy of its thread's table is shared by nobody else.
LEMMA NewIsShared ==
  ASSUME NEW t \in Threads, NEW f \in Functions, f.by = t,
         \A c \in Threads : origin[c].how = "spawn" /\ origin[c].from = t => origin[c].had < f.at,
         \A c \in Threads : origin[c].how = "spawn" => origin[c].had \in Nat,
         NEW s \in Threads, Shares(s, f)
  PROVE  s = t
<1>1. f.at \in Nat
  BY DEF Functions
<1>2. \A c \in Threads :
        origin[c].how = "spawn" /\ f.at <= origin[c].had /\ origin[c].from \in {t} => c \in {t}
  BY <1>1
<1>3. {t} \in SUBSET Threads
  OBVIOUS
<1>4. QED
  BY <1>2, <1>3 DEF Shares

\* Threads that start change nothing for the others.
LEMMA SharesStays ==
  ASSUME TypeOK, NEW cs \in SUBSET Threads,
         \A c \in Threads \ cs : origin'[c] = origin[c],
         \A c \in cs : origin[c].how = "main",
         \A c \in Threads : origin[c].from \notin cs,
         NEW s \in Threads \ cs, NEW f \in Functions
  PROVE  Shares(s, f)' <=> Shares(s, f)
<1>1. ASSUME Shares(s, f)' PROVE Shares(s, f)
  <2> SUFFICES ASSUME NEW S \in SUBSET Threads, f.by \in S,
                      \A c \in Threads : origin[c].how = "spawn" /\ f.at <= origin[c].had
                                         /\ origin[c].from \in S => c \in S
               PROVE  s \in S
    BY DEF Shares
  <2>1. S \union cs \in SUBSET Threads /\ f.by \in S \union cs
    OBVIOUS
  <2>2. ASSUME NEW c \in Threads, origin'[c].how = "spawn", f.at <= origin'[c].had,
               origin'[c].from \in S \union cs
        PROVE  c \in S \union cs
    BY <2>2
  <2>3. s \in S \union cs
    BY <1>1, <2>1, <2>2 DEF Shares
  <2>4. QED
    BY <2>3
<1>2. ASSUME Shares(s, f) PROVE Shares(s, f)'
  <2> SUFFICES ASSUME NEW S \in SUBSET Threads, f.by \in S,
                      \A c \in Threads : origin'[c].how = "spawn" /\ f.at <= origin'[c].had
                                         /\ origin'[c].from \in S => c \in S
               PROVE  s \in S
    BY DEF Shares
  <2>1. ASSUME NEW c \in Threads, origin[c].how = "spawn", f.at <= origin[c].had,
               origin[c].from \in S
        PROVE  c \in S
    BY <2>1
  <2>2. QED
    BY <1>2, <2>1 DEF Shares
<1>3. QED
  BY <1>1, <1>2

\* And so does any step in which no thread starts.
LEMMA SharesSame ==
  ASSUME UNCHANGED origin, NEW s, NEW f
  PROVE  Shares(s, f)' <=> Shares(s, f)
BY DEF Shares

-----------------------------------------------------------------------------
(* The steps *)

LEMMA FnIs ==
  \A t \in Threads, i \in Nat \ {0} :
    Fn(t, i) \in Functions /\ Fn(t, i).by = t /\ Fn(t, i).at = i
BY DEF Fn, Functions

LEMMA FunctionIs ==
  \A f, g \in Functions : f.by = g.by /\ f.at = g.at => f = g
BY DEF Functions

LEMMA InitInd == Init => IndInv
<1> SUFFICES ASSUME Init PROVE IndInv
  OBVIOUS
<1> DEFINE program == [i \in 1 .. Loaded |-> Fn(Main, i)]
<1>1. /\ program \in Seq(Functions) /\ Len(program) = Loaded
      /\ \A i \in 1 .. Loaded : program[i] = Fn(Main, i)
      /\ Range(program) = {Fn(Main, i) : i \in 1 .. Loaded}
  BY FnIs DEF Range
<1>2. /\ table = [t \in Threads |-> IF t = Main THEN program ELSE <<>>]
      /\ held = [t \in Threads |-> IF t = Main THEN Range(program) ELSE {}]
      /\ stage = [t \in Threads |-> IF t = Main THEN "running" ELSE "unborn"]
      /\ origin = [t \in Threads |-> [from |-> Main, how |-> "main", had |-> 0]]
      /\ calls = [t \in Threads |-> <<>>]
      /\ ptr \in BOOLEAN
  BY DEF Init
<1> HIDE DEF program
<1>3. TypeOK
  <2>1. table \in [Threads -> Seq(Functions)]
    BY <1>1, <1>2
  <2>2. held \in [Threads -> SUBSET Functions]
    BY <1>1, <1>2, FnIs
  <2>3. stage \in [Threads -> {"unborn", "running", "panicked", "ended"}]
    BY <1>2
  <2>4. origin \in [Threads -> [from : Threads, how : {"main", "spawn", "par_map"}, had : Nat]]
    BY <1>2
  <2>5. calls \in [Threads -> Seq([n : Nat, live : BOOLEAN, for : Functions, runs : Functions])]
    BY <1>2
  <2>6. QED
    BY <1>2, <2>1, <2>2, <2>3, <2>4, <2>5 DEF TypeOK
<1>4. UnbornAreFresh /\ CopiesAreKept
  BY <1>2 DEF UnbornAreFresh, CopiesAreKept
<1>5. \A t \in Threads, f \in Functions : Shares(t, f) <=> f.by = t
  BY <1>2, <1>3, SharesRule
<1>6. TablesAreShared
  BY <1>1, <1>2, <1>5, FnIs DEF TablesAreShared
<1>7. SharedAreInTable /\ CompiledAfterCopy
  <2> SUFFICES ASSUME NEW s \in Threads, NEW f \in held[s]
               PROVE  /\ stage[f.by] # "unborn"
                      /\ origin[f.by].how # "spawn"
                      /\ \A t \in Threads : Alive(t) /\ Shares(t, f) =>
                           f.at <= Len(table[t]) /\ table[t][f.at] = f
    BY DEF SharedAreInTable, CompiledAfterCopy
  <2>1. PICK i \in 1 .. Loaded : f = Fn(Main, i)
    BY <1>1, <1>2
  <2>2. f \in Functions /\ f.by = Main /\ f.at = i
    BY <2>1, FnIs
  <2>3. QED
    BY <1>1, <1>2, <1>5, <2>1, <2>2
<1>8. CallsSeePrefix /\ CallsShareTheTable
  BY <1>2 DEF CallsSeePrefix, CallsShareTheTable, CallsRunTheirFunction, PanicsOnForeignOrLate
<1>9. QED
  BY <1>3, <1>4, <1>6, <1>7, <1>8 DEF IndInv

LEMMA CallFields ==
  ASSUME NEW cs \in Seq(CallRecords)
  PROVE  /\ \A i \in 1 .. Len(cs) :
              /\ cs[i] \in CallRecords
              /\ cs[i].n \in Nat /\ cs[i].for \in Functions /\ cs[i].live \in BOOLEAN
         /\ cs # <<>> => Len(cs) \in 1 .. Len(cs) /\ Last(cs) = cs[Len(cs)]
<1>1. \A i \in 1 .. Len(cs) : cs[i] \in CallRecords
  OBVIOUS
<1>2. \A c \in CallRecords : c.n \in Nat /\ c.for \in Functions /\ c.live \in BOOLEAN
  BY DEF CallRecords
<1>3. cs # <<>> => Len(cs) \in 1 .. Len(cs) /\ Last(cs) = cs[Len(cs)]
  BY EmptySeq, LenProperties DEF Last
<1>4. QED
  BY <1>1, <1>2, <1>3

\* The calls in progress, after a step that leaves them and the threads as they are.
LEMMA CallsStay ==
  ASSUME IndInv, UNCHANGED <<stage, origin, calls>>,
         \A t \in Threads : Len(table[t]) <= Len(table'[t]),
         \A t \in Threads : Len(table[t]) \in Nat /\ Len(table'[t]) \in Nat
  PROVE  CallsSeePrefix' /\ CallsShareTheTable'
<1>0. \A t \in Threads : calls[t] \in Seq(CallRecords)
  BY DEF IndInv, TypeOK, CallRecords
<1>1. CallsSeePrefix'
  <2> SUFFICES ASSUME NEW t \in Threads
               PROVE  /\ \A i \in 1 .. Len(calls[t]) : calls[t][i].n <= Len(table'[t])
                      /\ stage[t] = "panicked" => calls[t] # <<>>
    BY DEF CallsSeePrefix
  <2>1. \A i \in 1 .. Len(calls[t]) : calls[t][i].n \in Nat
    BY <1>0, CallFields
  <2>2. /\ \A i \in 1 .. Len(calls[t]) : calls[t][i].n <= Len(table[t])
        /\ stage[t] = "panicked" => calls[t] # <<>>
    BY DEF IndInv, CallsSeePrefix
  <2>3. QED
    BY <2>1, <2>2
<1>2. CallsRunTheirFunction'
  BY SharesSame DEF IndInv, CallsShareTheTable, CallsRunTheirFunction
<1>3. PanicsOnForeignOrLate'
  <2> SUFFICES ASSUME NEW t \in Threads, stage[t] = "panicked",
                      NEW call, call = Last(calls[t]), Shares(t, call.for)'
               PROVE  call.n < call.for.at /\ call.n < Len(table'[t]) /\ ~call.live
    BY DEF PanicsOnForeignOrLate
  <2>1. Shares(t, call.for)
    BY SharesSame
  <2>2. call.n < call.for.at /\ call.n < Len(table[t]) /\ ~call.live
    BY <2>1 DEF IndInv, CallsShareTheTable, PanicsOnForeignOrLate
  <2>3. calls[t] # <<>> /\ calls[t] \in Seq(CallRecords)
    BY <1>0 DEF IndInv, CallsSeePrefix
  <2>4. call.n \in Nat
    BY <2>3, CallFields
  <2>5. QED
    BY <2>2, <2>4
<1>4. QED
  BY <1>1, <1>2, <1>3 DEF CallsShareTheTable

\* What the steps below use of the types.
LEMMA Types ==
  ASSUME TypeOK
  PROVE  /\ \A t \in Threads :
              /\ table[t] \in Seq(Functions) /\ Len(table[t]) \in Nat
              /\ \A i \in 1 .. Len(table[t]) : table[t][i] \in Functions
              /\ held[t] \subseteq Functions
              /\ calls[t] \in Seq(CallRecords)
              /\ origin[t].from \in Threads /\ origin[t].had \in Nat
         /\ \A f \in Functions : f.by \in Threads /\ f.at \in Nat /\ f.at > 0
<1>1. \A t \in Threads :
        /\ table[t] \in Seq(Functions) /\ Len(table[t]) \in Nat
        /\ \A i \in 1 .. Len(table[t]) : table[t][i] \in Functions
  BY DEF TypeOK
<1>2. \A t \in Threads :
        /\ held[t] \subseteq Functions
        /\ origin[t].from \in Threads /\ origin[t].had \in Nat
  BY DEF TypeOK
<1>3. \A t \in Threads : calls[t] \in Seq(CallRecords)
  BY DEF TypeOK, CallRecords
<1>4. \A f \in Functions : f.by \in Threads /\ f.at \in Nat /\ f.at > 0
  BY DEF Functions
<1>5. QED
  BY <1>1, <1>2, <1>3, <1>4

LEMMA DefineInd ==
  ASSUME IndInv, NEW t \in Threads, Define(t)
  PROVE  IndInv'
<1> DEFINE f == Fn(t, Len(table[t]) + 1)
<1>1. /\ stage[t] = "running"
      /\ table' = [table EXCEPT ![t] = Append(table[t], f)]
      /\ held' = [held EXCEPT ![t] = held[t] \union {f}]
      /\ UNCHANGED <<ptr, stage, origin, calls>>
  BY DEF Define, Acts
<1>2. TypeOK
  BY DEF IndInv
<1>3. f \in Functions /\ f.by = t /\ f.at = Len(table[t]) + 1
  BY <1>2, Types, FnIs
<1> HIDE DEF f
<1>4. /\ table'[t] = Append(table[t], f) /\ table'[t] \in Seq(Functions)
      /\ Len(table'[t]) = Len(table[t]) + 1 /\ table'[t][Len(table[t]) + 1] = f
      /\ \A i \in 1 .. Len(table[t]) : table'[t][i] = table[t][i]
      /\ \A s \in Threads : s # t => table'[s] = table[s] /\ held'[s] = held[s]
      /\ held'[t] = held[t] \union {f}
  <2>1. table'[t] = Append(table[t], f) /\ held'[t] = held[t] \union {f}
    BY <1>1, <1>2 DEF TypeOK
  <2>2. \A s \in Threads : s # t => table'[s] = table[s] /\ held'[s] = held[s]
    BY <1>1, <1>2 DEF TypeOK
  <2>3. table[t] \in Seq(Functions)
    BY <1>2, Types
  <2>4. QED
    BY <1>3, <2>1, <2>2, <2>3, AppendProperties
<1>5. TypeOK'
  <2>1. table' \in [Threads -> Seq(Functions)]
    BY <1>1, <1>2, <1>4 DEF TypeOK
  <2>2. held' \in [Threads -> SUBSET Functions]
    BY <1>1, <1>2, <1>3 DEF TypeOK
  <2>3. QED
    BY <1>1, <1>2, <2>1, <2>2 DEF TypeOK
<1>6. UnbornAreFresh'
  BY <1>1, <1>2, <1>4 DEF IndInv, UnbornAreFresh
<1>7. \A s \in Threads : Len(table[s]) <= Len(table'[s]) /\ Len(table[s]) \in Nat /\ Len(table'[s]) \in Nat
  BY <1>2, <1>4, Types
<1>8. CopiesAreKept'
  <2> SUFFICES ASSUME NEW c \in Threads, origin[c].how = "spawn"
               PROVE  /\ Alive(origin[c].from) => origin[c].had <= Len(table'[origin[c].from])
                      /\ Alive(c) => origin[c].had <= Len(table'[c])
    BY <1>1 DEF CopiesAreKept, Alive
  <2>1. /\ Alive(origin[c].from) => origin[c].had <= Len(table[origin[c].from])
        /\ Alive(c) => origin[c].had <= Len(table[c])
    BY DEF IndInv, CopiesAreKept
  <2>2. origin[c].from \in Threads /\ origin[c].had \in Nat
    BY <1>2, Types
  <2>3. QED
    BY <1>7, <2>1, <2>2
<1>9. TablesAreShared'
  <2> SUFFICES ASSUME NEW s \in Threads, NEW i \in 1 .. Len(table'[s])
               PROVE  /\ table'[s][i].at = i
                      /\ table'[s][i] \in held'[s]
                      /\ Shares(s, table'[s][i])
    BY <1>1 DEF TablesAreShared, Shares
  <2>1. \A r \in Threads : \A j \in 1 .. Len(table[r]) :
          table[r][j].at = j /\ table[r][j] \in held[r] /\ Shares(r, table[r][j])
    BY DEF IndInv, TablesAreShared
  <2>2. CASE s # t
    BY <1>4, <2>1, <2>2
  <2>3. CASE s = t /\ i <= Len(table[t])
    BY <1>4, <1>7, <2>1, <2>3
  <2>4. CASE s = t /\ i = Len(table[t]) + 1
    <3>1. Shares(t, f)
      BY <1>2, <1>3, SharesRule
    <3>2. QED
      BY <1>3, <1>4, <2>4, <3>1
  <2>5. QED
    BY <1>4, <1>7, <2>2, <2>3, <2>4
<1>10. \A s \in Threads : \A g \in held'[s] : g = f \/ g \in held[s]
  BY <1>4
<1>11. \A s \in Threads : Shares(s, f) => s = t
  <2>1. \A c \in Threads : origin[c].how = "spawn" => origin[c].had \in Nat
    BY <1>2, Types
  <2>2. ASSUME NEW c \in Threads, origin[c].how = "spawn", origin[c].from = t
        PROVE  origin[c].had < f.at
    <3>1. origin[c].had <= Len(table[t])
      BY <1>1, <2>2 DEF IndInv, CopiesAreKept, Alive
    <3>2. QED
      BY <1>3, <1>7, <2>1, <2>2, <3>1
  <2>3. QED
    BY <1>3, <2>1, <2>2, NewIsShared
<1>12. SharedAreInTable'
  <2> SUFFICES ASSUME NEW s \in Threads, NEW r \in Threads, NEW g \in held'[s],
                      Alive(r)', Shares(r, g)'
               PROVE  g.at <= Len(table'[r]) /\ table'[r][g.at] = g
    BY DEF SharedAreInTable
  <2>0. Alive(r) /\ Shares(r, g)
    BY <1>1, SharesSame DEF Alive
  <2>1. CASE g = f
    BY <1>3, <1>4, <1>11, <2>0, <2>1
  <2>2. CASE g \in held[s]
    <3>1. g.at <= Len(table[r]) /\ table[r][g.at] = g
      BY <2>0, <2>2 DEF IndInv, SharedAreInTable
    <3>2. g.at \in 1 .. Len(table[r])
      BY <1>2, <1>7, <2>2, <3>1, Types
    <3>3. QED
      BY <1>4, <1>7, <3>1, <3>2
  <2>3. QED
    BY <1>10, <2>1, <2>2
<1>13. CompiledAfterCopy'
  <2> SUFFICES ASSUME NEW s \in Threads, NEW g \in held'[s]
               PROVE  /\ stage[g.by] # "unborn"
                      /\ origin[g.by].how = "spawn" => origin[g.by].had < g.at
    BY <1>1 DEF CompiledAfterCopy
  <2>1. CASE g = f
    <3>1. origin[t].how = "spawn" => origin[t].had <= Len(table[t])
      BY <1>1 DEF IndInv, CopiesAreKept, Alive
    <3>2. origin[t].had \in Nat
      BY <1>2, Types
    <3>3. QED
      BY <1>1, <1>3, <1>7, <2>1, <3>1, <3>2
  <2>2. CASE g \in held[s]
    BY <2>2 DEF IndInv, CompiledAfterCopy
  <2>3. QED
    BY <1>10, <2>1, <2>2
<1>14. CallsSeePrefix' /\ CallsShareTheTable'
  BY <1>1, <1>7, CallsStay
<1>15. QED
  BY <1>5, <1>6, <1>8, <1>9, <1>12, <1>13, <1>14 DEF IndInv

\* Threads start: a promise with a copy of its parent's table, workers without.
LEMMA StartInd ==
  ASSUME IndInv, NEW t \in Threads, stage[t] = "running",
         NEW cs \in SUBSET Threads, \A c \in cs : stage[c] = "unborn",
         NEW how \in {"spawn", "par_map"},
         stage' = [c \in Threads |-> IF c \in cs THEN "running" ELSE stage[c]],
         origin' = [c \in Threads |-> IF c \in cs THEN Started(t, how) ELSE origin[c]],
         table' = [c \in Threads |-> IF c \notin cs THEN table[c]
                                     ELSE IF how = "spawn" THEN table[t] ELSE <<>>],
         held' = [c \in Threads |-> IF c \in cs THEN held[t] ELSE held[c]],
         UNCHANGED <<ptr, calls>>
  PROVE  IndInv'
<1>1. TypeOK /\ t \notin cs
  BY DEF IndInv
<1> DEFINE start == Started(t, how)
<1>2. start.from = t /\ start.how = how /\ start.had = Len(table[t]) /\ Len(table[t]) \in Nat
      /\ start \in [from : Threads, how : {"main", "spawn", "par_map"}, had : Nat]
  BY <1>1, Types DEF Started
<1> HIDE DEF start
<1>3. /\ \A c \in cs : /\ stage'[c] = "running" /\ origin'[c] = start /\ held'[c] = held[t]
                       /\ table'[c] = IF how = "spawn" THEN table[t] ELSE <<>>
      /\ \A c \in Threads \ cs : /\ stage'[c] = stage[c] /\ origin'[c] = origin[c]
                                 /\ held'[c] = held[c] /\ table'[c] = table[c]
  BY DEF start
<1>4. /\ \A c \in cs : table[c] = <<>> /\ held[c] = {} /\ calls[c] = <<>> /\ origin[c].how = "main"
      /\ \A c \in Threads : origin[c].from \in Threads \ cs
  BY <1>1, Types DEF IndInv, UnbornAreFresh
<1>5. TypeOK'
  <2>0. \A c \in Threads : table[c] \in Seq(Functions) /\ held[c] \in SUBSET Functions
    BY <1>1 DEF TypeOK
  <2>1. \A c \in Threads :
          origin[c] \in [from : Threads, how : {"main", "spawn", "par_map"}, had : Nat]
    BY <1>1 DEF TypeOK
  <2>2. table' \in [Threads -> Seq(Functions)]
    <3>1. \A c \in Threads : table'[c] \in Seq(Functions)
      BY <1>3, <2>0, EmptySeq
    <3>2. QED
      BY <3>1
  <2>3. held' \in [Threads -> SUBSET Functions]
    <3>1. \A c \in Threads : held'[c] \in SUBSET Functions
      BY <1>3, <2>0
    <3>2. QED
      BY <3>1
  <2>4. stage' \in [Threads -> {"unborn", "running", "panicked", "ended"}]
    <3>1. stage \in [Threads -> {"unborn", "running", "panicked", "ended"}]
      BY <1>1 DEF TypeOK
    <3>2. QED
      BY <3>1
  <2>5. origin' \in [Threads -> [from : Threads, how : {"main", "spawn", "par_map"}, had : Nat]]
    BY <1>2, <2>1 DEF start
  <2>6. QED
    BY <1>1, <2>2, <2>3, <2>4, <2>5 DEF TypeOK
<1>6. UnbornAreFresh'
  <2>1. \A c \in Threads : stage'[c] = "unborn" =>
          table'[c] = <<>> /\ held'[c] = {} /\ calls[c] = <<>> /\ origin'[c].how = "main"
    BY <1>3 DEF IndInv, UnbornAreFresh
  <2>2. \A c \in Threads : stage'[origin'[c].from] # "unborn"
    BY <1>1, <1>2, <1>3, <1>4 DEF IndInv, UnbornAreFresh
  <2>3. QED
    BY <2>1, <2>2 DEF UnbornAreFresh
<1>7. CopiesAreKept'
  <2> SUFFICES ASSUME NEW c \in Threads, origin'[c].how = "spawn"
               PROVE  /\ stage'[origin'[c].from] \in {"running", "panicked"} =>
                           origin'[c].had <= Len(table'[origin'[c].from])
                      /\ stage'[c] \in {"running", "panicked"} => origin'[c].had <= Len(table'[c])
    BY DEF CopiesAreKept, Alive
  <2>1. CASE c \in cs
    <3>1. origin'[c].from = t /\ origin'[c].had = Len(table[t]) /\ how = "spawn"
      BY <1>2, <1>3, <2>1
    <3>2. table'[t] = table[t] /\ table'[c] = table[t]
      BY <1>1, <1>3, <2>1, <3>1
    <3>3. QED
      BY <1>2, <3>1, <3>2
  <2>2. CASE c \notin cs
    <3>1. origin[c].from \in Threads \ cs /\ origin'[c] = origin[c]
      BY <1>3, <1>4, <2>2
    <3>2. /\ Alive(origin[c].from) => origin[c].had <= Len(table[origin[c].from])
          /\ Alive(c) => origin[c].had <= Len(table[c])
      BY <3>1 DEF IndInv, CopiesAreKept
    <3>3. QED
      BY <1>3, <2>2, <3>1, <3>2 DEF Alive
  <2>3. QED
    BY <2>1, <2>2
<1>8. ASSUME NEW s \in Threads \ cs, NEW f \in Functions
      PROVE  Shares(s, f)' <=> Shares(s, f)
  <2>1. /\ \A c \in Threads \ cs : origin'[c] = origin[c]
        /\ \A c \in cs : origin[c].how = "main"
        /\ \A c \in Threads : origin[c].from \notin cs
    BY <1>3, <1>4
  <2> QED
    BY ONLY <1>1, <1>8, <2>1, SharesStays, cs \in SUBSET Threads
<1>9. ASSUME NEW s \in cs, NEW f \in Functions
      PROVE  Shares(s, f)' <=> \/ f.by = s
                               \/ how = "spawn" /\ f.at <= Len(table[t]) /\ Shares(t, f)
  <2>1. \A c \in Threads : origin'[c].from \in Threads
    BY <1>2, <1>3, <1>4
  <2>2. SharedIn(origin', s, f) <=>
          \/ f.by = s
          \/ origin'[s].how = "spawn" /\ f.at <= origin'[s].had /\ SharedIn(origin', origin'[s].from, f)
    BY <2>1, SharedRule
  <2>3. origin'[s].how = how /\ origin'[s].had = Len(table[t]) /\ origin'[s].from = t
    BY <1>2, <1>3
  <2>4. SharedIn(origin', t, f) <=> Shares(t, f)
    BY <1>1, <1>8, SharesIs
  <2>5. SharedIn(origin', s, f) <=> Shares(s, f)'
    BY SharesIs
  <2>6. QED
    BY <2>2, <2>3, <2>4, <2>5
<1>10. \A s \in Threads : \A f \in held'[s] : f \in Functions /\ \E r \in Threads : f \in held[r]
  BY <1>1, <1>3, Types
<1>11. TablesAreShared'
  <2> SUFFICES ASSUME NEW s \in Threads, NEW i \in 1 .. Len(table'[s])
               PROVE  /\ table'[s][i].at = i
                      /\ table'[s][i] \in held'[s]
                      /\ SharedIn(origin', s, table'[s][i])
    BY DEF TablesAreShared, Shares, SharedIn
  <2>0. \A r \in Threads : \A j \in 1 .. Len(table[r]) :
          /\ table[r][j].at = j /\ table[r][j] \in held[r] /\ Shares(r, table[r][j])
          /\ table[r][j] \in Functions
    BY <1>1, Types DEF IndInv, TablesAreShared
  <2>1. CASE s \notin cs
    <3>1. /\ table'[s][i] = table[s][i] /\ i \in 1 .. Len(table[s])
          /\ table[s][i] \in Functions /\ s \in Threads \ cs
      BY <1>3, <2>0, <2>1
    <3>2. PICK f \in Functions : f = table[s][i]
      BY <3>1
    <3>3. Shares(s, f)'
      BY <1>8, <2>0, <3>1, <3>2
    <3>4. f = table'[s][i]
      BY <3>1, <3>2
    <3>5. SharedIn(origin', s, f)
      BY <3>3, SharesIs
    <3>6. QED
      BY <1>3, <2>0, <2>1, <3>1, <3>4, <3>5
  <2>2. CASE s \in cs
    <3>1. how = "spawn" /\ table'[s] = table[t]
      BY <1>3, <2>2
    <3>2. PICK f \in Functions : f = table[t][i]
      BY <2>0, <3>1
    <3>3. f.at = i /\ f \in held[t] /\ Shares(t, f)
      BY <2>0, <3>1, <3>2
    <3>4. Shares(s, f)'
      BY <1>2, <1>9, <2>2, <3>1, <3>3
    <3>5. f = table'[s][i]
      BY <3>1, <3>2
    <3>6. SharedIn(origin', s, f)
      BY <3>4, SharesIs
    <3>7. QED
      BY <1>3, <2>2, <3>3, <3>5, <3>6
  <2>3. QED
    BY <2>1, <2>2
<1>12. SharedAreInTable'
  <2> SUFFICES ASSUME NEW s \in Threads, NEW r \in Threads, NEW f \in held'[s],
                      Alive(r)', Shares(r, f)'
               PROVE  f.at <= Len(table'[r]) /\ table'[r][f.at] = f
    BY DEF SharedAreInTable
  <2>1. f \in Functions /\ \E q \in Threads : f \in held[q]
    BY <1>10
  <2>2. CASE r \notin cs
    <3>1. Alive(r) /\ Shares(r, f)
      BY <1>3, <1>8, <2>1, <2>2 DEF Alive
    <3>2. QED
      BY <1>3, <2>1, <2>2, <3>1 DEF IndInv, SharedAreInTable
  <2>3. CASE r \in cs
    <3>1. f.by # r
      BY <2>1, <2>3 DEF IndInv, CompiledAfterCopy
    <3>2. how = "spawn" /\ Shares(t, f)
      BY <1>9, <2>1, <2>3, <3>1
    <3>3. f.at <= Len(table[t]) /\ table[t][f.at] = f
      BY <2>1, <3>2 DEF IndInv, SharedAreInTable, Alive
    <3>4. QED
      BY <1>3, <2>3, <3>2, <3>3
  <2>4. QED
    BY <2>2, <2>3
<1>13. CompiledAfterCopy'
  <2> SUFFICES ASSUME NEW s \in Threads, NEW f \in held'[s]
               PROVE  /\ stage'[f.by] # "unborn"
                      /\ origin'[f.by].how = "spawn" => origin'[f.by].had < f.at
    BY DEF CompiledAfterCopy
  <2>1. f \in Functions /\ f.by \in Threads /\ \E q \in Threads : f \in held[q]
    BY <1>1, <1>10, Types
  <2>2. stage[f.by] # "unborn" /\ (origin[f.by].how = "spawn" => origin[f.by].had < f.at)
    BY <2>1 DEF IndInv, CompiledAfterCopy
  <2>3. QED
    BY <1>3, <2>1, <2>2
<1>14. CallsSeePrefix'
  BY <1>3, <1>4 DEF IndInv, CallsSeePrefix
<1>15. CallsRunTheirFunction'
  <2> SUFFICES ASSUME NEW s \in Threads, NEW i \in DOMAIN calls[s],
                      stage'[s] # "panicked" \/ i < Len(calls[s])
               PROVE  calls[s][i].runs = calls[s][i].for <=> Shares(s, calls[s][i].for)'
    BY SharesIs DEF CallsRunTheirFunction
  <2>1. s \notin cs
    BY <1>4
  <2>2. calls[s] \in Seq(CallRecords)
    BY <1>1, Types
  <2>3. calls[s][i].for \in Functions
    BY <2>2, CallFields
  <2>4. PICK f \in Functions : f = calls[s][i].for
    BY <2>3
  <2>5. calls[s][i].runs = f <=> Shares(s, f)
    BY <1>3, <2>1, <2>4 DEF IndInv, CallsShareTheTable, CallsRunTheirFunction
  <2>6. Shares(s, f)' <=> Shares(s, f)
    BY <1>8, <2>1
  <2>7. QED
    BY <2>4, <2>5, <2>6, SharesIs
<1>16. PanicsOnForeignOrLate'
  <2> SUFFICES ASSUME NEW s \in Threads, stage'[s] = "panicked",
                      Shares(s, Last(calls[s]).for)'
               PROVE  /\ Last(calls[s]).n < Last(calls[s]).for.at
                      /\ Last(calls[s]).n < Len(table'[s]) /\ ~Last(calls[s]).live
    BY DEF PanicsOnForeignOrLate
  <2>1. s \notin cs /\ stage[s] = "panicked" /\ table'[s] = table[s]
    BY <1>3
  <2>2. calls[s] \in Seq(CallRecords) /\ calls[s] # <<>>
    BY <1>1, <2>1, Types DEF IndInv, CallsSeePrefix
  <2>3. Last(calls[s]).for \in Functions
    BY <2>2, CallFields
  <2>4. PICK f \in Functions : f = Last(calls[s]).for
    BY <2>3
  <2>5. Shares(s, f)'
    BY <2>4, SharesIs
  <2>6. Shares(s, f)
    BY <1>8, <2>1, <2>5
  <2>7. QED
    BY <2>1, <2>4, <2>6 DEF IndInv, CallsShareTheTable, PanicsOnForeignOrLate
<1>17. QED
  BY <1>5, <1>6, <1>7, <1>11, <1>12, <1>13, <1>14, <1>15, <1>16 DEF IndInv, CallsShareTheTable

LEMMA SpawnInd ==
  ASSUME IndInv, NEW t \in Threads, NEW c \in Threads, Spawn(t, c)
  PROVE  IndInv'
<1> DEFINE cs == {c}
<1>1. /\ stage[t] = "running" /\ stage[c] = "unborn"
      /\ stage' = [stage EXCEPT ![c] = "running"]
      /\ origin' = [origin EXCEPT ![c] = Started(t, "spawn")]
      /\ table' = [table EXCEPT ![c] = table[t]]
      /\ held' = [held EXCEPT ![c] = held[t]]
      /\ UNCHANGED <<ptr, calls>>
  BY DEF Spawn, Acts, Begin
<1>2. TypeOK
  BY DEF IndInv
<1>3. stage' = [d \in Threads |-> IF d \in cs THEN "running" ELSE stage[d]]
  BY <1>1, <1>2 DEF TypeOK
<1>4. origin' = [d \in Threads |-> IF d \in cs THEN Started(t, "spawn") ELSE origin[d]]
  BY <1>1, <1>2 DEF TypeOK
<1>5. table' = [d \in Threads |-> IF d \notin cs THEN table[d]
                                  ELSE IF "spawn" = "spawn" THEN table[t] ELSE <<>>]
  BY <1>1, <1>2 DEF TypeOK
<1>6. held' = [d \in Threads |-> IF d \in cs THEN held[t] ELSE held[d]]
  BY <1>1, <1>2 DEF TypeOK
<1>7. cs \in SUBSET Threads /\ \A d \in cs : stage[d] = "unborn"
  BY <1>1
<1>8. PICK how \in {"spawn", "par_map"} : how = "spawn"
  OBVIOUS
<1> HIDE DEF cs
<1>9. table' = [d \in Threads |-> IF d \notin cs THEN table[d]
                                  ELSE IF how = "spawn" THEN table[t] ELSE <<>>]
  BY <1>5, <1>8
<1>10. origin' = [d \in Threads |-> IF d \in cs THEN Started(t, how) ELSE origin[d]]
  BY <1>4, <1>8
<1>11. stage[t] = "running" /\ UNCHANGED <<ptr, calls>>
  BY <1>1
<1>12. QED
  BY <1>3, <1>6, <1>7, <1>9, <1>10, <1>11, StartInd

LEMMA ParMapInd ==
  ASSUME IndInv, NEW t \in Threads, NEW cs \in SUBSET Threads, ParMap(t, cs)
  PROVE  IndInv'
<1>1. /\ stage[t] = "running" /\ \A c \in cs : stage[c] = "unborn"
      /\ stage' = [c \in Threads |-> IF c \in cs THEN "running" ELSE stage[c]]
      /\ origin' = [c \in Threads |-> IF c \in cs THEN Started(t, "par_map") ELSE origin[c]]
      /\ held' = [c \in Threads |-> IF c \in cs THEN held[t] ELSE held[c]]
      /\ UNCHANGED <<ptr, table, calls>>
  BY DEF ParMap, Acts
<1>2. table' = [c \in Threads |-> IF c \notin cs THEN table[c]
                                  ELSE IF "par_map" = "spawn" THEN table[t] ELSE <<>>]
  <2>1. \A c \in cs : table[c] = <<>>
    BY <1>1 DEF IndInv, UnbornAreFresh
  <2>2. table \in [Threads -> Seq(Functions)]
    BY DEF IndInv, TypeOK
  <2>3. QED
    BY <1>1, <2>1, <2>2
<1>3. QED
  BY <1>1, <1>2, StartInd

LEMMA HandInd ==
  ASSUME IndInv, NEW s \in Threads, NEW t \in Threads, NEW f \in Compiled, Hand(s, t, f)
  PROVE  IndInv'
<1>1. /\ stage[t] = "running" /\ f \in held[s]
      /\ held' = [held EXCEPT ![t] = held[t] \union {f}]
      /\ UNCHANGED <<ptr, stage, origin, table, calls>>
  BY DEF Hand, Acts
<1>2. TypeOK /\ f \in Functions
  BY <1>1, Types DEF IndInv
<1>3. TypeOK'
  BY <1>1, <1>2 DEF TypeOK
<1>4. /\ \A q \in Threads : \A g \in held'[q] : \E r \in Threads : g \in held[r]
      /\ \A q \in Threads : held[q] \subseteq held'[q]
      /\ \A q \in Threads : q # t => held'[q] = held[q]
  BY <1>1, <1>2 DEF TypeOK
<1>5. UnbornAreFresh'
  BY <1>1, <1>4 DEF IndInv, UnbornAreFresh
<1>6. CopiesAreKept'
  BY <1>1 DEF IndInv, CopiesAreKept, Alive
<1>7. TablesAreShared'
  BY <1>1, <1>4 DEF IndInv, TablesAreShared, Shares
<1>8. SharedAreInTable'
  <2> SUFFICES ASSUME NEW q \in Threads, NEW r \in Threads, NEW g \in held'[q],
                      Alive(r)', Shares(r, g)'
               PROVE  g.at <= Len(table[r]) /\ table[r][g.at] = g
    BY <1>1 DEF SharedAreInTable
  <2>1. Alive(r) /\ Shares(r, g)
    BY <1>1, SharesSame DEF Alive
  <2>2. QED
    BY <1>4, <2>1 DEF IndInv, SharedAreInTable
<1>9. CompiledAfterCopy'
  BY <1>1, <1>4 DEF IndInv, CompiledAfterCopy
<1>10. CallsSeePrefix' /\ CallsShareTheTable'
  <2>1. \A q \in Threads : Len(table[q]) \in Nat /\ table' = table
    BY <1>1, <1>2, Types
  <2>2. \A q \in Threads : Len(table[q]) <= Len(table'[q])
    BY <2>1
  <2>3. QED
    BY <1>1, <2>1, <2>2, CallsStay
<1>11. QED
  BY <1>3, <1>5, <1>6, <1>7, <1>8, <1>9, <1>10 DEF IndInv

\* The rest of the invariant, after a step that only makes a call, or ends one.
LEMMA CallKeeps ==
  ASSUME IndInv, UNCHANGED <<ptr, origin, table, held>>,
         NEW t \in Threads, stage[t] = "running",
         stage' \in [Threads -> {"unborn", "running", "panicked", "ended"}],
         stage'[t] \in {"running", "panicked"},
         \A s \in Threads : s # t => stage'[s] = stage[s] /\ calls'[s] = calls[s]
  PROVE  /\ UnbornAreFresh' /\ CopiesAreKept' /\ TablesAreShared'
         /\ SharedAreInTable' /\ CompiledAfterCopy'
<1>1. \A s \in Threads : stage'[s] \in {"running", "panicked"} <=> Alive(s)
  BY DEF Alive
<1>2. \A s \in Threads : stage'[s] = "unborn" <=> stage[s] = "unborn"
  OBVIOUS
<1>0. \A s \in Threads : origin[s].from \in Threads
  BY Types DEF IndInv
<1>3. UnbornAreFresh'
  BY <1>0, <1>2 DEF IndInv, UnbornAreFresh
<1>4. CopiesAreKept'
  <2> SUFFICES ASSUME NEW c \in Threads, origin[c].how = "spawn"
               PROVE  /\ stage'[origin[c].from] \in {"running", "panicked"} =>
                           origin[c].had <= Len(table[origin[c].from])
                      /\ stage'[c] \in {"running", "panicked"} => origin[c].had <= Len(table[c])
    BY DEF CopiesAreKept, Alive
  <2>1. QED
    BY <1>0, <1>1 DEF IndInv, CopiesAreKept
<1>5. TablesAreShared'
  BY DEF IndInv, TablesAreShared, Shares
<1>6. SharedAreInTable'
  <2> SUFFICES ASSUME NEW q \in Threads, NEW r \in Threads, NEW g \in held[q],
                      Alive(r)', Shares(r, g)'
               PROVE  g.at <= Len(table[r]) /\ table[r][g.at] = g
    BY DEF SharedAreInTable
  <2>1. Alive(r) /\ Shares(r, g)
    BY <1>1, SharesSame DEF Alive
  <2>2. QED
    BY <2>1 DEF IndInv, SharedAreInTable
<1>7. CompiledAfterCopy'
  <2>1. \A q \in Threads : \A g \in held[q] : g.by \in Threads
    BY Types DEF IndInv
  <2>2. QED
    BY <1>2, <2>1 DEF IndInv, CompiledAfterCopy
<1>8. QED
  BY <1>3, <1>4, <1>5, <1>6, <1>7

\* A function is looked up, and runs, or the thread panics.
LEMMA ResolveInd ==
  ASSUME IndInv, NEW t \in Threads, NEW f \in held[t], stage[t] = "running",
         NEW call \in CallRecords, call.n <= Len(table[t]),
         Resolve(t, call, f), UNCHANGED <<ptr, origin, table, held>>
  PROVE  IndInv'
<1>0. TypeOK
  BY DEF IndInv
<1>1. /\ f \in Functions /\ f.at \in Nat /\ f.at > 0
      /\ table[t] \in Seq(Functions) /\ Len(table[t]) \in Nat
      /\ call.n \in Nat /\ call.live \in BOOLEAN
      /\ calls[t] \in Seq(CallRecords) /\ Len(calls[t]) \in Nat
  <2>1. call.n \in Nat /\ call.live \in BOOLEAN
    BY DEF CallRecords
  <2>2. held[t] \subseteq Functions /\ calls[t] \in Seq(CallRecords)
    BY <1>0, Types
  <2>3. f \in Functions /\ Len(calls[t]) \in Nat
    BY <2>2
  <2>4. QED
    BY <1>0, <2>1, <2>2, <2>3, Types
<1>2. /\ Reach(t, call) \in Nat /\ Reach(t, call) <= Len(table[t])
      /\ call.live => Reach(t, call) = Len(table[t])
      /\ ~call.live => Reach(t, call) = call.n
  BY <1>1 DEF Reach
<1> DEFINE Runs(new)   == f.at <= Reach(t, call) /\ new.runs = table[t][f.at] /\ stage' = stage
           Panics(new) == ~(f.at <= Reach(t, call)) /\ stage' = [stage EXCEPT ![t] = "panicked"]
<1>3. PICK new \in CallRecords : /\ calls' = [calls EXCEPT ![t] = Append(calls[t], new)]
                                 /\ new.n = call.n /\ new.live = call.live /\ new.for = f
                                 /\ Runs(new) \/ Panics(new)
  <2>1. CASE f.at <= Reach(t, call)
    <3> DEFINE new == [call EXCEPT !.for = f, !.runs = table[t][f.at]]
    <3>1. table[t][f.at] \in Functions
      BY <1>1, <1>2, <2>1
    <3>2. new \in CallRecords /\ new.n = call.n /\ new.live = call.live /\ new.for = f
          /\ new.runs = table[t][f.at]
      BY <1>1, <3>1 DEF CallRecords
    <3>3. calls' = [calls EXCEPT ![t] = Append(calls[t], new)] /\ stage' = stage
      BY <2>1 DEF Resolve
    <3> HIDE DEF new
    <3>4. QED
      BY <2>1, <3>2, <3>3
  <2>2. CASE ~(f.at <= Reach(t, call))
    <3> DEFINE new == [call EXCEPT !.for = f]
    <3>1. new \in CallRecords /\ new.n = call.n /\ new.live = call.live /\ new.for = f
      BY <1>1 DEF CallRecords
    <3>2. /\ calls' = [calls EXCEPT ![t] = Append(calls[t], new)]
          /\ stage' = [stage EXCEPT ![t] = "panicked"]
      BY <2>2 DEF Resolve
    <3> HIDE DEF new
    <3>3. QED
      BY <2>2, <3>1, <3>2
  <2>3. QED
    BY <2>1, <2>2
<1>4. /\ calls'[t] = Append(calls[t], new) /\ calls'[t] \in Seq(CallRecords)
      /\ Len(calls'[t]) = Len(calls[t]) + 1 /\ calls'[t][Len(calls[t]) + 1] = new
      /\ \A i \in 1 .. Len(calls[t]) : calls'[t][i] = calls[t][i]
      /\ Last(calls'[t]) = new /\ calls'[t] # <<>>
  <2>1. calls'[t] = Append(calls[t], new)
    BY <1>0, <1>3 DEF TypeOK
  <2>2. QED
    BY <1>1, <2>1, AppendProperties DEF Last
<1>5. \A s \in Threads : s # t => stage'[s] = stage[s] /\ calls'[s] = calls[s]
  BY <1>0, <1>3 DEF TypeOK
<1>6. /\ stage' \in [Threads -> {"unborn", "running", "panicked", "ended"}]
      /\ stage'[t] \in {"running", "panicked"}
      /\ Runs(new) => stage'[t] = "running"
      /\ Panics(new) => stage'[t] = "panicked"
  BY <1>0, <1>3 DEF TypeOK
<1>7. TypeOK'
  <2>1. calls \in [Threads -> Seq(CallRecords)]
    BY <1>0 DEF TypeOK, CallRecords
  <2>2. calls' \in [Threads -> Seq(CallRecords)]
    BY <1>3, <1>4, <2>1
  <2>3. QED
    BY <1>0, <1>6, <2>2 DEF TypeOK, CallRecords
<1>8. /\ UnbornAreFresh' /\ CopiesAreKept' /\ TablesAreShared'
      /\ SharedAreInTable' /\ CompiledAfterCopy'
  BY <1>5, <1>6, CallKeeps
<1>9. CallsSeePrefix'
  <2> SUFFICES ASSUME NEW s \in Threads
               PROVE  /\ \A i \in 1 .. Len(calls'[s]) : calls'[s][i].n <= Len(table[s])
                      /\ stage'[s] = "panicked" => calls'[s] # <<>>
    BY DEF CallsSeePrefix
  <2>1. /\ \A i \in 1 .. Len(calls[s]) : calls[s][i].n <= Len(table[s])
        /\ stage[s] = "panicked" => calls[s] # <<>>
    BY DEF IndInv, CallsSeePrefix
  <2>2. CASE s # t
    BY <1>5, <2>1, <2>2
  <2>3. CASE s = t
    <3>1. \A i \in 1 .. Len(calls'[t]) : i \in 1 .. Len(calls[t]) \/ i = Len(calls[t]) + 1
      BY <1>1, <1>4
    <3>2. QED
      BY <1>3, <1>4, <2>1, <2>3, <3>1
  <2>4. QED
    BY <2>2, <2>3
<1>10. /\ Shares(t, f) => f.at <= Len(table[t]) /\ table[t][f.at] = f
       /\ f.at <= Len(table[t]) /\ table[t][f.at] = f => Shares(t, f)
  <2>1. Shares(t, f) => f.at <= Len(table[t]) /\ table[t][f.at] = f
    BY DEF IndInv, SharedAreInTable, Alive
  <2>2. f.at <= Len(table[t]) => Shares(t, table[t][f.at])
    BY <1>1 DEF IndInv, TablesAreShared
  <2>3. QED
    BY <2>1, <2>2
<1>11. CallsRunTheirFunction'
  <2> SUFFICES ASSUME NEW s \in Threads, NEW i \in 1 .. Len(calls'[s]),
                      stage'[s] # "panicked" \/ i < Len(calls'[s])
               PROVE  calls'[s][i].runs = calls'[s][i].for <=> SharedIn(origin', s, calls'[s][i].for)
    <3>1. \A s \in Threads : calls'[s] \in Seq(CallRecords)
      BY <1>7, Types DEF TypeOK, CallRecords
    <3>2. \A s \in Threads : DOMAIN calls'[s] = 1 .. Len(calls'[s])
      BY <3>1
    <3>3. QED
      BY <3>2 DEF CallsRunTheirFunction, Shares, SharedIn
  <2>1. ASSUME NEW r \in Threads, NEW j \in 1 .. Len(calls[r]),
               stage[r] # "panicked" \/ j < Len(calls[r])
        PROVE  calls[r][j].runs = calls[r][j].for <=> SharedIn(origin, r, calls[r][j].for)
    <3>1. j \in DOMAIN calls[r]
      BY <1>0, Types
    <3>2. QED
      BY <2>1, <3>1, SharesIs DEF IndInv, CallsShareTheTable, CallsRunTheirFunction
  <2>2. CASE s # t
    BY <1>5, <2>1, <2>2
  <2>3. CASE s = t /\ i \in 1 .. Len(calls[t])
    BY <1>4, <2>1, <2>3
  <2>4. CASE s = t /\ i = Len(calls[t]) + 1
    <3>1. Runs(new)
      BY <1>1, <1>3, <1>4, <1>6, <2>4
    <3>2. new.runs = f <=> Shares(t, f)
      BY <1>1, <1>2, <1>10, <3>1
    <3>3. QED
      BY <1>3, <1>4, <2>4, <3>2, SharesIs
  <2>5. QED
    BY <1>1, <1>4, <2>2, <2>3, <2>4
<1>12. PanicsOnForeignOrLate'
  <2> SUFFICES ASSUME NEW s \in Threads, stage'[s] = "panicked",
                      SharedIn(origin, s, Last(calls'[s]).for)
               PROVE  /\ Last(calls'[s]).n < Last(calls'[s]).for.at
                      /\ Last(calls'[s]).n < Len(table[s]) /\ ~Last(calls'[s]).live
    BY DEF PanicsOnForeignOrLate, Shares, SharedIn
  <2>1. CASE s # t
    BY <1>5, <2>1, SharesIs DEF IndInv, CallsShareTheTable, PanicsOnForeignOrLate
  <2>2. CASE s = t
    <3>1. Panics(new) /\ Last(calls'[s]) = new
      BY <1>3, <1>4, <1>6, <2>2
    <3>2. f.at <= Len(table[t])
      BY <1>3, <1>10, <2>2, <3>1, SharesIs
    <3>3. ~call.live /\ call.n < f.at
      BY <1>1, <1>2, <3>1, <3>2
    <3>4. QED
      BY <1>1, <1>3, <2>2, <3>1, <3>2, <3>3
  <2>3. QED
    BY <2>1, <2>2
<1>13. QED
  BY <1>7, <1>8, <1>9, <1>11, <1>12 DEF IndInv, CallsShareTheTable

LEMMA CallInd ==
  ASSUME IndInv, NEW t \in Threads, NEW f \in Compiled, CallFromWalker(t, f) \/ CallFromCode(t, f)
  PROVE  IndInv'
<1>1. /\ stage[t] = "running" /\ f \in held[t] /\ UNCHANGED <<ptr, origin, table, held>>
      /\ ptr \in BOOLEAN /\ f \in Functions /\ Len(table[t]) \in Nat
      /\ calls[t] \in Seq(CallRecords)
  BY Types DEF IndInv, TypeOK, CallFromWalker, CallFromCode, Acts
<1>2. CASE CallFromWalker(t, f)
  <2> DEFINE call == [n |-> Len(table[t]), live |-> ptr /\ t = Main, for |-> f, runs |-> f]
  <2>1. call \in CallRecords /\ call.n <= Len(table[t])
    <3>1. (ptr /\ t = Main) \in BOOLEAN
      BY <1>1
    <3>2. QED
      BY <1>1, <3>1 DEF CallRecords
  <2>2. Resolve(t, call, f)
    BY <1>2 DEF CallFromWalker
  <2> HIDE DEF call
  <2>3. QED
    BY <1>1, <2>1, <2>2, ResolveInd
<1>3. CASE CallFromCode(t, f)
  <2>1. calls[t] # <<>> /\ Resolve(t, Last(calls[t]), f)
    BY <1>3 DEF CallFromCode
  <2>2. Last(calls[t]) \in CallRecords /\ Last(calls[t]).n <= Len(table[t])
    BY <1>1, <2>1, CallFields DEF IndInv, CallsSeePrefix
  <2>3. QED
    BY <1>1, <2>1, <2>2, ResolveInd
<1>4. QED
  BY <1>2, <1>3

LEMMA ReturnInd ==
  ASSUME IndInv, NEW t \in Threads, Return(t)
  PROVE  IndInv'
<1>1. /\ stage[t] = "running" /\ calls[t] # <<>> /\ calls' = [calls EXCEPT ![t] = Front(calls[t])]
      /\ UNCHANGED <<ptr, stage, origin, table, held>>
  BY DEF Return, Acts
<1>2. TypeOK
  BY DEF IndInv
<1>3. calls[t] \in Seq(CallRecords) /\ Len(calls[t]) \in Nat /\ Len(calls[t]) > 0
  BY <1>1, <1>2, Types, EmptySeq
<1>4. /\ calls'[t] = Front(calls[t]) /\ calls'[t] \in Seq(CallRecords)
      /\ Len(calls'[t]) = Len(calls[t]) - 1
      /\ \A i \in 1 .. Len(calls[t]) - 1 : calls'[t][i] = calls[t][i]
  <2>1. calls'[t] = SubSeq(calls[t], 1, Len(calls[t]) - 1)
    BY <1>1, <1>2 DEF TypeOK, Front
  <2>2. 1 \in 1 .. Len(calls[t]) + 1 /\ Len(calls[t]) - 1 \in 1 - 1 .. Len(calls[t])
    BY <1>3
  <2>3. /\ calls'[t] \in Seq(CallRecords)
        /\ Len(calls'[t]) = Len(calls[t]) - 1
        /\ \A i \in 1 .. Len(calls[t]) - 1 : calls'[t][i] = calls[t][i]
    BY <1>3, <2>1, <2>2, SubSeqProperties
  <2>4. QED
    BY <2>1, <2>3 DEF Front
<1>5. \A s \in Threads : s # t => stage'[s] = stage[s] /\ calls'[s] = calls[s]
  BY <1>1, <1>2 DEF TypeOK
<1>6. stage' \in [Threads -> {"unborn", "running", "panicked", "ended"}] /\ stage'[t] = "running"
  BY <1>1, <1>2 DEF TypeOK
<1>7. TypeOK'
  <2>1. calls \in [Threads -> Seq(CallRecords)]
    BY <1>2 DEF TypeOK, CallRecords
  <2>2. calls' \in [Threads -> Seq(CallRecords)]
    BY <1>1, <1>4, <2>1
  <2>3. QED
    BY <1>1, <1>2, <2>2 DEF TypeOK, CallRecords
<1>8. /\ UnbornAreFresh' /\ CopiesAreKept' /\ TablesAreShared'
      /\ SharedAreInTable' /\ CompiledAfterCopy'
  BY <1>1, <1>5, <1>6, CallKeeps
<1>9. CallsSeePrefix'
  <2> SUFFICES ASSUME NEW s \in Threads
               PROVE  /\ \A i \in 1 .. Len(calls'[s]) : calls'[s][i].n <= Len(table[s])
                      /\ stage'[s] = "panicked" => calls'[s] # <<>>
    BY <1>1 DEF CallsSeePrefix
  <2>1. /\ \A i \in 1 .. Len(calls[s]) : calls[s][i].n <= Len(table[s])
        /\ stage[s] = "panicked" => calls[s] # <<>>
    BY DEF IndInv, CallsSeePrefix
  <2>2. CASE s # t
    BY <1>5, <2>1, <2>2
  <2>3. CASE s = t
    <3>1. \A i \in 1 .. Len(calls'[t]) :
            i \in 1 .. Len(calls[t]) - 1 /\ i \in 1 .. Len(calls[t])
      BY <1>3, <1>4
    <3>2. stage'[t] # "panicked"
      BY <1>6
    <3>3. QED
      BY <1>4, <2>1, <2>3, <3>1, <3>2
  <2>4. QED
    BY <2>2, <2>3
<1>10. CallsRunTheirFunction'
  <2> SUFFICES ASSUME NEW s \in Threads, NEW i \in 1 .. Len(calls'[s]),
                      stage'[s] # "panicked" \/ i < Len(calls'[s])
               PROVE  calls'[s][i].runs = calls'[s][i].for <=> SharedIn(origin', s, calls'[s][i].for)
    <3>1. \A s \in Threads : calls'[s] \in Seq(CallRecords)
      BY <1>7, Types DEF TypeOK, CallRecords
    <3>2. \A s \in Threads : DOMAIN calls'[s] = 1 .. Len(calls'[s])
      BY <3>1
    <3>3. QED
      BY <3>2 DEF CallsRunTheirFunction, Shares, SharedIn
  <2>1. ASSUME NEW r \in Threads, NEW j \in 1 .. Len(calls[r]),
               stage[r] # "panicked" \/ j < Len(calls[r])
        PROVE  calls[r][j].runs = calls[r][j].for <=> SharedIn(origin, r, calls[r][j].for)
    <3>1. j \in DOMAIN calls[r]
      BY <1>2, Types
    <3>2. QED
      BY <2>1, <3>1, SharesIs DEF IndInv, CallsShareTheTable, CallsRunTheirFunction
  <2>2. CASE s # t
    BY <1>1, <1>5, <2>1, <2>2
  <2>3. CASE s = t
    <3>1. i \in 1 .. Len(calls[t]) - 1 /\ calls'[t][i] = calls[t][i]
      BY <1>4, <2>3
    <3>2. i \in 1 .. Len(calls[t])
      BY <1>3, <3>1
    <3>3. QED
      BY <1>1, <2>1, <2>3, <3>1, <3>2
  <2>4. QED
    BY <2>2, <2>3
<1>11. PanicsOnForeignOrLate'
  <2> SUFFICES ASSUME NEW s \in Threads, stage'[s] = "panicked",
                      SharedIn(origin, s, Last(calls'[s]).for)
               PROVE  /\ Last(calls'[s]).n < Last(calls'[s]).for.at
                      /\ Last(calls'[s]).n < Len(table[s]) /\ ~Last(calls'[s]).live
    BY <1>1 DEF PanicsOnForeignOrLate, Shares, SharedIn
  <2>1. s # t /\ calls'[s] = calls[s] /\ stage[s] = "panicked"
    BY <1>1, <1>5
  <2>2. QED
    BY <2>1, SharesIs DEF IndInv, CallsShareTheTable, PanicsOnForeignOrLate
<1>12. QED
  BY <1>7, <1>8, <1>9, <1>10, <1>11 DEF IndInv, CallsShareTheTable

\* A thread that ends takes its table with it, and leaves nothing to hold on to.
LEMMA EndInd ==
  ASSUME IndInv, NEW t \in Threads, End(t)
  PROVE  IndInv'
<1>1. /\ stage[t] = "running" /\ calls[t] = <<>>
      /\ stage' = [stage EXCEPT ![t] = "ended"]
      /\ table' = [table EXCEPT ![t] = <<>>]
      /\ UNCHANGED <<ptr, origin, calls>>
  BY DEF End, Acts
<1>2. TypeOK
  BY DEF IndInv
<1> DEFINE p == origin[t].from
<1>3. p \in Threads
  BY <1>2, Types
<1>4. \/ held' = [held EXCEPT ![t] = {}, ![p] = @ \union held[t]]
      \/ held' = [held EXCEPT ![t] = {}]
  BY DEF End
<1>5. /\ \A s \in Threads : \A f \in held'[s] : \E r \in Threads : f \in held[r]
      /\ \A s \in Threads : s # t => held[s] \subseteq held'[s]
      /\ \A s \in Threads : s # t /\ s # p => held'[s] = held[s]
      /\ held' \in [Threads -> SUBSET Functions]
  <2>1. held \in [Threads -> SUBSET Functions]
    BY <1>2 DEF TypeOK
  <2> HIDE DEF p
  <2>2. CASE held' = [held EXCEPT ![t] = {}, ![p] = @ \union held[t]]
    BY <1>3, <2>1, <2>2
  <2>3. CASE held' = [held EXCEPT ![t] = {}]
    BY <1>3, <2>1, <2>3
  <2>4. QED
    BY <1>4, <2>2, <2>3
<1>6. /\ table'[t] = <<>> /\ Len(table'[t]) = 0 /\ stage'[t] = "ended"
      /\ \A s \in Threads : s # t => table'[s] = table[s] /\ stage'[s] = stage[s]
  BY <1>1, <1>2 DEF TypeOK
<1>7. TypeOK'
  <2>1. table' \in [Threads -> Seq(Functions)]
    <3>1. table \in [Threads -> Seq(Functions)]
      BY <1>2 DEF TypeOK
    <3>2. QED
      BY <1>1, <3>1, EmptySeq
  <2>2. QED
    BY <1>1, <1>2, <1>5, <2>1 DEF TypeOK
<1>8. UnbornAreFresh'
  <2>1. \A c \in Threads : stage[origin[c].from] # "unborn" /\ origin[c].from \in Threads
    BY <1>2, Types DEF IndInv, UnbornAreFresh
  <2>2. \A c \in Threads : stage'[origin'[c].from] # "unborn"
    BY <1>1, <1>6, <2>1
  <2>3. ASSUME NEW c \in Threads, stage'[c] = "unborn"
        PROVE  table'[c] = <<>> /\ held'[c] = {} /\ calls'[c] = <<>> /\ origin'[c].how = "main"
    <3>1. c # t /\ c # p /\ stage[c] = "unborn"
      BY <1>6, <2>1, <2>3
    <3>2. QED
      BY <1>1, <1>5, <1>6, <3>1 DEF IndInv, UnbornAreFresh
  <2>4. QED
    BY <2>2, <2>3 DEF UnbornAreFresh
<1>9. CopiesAreKept'
  <2> SUFFICES ASSUME NEW c \in Threads, origin[c].how = "spawn"
               PROVE  /\ stage'[origin[c].from] \in {"running", "panicked"} =>
                           origin[c].had <= Len(table'[origin[c].from])
                      /\ stage'[c] \in {"running", "panicked"} => origin[c].had <= Len(table'[c])
    BY <1>1 DEF CopiesAreKept, Alive
  <2>1. origin[c].from \in Threads
    BY <1>2, Types
  <2>2. QED
    BY <1>6, <2>1 DEF IndInv, CopiesAreKept, Alive
<1>10. TablesAreShared'
  <2> SUFFICES ASSUME NEW s \in Threads, NEW i \in 1 .. Len(table'[s])
               PROVE  /\ table'[s][i].at = i
                      /\ table'[s][i] \in held'[s]
                      /\ SharedIn(origin, s, table'[s][i])
    BY <1>1 DEF TablesAreShared, Shares, SharedIn
  <2>1. s # t
    BY <1>6
  <2>2. table'[s] = table[s] /\ held[s] \subseteq held'[s]
    BY <1>5, <1>6, <2>1
  <2>3. QED
    BY <2>2, SharesIs DEF IndInv, TablesAreShared
<1>11. SharedAreInTable'
  <2> SUFFICES ASSUME NEW q \in Threads, NEW r \in Threads, NEW g \in held'[q],
                      Alive(r)', Shares(r, g)'
               PROVE  g.at <= Len(table'[r]) /\ table'[r][g.at] = g
    BY DEF SharedAreInTable
  <2>1. Alive(r) /\ Shares(r, g) /\ r # t
    BY <1>1, <1>6, SharesSame DEF Alive
  <2>2. PICK s \in Threads : g \in held[s]
    BY <1>5
  <2>3. QED
    BY <1>6, <2>1, <2>2 DEF IndInv, SharedAreInTable
<1>12. CompiledAfterCopy'
  <2> SUFFICES ASSUME NEW s \in Threads, NEW f \in held'[s]
               PROVE  /\ stage'[f.by] # "unborn"
                      /\ origin[f.by].how = "spawn" => origin[f.by].had < f.at
    BY <1>1 DEF CompiledAfterCopy
  <2>1. PICK r \in Threads : f \in held[r]
    BY <1>5
  <2>2. f.by \in Threads
    BY <1>2, <2>1, Types
  <2>3. QED
    BY <1>6, <2>1, <2>2 DEF IndInv, CompiledAfterCopy
<1>13. CallsSeePrefix'
  <2>0. \A s \in Threads : calls[s] \in Seq(CallRecords)
    BY <1>2, Types
  <2> SUFFICES ASSUME NEW s \in Threads
               PROVE  /\ \A i \in 1 .. Len(calls[s]) : calls[s][i].n <= Len(table'[s])
                      /\ stage'[s] = "panicked" => calls[s] # <<>>
    BY <1>1 DEF CallsSeePrefix
  <2>1. CASE s = t
    <3>1. Len(calls[t]) = 0 /\ stage'[t] # "panicked"
      BY <1>1, <1>6
    <3>2. QED
      BY <2>1, <3>1
  <2>2. CASE s # t
    BY <1>6, <2>2 DEF IndInv, CallsSeePrefix
  <2>3. QED
    BY <2>1, <2>2
<1>14. CallsRunTheirFunction'
  <2> SUFFICES ASSUME NEW s \in Threads, NEW i \in DOMAIN calls[s],
                      stage'[s] # "panicked" \/ i < Len(calls[s])
               PROVE  calls[s][i].runs = calls[s][i].for <=> SharedIn(origin, s, calls[s][i].for)
    BY <1>1 DEF CallsRunTheirFunction, Shares, SharedIn
  <2>1. s # t
    BY <1>1
  <2>2. QED
    BY <1>6, <2>1, SharesIs DEF IndInv, CallsShareTheTable, CallsRunTheirFunction
<1>15. PanicsOnForeignOrLate'
  <2> SUFFICES ASSUME NEW s \in Threads, stage'[s] = "panicked",
                      SharedIn(origin, s, Last(calls[s]).for)
               PROVE  /\ Last(calls[s]).n < Last(calls[s]).for.at
                      /\ Last(calls[s]).n < Len(table'[s]) /\ ~Last(calls[s]).live
    BY <1>1 DEF PanicsOnForeignOrLate, Shares, SharedIn
  <2>1. s # t /\ stage[s] = "panicked" /\ table'[s] = table[s]
    BY <1>6
  <2>2. QED
    BY <2>1, SharesIs DEF IndInv, CallsShareTheTable, PanicsOnForeignOrLate
<1>16. QED
  BY <1>7, <1>8, <1>9, <1>10, <1>11, <1>12, <1>13, <1>14, <1>15 DEF IndInv, CallsShareTheTable

LEMMA StutterInd ==
  ASSUME IndInv, UNCHANGED vars
  PROVE  IndInv'
<1>1. UNCHANGED <<ptr, stage, origin, table, held, calls>> /\ TypeOK
  BY DEF vars, IndInv
<1>2. TypeOK' /\ UnbornAreFresh' /\ CopiesAreKept' /\ CompiledAfterCopy'
  BY <1>1 DEF IndInv, TypeOK, UnbornAreFresh, CopiesAreKept, CompiledAfterCopy, Alive
<1>3. TablesAreShared'
  BY <1>1 DEF IndInv, TablesAreShared, Shares
<1>4. SharedAreInTable'
  <2> SUFFICES ASSUME NEW q \in Threads, NEW r \in Threads, NEW g \in held[q],
                      Alive(r)', Shares(r, g)'
               PROVE  g.at <= Len(table[r]) /\ table[r][g.at] = g
    BY <1>1 DEF SharedAreInTable
  <2>1. Alive(r) /\ Shares(r, g)
    BY <1>1, SharesSame DEF Alive
  <2>2. QED
    BY <2>1 DEF IndInv, SharedAreInTable
<1>5. CallsSeePrefix' /\ CallsShareTheTable'
  <2>1. \A q \in Threads : Len(table[q]) \in Nat /\ table' = table
    BY <1>1, Types
  <2>2. \A q \in Threads : Len(table[q]) <= Len(table'[q])
    BY <2>1
  <2>3. QED
    BY <1>1, <2>1, <2>2, CallsStay
<1>6. QED
  BY <1>2, <1>3, <1>4, <1>5 DEF IndInv

LEMMA NextInd == IndInv /\ [Next]_vars => IndInv'
<1> SUFFICES ASSUME IndInv, [Next]_vars PROVE IndInv'
  OBVIOUS
<1>1. CASE Next
  <2>1. PICK t \in Threads :
          \/ Define(t)
          \/ \E c \in Threads : Spawn(t, c)
          \/ \E cs \in SUBSET Threads : ParMap(t, cs)
          \/ \E s \in Threads, f \in Compiled : Hand(s, t, f)
          \/ \E f \in Compiled : CallFromWalker(t, f) \/ CallFromCode(t, f)
          \/ Return(t)
          \/ End(t)
    BY <1>1 DEF Next
  <2>2. QED
    BY <2>1, DefineInd, SpawnInd, ParMapInd, HandInd, CallInd, ReturnInd, EndInd
<1>2. CASE UNCHANGED vars
  BY <1>2, StutterInd
<1>3. QED
  BY <1>1, <1>2

-----------------------------------------------------------------------------

THEOREM FnTableInductive == Spec => []IndInv
<1>1. QED
  BY InitInd, NextInd, PTL DEF Spec

\* Threads, tables, functions and calls keep their types.
THEOREM FnTableTypeOK == Spec => []TypeOK
<1>1. IndInv => TypeOK
  BY DEF IndInv
<1>2. QED
  BY <1>1, FnTableInductive, PTL

\* However many threads spawn, map, hand functions on and compile new ones: a call
\* runs the function it is for exactly if the thread shares it with the one that
\* compiled it, and a thread panics on no function it shares, but on one compiled
\* after the tree walker's last call in it.
THEOREM FnTableCallsShare == Spec => []CallsShareTheTable
<1>1. IndInv => CallsShareTheTable
  BY DEF IndInv
<1>2. QED
  BY <1>1, FnTableInductive, PTL

=============================================================================
