------------------------------- MODULE Channel -------------------------------
(***************************************************************************)
(* A channel of std/chan (chan.new, send, recv, try_recv and close in       *)
(* src/bin/fardrun.rs): an unbounded queue and a flag, each behind a lock   *)
(* of its own, shared by the threads of a program.  No operation holds both *)
(* locks, so a send may push after another thread closed the channel, and a *)
(* receiver may read the flag long after it found the queue empty.          *)
(***************************************************************************)
EXTENDS Naturals, Sequences, FiniteSets

CONSTANTS Threads,   \* the threads that hold the channel
          Values,    \* what is sent
          MaxSends   \* bound on the number of sends

ASSUME MaxSendsAssumption == MaxSends \in Nat

ASSUME ThreadsAssumption == IsFiniteSet(Threads)

VARIABLES
  queue,    \* the VecDeque
  closed,   \* the flag
  op,       \* op[t]: the operation thread t is in
  pushed,   \* history: the values pushed
  popped,   \* history: the values popped
  ends,     \* history: how many values had been pushed when a receive that
            \*   was told the end began
  closedAt  \* history: how many values had been pushed at the first close

vars == <<queue, closed, op, pushed, popped, ends, closedAt>>

Idle == [kind |-> "idle"]

Sending(v) == [kind |-> "send", value |-> v]

\* Receiving, about to look into the queue ("pop") or at the flag ("flag").
Receiving(start, at) == [kind |-> "recv", start |-> start, at |-> at]

Ops == {Idle} \union {Sending(v) : v \in Values}
         \union {Receiving(n, at) : n \in 0 .. MaxSends, at \in {"pop", "flag"}}

Senders == {t \in Threads : op[t].kind = "send"}

Init ==
  /\ queue = <<>>
  /\ closed = FALSE
  /\ op = [t \in Threads |-> Idle]
  /\ pushed = <<>>
  /\ popped = <<>>
  /\ ends = {}
  /\ closedAt = 0

-----------------------------------------------------------------------------

\* Variant of Send: the flag is not looked at.
SendUnchecked(t, v) ==
  /\ op[t] = Idle
  /\ Len(pushed) + Cardinality(Senders) < MaxSends
  /\ op' = [op EXCEPT ![t] = Sending(v)]
  /\ UNCHANGED <<queue, closed, pushed, popped, ends, closedAt>>

\* send finds the channel open.  On a closed channel it fails and changes
\* nothing.
Send(t, v) ==
  /\ op[t] = Idle
  /\ Len(pushed) + Cardinality(Senders) < MaxSends
  /\ ~closed
  /\ op' = [op EXCEPT ![t] = Sending(v)]
  /\ UNCHANGED <<queue, closed, pushed, popped, ends, closedAt>>

\* Variant of Push: at the wrong end.
PushFront(t) ==
  /\ op[t].kind = "send"
  /\ queue' = <<op[t].value>> \o queue
  /\ pushed' = Append(pushed, op[t].value)
  /\ op' = [op EXCEPT ![t] = Idle]
  /\ UNCHANGED <<closed, popped, ends, closedAt>>

\* send, after it looked at the flag
Push(t) ==
  /\ op[t].kind = "send"
  /\ queue' = Append(queue, op[t].value)
  /\ pushed' = Append(pushed, op[t].value)
  /\ op' = [op EXCEPT ![t] = Idle]
  /\ UNCHANGED <<closed, popped, ends, closedAt>>

\* Variant of Recv: the flag is looked at first.
RecvFlagFirst(t) ==
  /\ op[t] = Idle
  /\ op' = [op EXCEPT ![t] = Receiving(Len(pushed), "flag")]
  /\ UNCHANGED <<queue, closed, pushed, popped, ends, closedAt>>

Recv(t) ==
  /\ op[t] = Idle
  /\ op' = [op EXCEPT ![t] = Receiving(Len(pushed), "pop")]
  /\ UNCHANGED <<queue, closed, pushed, popped, ends, closedAt>>

\* recv finds a value
Pop(t) ==
  /\ op[t].kind = "recv" /\ op[t].at = "pop"
  /\ queue # <<>>
  /\ queue' = Tail(queue)
  /\ popped' = Append(popped, Head(queue))
  /\ op' = [op EXCEPT ![t] = Idle]
  /\ UNCHANGED <<closed, pushed, ends, closedAt>>

\* recv finds nothing
PopNothing(t) ==
  /\ op[t].kind = "recv" /\ op[t].at = "pop"
  /\ queue = <<>>
  /\ op' = [op EXCEPT ![t] = Receiving(@.start, "flag")]
  /\ UNCHANGED <<queue, closed, pushed, popped, ends, closedAt>>

\* Variant of CheckFlag: recv goes on waiting.
CheckFlagNever(t) ==
  /\ op[t].kind = "recv" /\ op[t].at = "flag"
  /\ op' = [op EXCEPT ![t] = Receiving(@.start, "pop")]
  /\ UNCHANGED <<queue, closed, pushed, popped, ends, closedAt>>

\* recv returns unit if the channel is closed, else it sleeps and starts over.
CheckFlag(t) ==
  /\ op[t].kind = "recv" /\ op[t].at = "flag"
  /\ IF closed
     THEN /\ op' = [op EXCEPT ![t] = Idle]
          /\ ends' = ends \union {op[t].start}
     ELSE /\ op' = [op EXCEPT ![t] = Receiving(@.start, "pop")]
          /\ UNCHANGED ends
  /\ UNCHANGED <<queue, closed, pushed, popped, closedAt>>

\* try_recv; on an empty queue it returns unit and changes nothing.
TryRecv(t) ==
  /\ op[t] = Idle
  /\ queue # <<>>
  /\ queue' = Tail(queue)
  /\ popped' = Append(popped, Head(queue))
  /\ UNCHANGED <<closed, op, pushed, ends, closedAt>>

\* close, which may be called again
Close(t) ==
  /\ op[t] = Idle
  /\ closed' = TRUE
  /\ closedAt' = IF closed THEN closedAt ELSE Len(pushed)
  /\ UNCHANGED <<queue, op, pushed, popped, ends>>

\* What a thread does once it has begun an operation.
Continue(t) == Push(t) \/ Pop(t) \/ PopNothing(t) \/ CheckFlag(t)

Next ==
  \E t \in Threads :
    \/ \E v \in Values : Send(t, v)
    \/ Recv(t)
    \/ TryRecv(t)
    \/ Close(t)
    \/ Continue(t)

\* Threads are scheduled: an operation that has begun goes on.  Nothing makes a
\* thread begin one.
Fairness == \A t \in Threads : WF_vars(Continue(t))

Spec == Init /\ [][Next]_vars /\ Fairness

-----------------------------------------------------------------------------
(* Properties *)

TypeOK ==
  /\ queue \in Seq(Values)
  /\ closed \in BOOLEAN
  /\ op \in [Threads -> Ops]
  /\ pushed \in Seq(Values)
  /\ popped \in Seq(Values)
  /\ ends \subseteq 0 .. MaxSends
  /\ closedAt \in Nat
  /\ Len(pushed) + Cardinality(Senders) <= MaxSends

\* Values are received in the order in which they were pushed, each at most
\* once, whoever receives them.
Fifo == pushed = popped \o queue

\* A receiver is told the end only when everything that was pushed before it
\* began to receive has been taken by somebody.
EndMeansDrained == \A start \in ends : closed /\ start <= Len(popped)

\* After the close every thread but the one that closed pushes at most the one
\* value it was in the middle of sending: who begins to send later is refused.
LateSends ==
  closed => Len(pushed) + Cardinality(Senders) < closedAt + Cardinality(Threads)

\* Once the channel is closed, whoever receives returns.
ReceiversReturn ==
  \A t \in Threads : (closed /\ op[t].kind = "recv") ~> (op[t].kind # "recv")

=============================================================================
