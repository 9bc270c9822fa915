--------------------------- MODULE ChannelProofs -----------------------------
(***************************************************************************)
(* Channel for every finite set of threads, every set of values and every   *)
(* number of sends: type correctness, first in first out, what the end of a *)
(* channel means to a receiver, and how many values come after a close.     *)
(***************************************************************************)
EXTENDS Channel, FiniteSetTheorems, SequenceTheorems, TLAPS

USE MaxSendsAssumption, ThreadsAssumption

-----------------------------------------------------------------------------
(* Operations in progress *)

\* A thread in the middle of an operation has the fields of that operation.
LEMMA OpShape ==
  ASSUME NEW o \in Ops
  PROVE  /\ o.kind = "send" => o.value \in Values
         /\ o.kind = "recv" => /\ o.start \in 0 .. MaxSends
                               /\ o.at \in {"pop", "flag"}
                               /\ o = Receiving(o.start, o.at)
  BY DEF Ops, Idle, Sending, Receiving

LEMMA OpsIn ==
  /\ Idle \in Ops
  /\ \A v \in Values : Sending(v) \in Ops
  /\ \A n \in 0 .. MaxSends : Receiving(n, "pop") \in Ops /\ Receiving(n, "flag") \in Ops
  BY DEF Ops

LEMMA Kinds ==
  /\ Idle.kind = "idle"
  /\ \A v : Sending(v).kind = "send"
  /\ \A n, at : Receiving(n, at).kind = "recv"
  BY DEF Idle, Sending, Receiving

\* The senders are finitely many, and without an idle thread among them.
LEMMA SendersCount ==
  /\ IsFiniteSet(Senders)
  /\ Cardinality(Senders) \in Nat
  /\ Cardinality(Threads) \in Nat
  /\ \A t \in Threads \ Senders : Cardinality(Senders) < Cardinality(Threads)
<1>1. Senders \in SUBSET Threads
  BY DEF Senders
<1>2. IsFiniteSet(Senders) /\ Cardinality(Senders) <= Cardinality(Threads)
  BY <1>1, FS_Subset
<1>3. Cardinality(Senders) = Cardinality(Threads) => Threads = Senders
  BY <1>1, FS_Subset
<1>4. Cardinality(Senders) \in Nat /\ Cardinality(Threads) \in Nat
  BY <1>2, FS_CardinalityType
<1>5. QED
  BY <1>2, <1>3, <1>4

\* The senders after a step of t: it begins to send, ends a send, or does neither.
LEMMA SendersStep ==
  ASSUME NEW t \in Threads, \A s \in Threads \ {t} : op'[s] = op[s]
  PROVE  Cardinality(Senders)' =
           CASE op'[t].kind = "send" /\ t \notin Senders -> Cardinality(Senders) + 1
             [] op'[t].kind # "send" /\ t \in Senders    -> Cardinality(Senders) - 1
             [] OTHER                                    -> Cardinality(Senders)
<1>1. /\ Cardinality(Senders) \in Nat
      /\ Cardinality(Senders \union {t}) =
           IF t \in Senders THEN Cardinality(Senders) ELSE Cardinality(Senders) + 1
      /\ Cardinality(Senders \ {t}) =
           IF t \in Senders THEN Cardinality(Senders) - 1 ELSE Cardinality(Senders)
  BY SendersCount, FS_AddElement, FS_RemoveElement
<1>2. CASE op'[t].kind = "send"
  <2>1. Senders' = Senders \union {t}
    BY <1>2 DEF Senders
  <2>2. QED
    BY <1>1, <1>2, <2>1
<1>3. CASE op'[t].kind # "send"
  <2>1. Senders' = Senders \ {t}
    BY <1>3 DEF Senders
  <2>2. QED
    BY <1>1, <1>3, <2>1
<1>4. QED
  BY <1>2, <1>3

-----------------------------------------------------------------------------
(* Type correctness *)

LEMMA InitTypeOK == Init => TypeOK
<1> SUFFICES ASSUME Init PROVE TypeOK
  OBVIOUS
<1>1. Senders = {}
  BY DEF Init, Idle, Senders
<1>2. Cardinality(Senders) = 0
  BY <1>1, FS_EmptySet
<1>3. <<>> \in Seq(Values) /\ Len(<<>>) = 0
  BY EmptySeq
<1>4. op \in [Threads -> Ops]
  BY DEF Init, Ops
<1>5. Len(pushed) + Cardinality(Senders) <= MaxSends
  BY <1>2, <1>3 DEF Init
<1>6. QED
  BY <1>3, <1>4, <1>5 DEF Init, TypeOK

\* A step of t that pushes nothing and begins no send.
LEMMA NoSend ==
  ASSUME TypeOK, NEW t \in Threads, \A s \in Threads \ {t} : op'[s] = op[s],
         op'[t].kind = "send" => t \in Senders, UNCHANGED pushed
  PROVE  (Len(pushed) + Cardinality(Senders) <= MaxSends)'
<1>1. Cardinality(Senders) \in Nat /\ Len(pushed) \in Nat
  BY SendersCount, LenProperties DEF TypeOK
<1>2. Cardinality(Senders)' \in {Cardinality(Senders), Cardinality(Senders) - 1}
  BY SendersStep
<1>3. QED
  BY <1>1, <1>2 DEF TypeOK

LEMMA NextTypeOK == TypeOK /\ [Next]_vars => TypeOK'
<1> SUFFICES ASSUME TypeOK, [Next]_vars PROVE TypeOK'
  OBVIOUS
<1>1. Cardinality(Senders) \in Nat /\ Len(pushed) \in Nat /\ Len(pushed) <= MaxSends
  BY SendersCount, LenProperties DEF TypeOK
<1>2. ASSUME NEW t \in Threads, NEW v \in Values, Send(t, v) PROVE TypeOK'
  <2>1. op' \in [Threads -> Ops] /\ op'[t].kind = "send" /\ t \notin Senders
    BY <1>2, OpsIn, Kinds DEF Send, TypeOK, Senders
  <2>2. \A s \in Threads \ {t} : op'[s] = op[s]
    BY <1>2 DEF Send, TypeOK
  <2>3. Cardinality(Senders)' = Cardinality(Senders) + 1
    BY <2>1, <2>2, SendersStep
  <2>4. (Len(pushed) + Cardinality(Senders) <= MaxSends)'
    BY <1>1, <1>2, <2>3 DEF Send
  <2>5. QED
    BY <1>2, <2>1, <2>4 DEF Send, TypeOK
<1>3. ASSUME NEW t \in Threads, Recv(t) PROVE TypeOK'
  <2>1. op' \in [Threads -> Ops] /\ op'[t].kind # "send"
    BY <1>1, <1>3, OpsIn, Kinds DEF Recv, TypeOK
  <2>2. \A s \in Threads \ {t} : op'[s] = op[s]
    BY <1>3 DEF Recv, TypeOK
  <2>3. (Len(pushed) + Cardinality(Senders) <= MaxSends)'
    BY <1>3, <2>1, <2>2, NoSend DEF Recv
  <2>4. QED
    BY <1>3, <2>1, <2>3 DEF Recv, TypeOK
<1>4. ASSUME NEW t \in Threads, TryRecv(t) PROVE TypeOK'
  <2>1. Tail(queue) \in Seq(Values) /\ Append(popped, Head(queue)) \in Seq(Values)
    BY <1>4, HeadTailProperties, AppendProperties DEF TryRecv, TypeOK
  <2>2. QED
    BY <1>4, <2>1 DEF TryRecv, TypeOK, Senders
<1>5. ASSUME NEW t \in Threads, Close(t) PROVE TypeOK'
  BY <1>1, <1>5 DEF Close, TypeOK, Senders
<1>6. ASSUME NEW t \in Threads, Push(t) PROVE TypeOK'
  <2>1. op[t].value \in Values
    BY <1>6, OpShape DEF Push, TypeOK
  <2>2. /\ Append(queue, op[t].value) \in Seq(Values)
        /\ Append(pushed, op[t].value) \in Seq(Values)
        /\ Len(Append(pushed, op[t].value)) = Len(pushed) + 1
    BY <2>1, AppendProperties DEF TypeOK
  <2>3. op' \in [Threads -> Ops] /\ op'[t].kind # "send" /\ t \in Senders
    BY <1>6, OpsIn, Kinds DEF Push, TypeOK, Senders
  <2>4. \A s \in Threads \ {t} : op'[s] = op[s]
    BY <1>6 DEF Push, TypeOK
  <2>5. Cardinality(Senders)' = Cardinality(Senders) - 1
    BY <2>3, <2>4, SendersStep
  <2>6. (Len(pushed) + Cardinality(Senders) <= MaxSends)'
    BY <1>1, <1>6, <2>2, <2>5 DEF Push, TypeOK
  <2>7. QED
    BY <1>6, <2>2, <2>3, <2>6 DEF Push, TypeOK
<1>7. ASSUME NEW t \in Threads, Pop(t) PROVE TypeOK'
  <2>1. Tail(queue) \in Seq(Values) /\ Append(popped, Head(queue)) \in Seq(Values)
    BY <1>7, HeadTailProperties, AppendProperties DEF Pop, TypeOK
  <2>2. op' \in [Threads -> Ops] /\ op'[t].kind # "send"
    BY <1>7, OpsIn, Kinds DEF Pop, TypeOK
  <2>3. \A s \in Threads \ {t} : op'[s] = op[s]
    BY <1>7 DEF Pop, TypeOK
  <2>4. (Len(pushed) + Cardinality(Senders) <= MaxSends)'
    BY <1>7, <2>2, <2>3, NoSend DEF Pop
  <2>5. QED
    BY <1>7, <2>1, <2>2, <2>4 DEF Pop, TypeOK
<1>8. ASSUME NEW t \in Threads, PopNothing(t) \/ CheckFlag(t) PROVE TypeOK'
  <2>1. op[t].start \in 0 .. MaxSends
    BY <1>8, OpShape DEF PopNothing, CheckFlag, TypeOK
  <2>2. op' \in [Threads -> Ops] /\ op'[t].kind # "send"
    BY <1>8, <2>1, OpsIn, Kinds DEF PopNothing, CheckFlag, TypeOK
  <2>3. \A s \in Threads \ {t} : op'[s] = op[s]
    BY <1>8 DEF PopNothing, CheckFlag, TypeOK
  <2>4. (Len(pushed) + Cardinality(Senders) <= MaxSends)'
    BY <1>8, <2>2, <2>3, NoSend DEF PopNothing, CheckFlag
  <2>5. ends' \subseteq 0 .. MaxSends
    BY <1>8, <2>1 DEF PopNothing, CheckFlag, TypeOK
  <2>6. QED
    BY <1>8, <2>2, <2>4, <2>5 DEF PopNothing, CheckFlag, TypeOK
<1>9. CASE UNCHANGED vars
  BY <1>9 DEF vars, TypeOK, Senders
<1>10. QED
  BY <1>2, <1>3, <1>4, <1>5, <1>6, <1>7, <1>8, <1>9 DEF Next, Continue

\* Type correctness: every operation in progress is one of the model's, and the
\* sends begun are as many as allowed.
THEOREM ChannelTypeOK == Spec => []TypeOK
  BY InitTypeOK, NextTypeOK, PTL DEF Spec

-----------------------------------------------------------------------------
(* First in, first out *)

\* Taking the head of the queue moves it to the end of what was taken.
LEMMA HeadToBack ==
  ASSUME NEW S, NEW p \in Seq(S), NEW q \in Seq(S), q # <<>>
  PROVE  p \o q = Append(p, Head(q)) \o Tail(q)
<1>1. Head(q) \in S /\ Tail(q) \in Seq(S) /\ Head(q) = q[1] /\ Len(q) \in Nat \ {0}
  BY HeadTailProperties, LenProperties, EmptySeq
<1>2. q = <<Head(q)>> \o Tail(q)
  <2>1. SubSeq(q, 1, Len(q)) = <<q[1]>> \o SubSeq(q, 1 + 1, Len(q))
    BY <1>1, SubSeqRecursiveFirst
  <2>2. QED
    BY <1>1, <2>1, SubSeqFull, TailIsSubSeq
<1>3. <<Head(q)>> \in Seq(S)
  BY <1>1
<1>4. p \o (<<Head(q)>> \o Tail(q)) = (p \o <<Head(q)>>) \o Tail(q)
  BY <1>1, <1>3, ConcatAssociative
<1>5. Append(p, Head(q)) = p \o <<Head(q)>>
  BY <1>1, AppendIsConcat
<1>6. QED
  BY <1>2, <1>4, <1>5

LEMMA NextFifo == TypeOK /\ Fifo /\ [Next]_vars => Fifo'
<1> SUFFICES ASSUME TypeOK, Fifo, [Next]_vars PROVE Fifo'
  OBVIOUS
<1>1. ASSUME NEW t \in Threads, Push(t) PROVE Fifo'
  <2>1. op[t].value \in Values
    BY <1>1, OpShape DEF Push, TypeOK
  <2> DEFINE last == <<op[t].value>>
  <2>2. last \in Seq(Values)
    BY <2>1
  <2>3. pushed' = (popped \o queue) \o last /\ queue' = queue \o last
    BY <1>1, <2>1, AppendIsConcat DEF Push, TypeOK, Fifo
  <2> HIDE DEF last
  <2>4. QED
    BY <1>1, <2>2, <2>3, ConcatAssociative DEF Push, TypeOK, Fifo
<1>2. ASSUME NEW t \in Threads, Pop(t) \/ TryRecv(t) PROVE Fifo'
  BY <1>2, HeadToBack DEF Pop, TryRecv, TypeOK, Fifo
<1>3. ASSUME UNCHANGED <<queue, pushed, popped>> PROVE Fifo'
  BY <1>3 DEF Fifo
<1>4. QED
  BY <1>1, <1>2, <1>3 DEF Next, Continue, Send, Recv, Close, PopNothing, CheckFlag, vars

\* Values are received in the order in which they were pushed, none twice and
\* none left out: what was pushed is what was popped and then what is queued.
THEOREM ChannelFifo == Spec => []Fifo
<1>1. Init => Fifo
  <2>1. <<>> \in Seq(Values)
    BY EmptySeq
  <2>2. QED
    BY <2>1, ConcatEmptySeq DEF Init, Fifo
<1>2. QED
  BY <1>1, NextFifo, ChannelTypeOK, PTL DEF Spec

-----------------------------------------------------------------------------
(* The end of the channel *)

\* A receiver that is about to look at the flag found everything taken that had
\* been pushed before it began.
EndInv ==
  /\ \A t \in Threads : op[t].kind = "recv" => op[t].start <= Len(pushed)
  /\ \A t \in Threads :
       op[t].kind = "recv" /\ op[t].at = "flag" => op[t].start <= Len(popped)
  /\ EndMeansDrained

\* How many values were pushed and popped never decreases.
LEMMA CountsGrow ==
  ASSUME TypeOK, [Next]_vars
  PROVE  /\ Len(pushed) \in Nat /\ Len(pushed)' \in Nat /\ Len(pushed) <= Len(pushed)'
         /\ Len(popped) \in Nat /\ Len(popped)' \in Nat /\ Len(popped) <= Len(popped)'
<1>1. Len(pushed) \in Nat /\ Len(popped) \in Nat
  BY LenProperties DEF TypeOK
<1>2. ASSUME NEW t \in Threads, Push(t) PROVE Len(pushed)' = Len(pushed) + 1
  BY <1>2, OpShape, AppendProperties DEF Push, TypeOK
<1>3. ASSUME NEW t \in Threads, Pop(t) \/ TryRecv(t) PROVE Len(popped)' = Len(popped) + 1
  BY <1>3, HeadTailProperties, AppendProperties DEF Pop, TryRecv, TypeOK
<1>4. \/ \E t \in Threads : Push(t) /\ UNCHANGED popped
      \/ \E t \in Threads : (Pop(t) \/ TryRecv(t)) /\ UNCHANGED pushed
      \/ UNCHANGED <<pushed, popped>>
  BY DEF Next, Continue, Send, Recv, Close, PopNothing, CheckFlag, Push, Pop, TryRecv, vars
<1>5. QED
  BY <1>1, <1>2, <1>3, <1>4

LEMMA NextEndInv == TypeOK /\ Fifo /\ EndInv /\ [Next]_vars => EndInv'
<1> SUFFICES ASSUME TypeOK, Fifo, EndInv, [Next]_vars PROVE EndInv'
  OBVIOUS
<1>1. /\ Len(pushed) \in Nat /\ Len(pushed)' \in Nat /\ Len(pushed) <= Len(pushed)'
      /\ Len(popped) \in Nat /\ Len(popped)' \in Nat /\ Len(popped) <= Len(popped)'
  BY CountsGrow
<1>2. \A t \in Threads : op[t].kind = "recv" => op[t].start \in Nat
  BY OpShape DEF TypeOK
<1>3. ends \subseteq Nat
  BY DEF TypeOK
<1>4. ASSUME closed => closed', ends' = ends PROVE EndMeansDrained'
  BY <1>1, <1>3, <1>4 DEF EndInv, EndMeansDrained
<1>5. ASSUME NEW t \in Threads, Push(t) \/ Pop(t) \/ (\E v \in Values : Send(t, v)) PROVE EndInv'
  <2>1. op'[t].kind # "recv" /\ \A s \in Threads \ {t} : op'[s] = op[s]
    BY <1>5, Kinds DEF Push, Pop, Send, TypeOK
  <2>2. EndMeansDrained'
    BY <1>4, <1>5 DEF Push, Pop, Send
  <2>3. QED
    BY <1>1, <1>2, <2>1, <2>2 DEF EndInv
<1>6. ASSUME NEW t \in Threads, Recv(t) PROVE EndInv'
  <2>1. /\ op'[t] = Receiving(Len(pushed), "pop")
        /\ \A s \in Threads \ {t} : op'[s] = op[s]
    BY <1>6 DEF Recv, TypeOK
  <2>2. op'[t].start = Len(pushed) /\ op'[t].at = "pop"
    BY <2>1 DEF Receiving
  <2>3. EndMeansDrained'
    BY <1>4, <1>6 DEF Recv
  <2>4. QED
    BY <1>1, <1>2, <2>1, <2>2, <2>3 DEF EndInv
<1>7. ASSUME NEW t \in Threads, TryRecv(t) \/ Close(t) PROVE EndInv'
  <2>1. EndMeansDrained'
    BY <1>4, <1>7 DEF TryRecv, Close
  <2>2. op' = op
    BY <1>7 DEF TryRecv, Close
  <2>3. QED
    BY <1>1, <1>2, <2>1, <2>2 DEF EndInv
<1>8. ASSUME NEW t \in Threads, PopNothing(t) PROVE EndInv'
  <2>1. /\ op'[t] = Receiving(op[t].start, "flag")
        /\ \A s \in Threads \ {t} : op'[s] = op[s]
    BY <1>8 DEF PopNothing, TypeOK
  <2>2. op'[t].start = op[t].start
    BY <2>1 DEF Receiving
  <2>3. pushed = popped
    BY <1>8, ConcatEmptySeq DEF PopNothing, TypeOK, Fifo
  <2>4. op[t].start <= Len(popped)
    BY <1>8, <2>3 DEF PopNothing, EndInv
  <2>5. EndMeansDrained'
    BY <1>4, <1>8 DEF PopNothing
  <2>6. QED
    BY <1>1, <1>2, <1>8, <2>1, <2>2, <2>3, <2>4, <2>5 DEF EndInv, PopNothing
<1>9. ASSUME NEW t \in Threads, CheckFlag(t) PROVE EndInv'
  <2>1. \A s \in Threads \ {t} : op'[s] = op[s]
    BY <1>9 DEF CheckFlag, TypeOK
  <2>2. op'[t].kind = "recv" => op'[t].start = op[t].start /\ op'[t].at = "pop"
    BY <1>9, Kinds DEF CheckFlag, TypeOK, Receiving
  <2>3. op[t].start <= Len(popped) /\ op[t].start <= Len(pushed) /\ op[t].kind = "recv"
    BY <1>9 DEF CheckFlag, EndInv
  <2>4. EndMeansDrained'
    BY <1>1, <1>3, <1>9, <2>3 DEF CheckFlag, EndInv, EndMeansDrained
  <2>5. QED
    BY <1>1, <1>2, <2>1, <2>2, <2>3, <2>4 DEF EndInv
<1>10. CASE UNCHANGED vars
  BY <1>10 DEF vars, EndInv, EndMeansDrained
<1>11. QED
  BY <1>5, <1>6, <1>7, <1>8, <1>9, <1>10 DEF Next, Continue

\* A receiver that is told the end missed nothing that was pushed before it
\* began to receive.
THEOREM ChannelEndMeansDrained == Spec => []EndMeansDrained
<1>1. Init => EndInv
  BY Kinds DEF Init, EndInv, EndMeansDrained
<1>2. EndInv => EndMeansDrained
  BY DEF EndInv
<1>3. QED
  BY <1>1, <1>2, NextEndInv, ChannelTypeOK, ChannelFifo, PTL DEF Spec

-----------------------------------------------------------------------------
(* Sends that come after the close *)

LEMMA NextLateSends == TypeOK /\ LateSends /\ [Next]_vars => LateSends'
<1> SUFFICES ASSUME TypeOK, LateSends, [Next]_vars PROVE LateSends'
  OBVIOUS
<1>1. /\ Len(pushed) \in Nat /\ Cardinality(Senders) \in Nat
      /\ Cardinality(Threads) \in Nat /\ closedAt \in Nat
  BY SendersCount, LenProperties DEF TypeOK
<1>2. ASSUME NEW t \in Threads, Recv(t) \/ Pop(t) \/ PopNothing(t) \/ CheckFlag(t)
      PROVE  LateSends'
  <2>1. op'[t].kind # "send" /\ \A s \in Threads \ {t} : op'[s] = op[s]
    BY <1>2, Kinds DEF Recv, Pop, PopNothing, CheckFlag, TypeOK
  <2>2. Cardinality(Senders)' \in {Cardinality(Senders), Cardinality(Senders) - 1}
    BY <2>1, SendersStep
  <2>3. UNCHANGED <<closed, pushed, closedAt>>
    BY <1>2 DEF Recv, Pop, PopNothing, CheckFlag
  <2>4. QED
    BY <1>1, <2>2, <2>3 DEF LateSends
<1>3. ASSUME NEW t \in Threads, Push(t) PROVE LateSends'
  <2>1. /\ op'[t].kind # "send" /\ t \in Senders
        /\ \A s \in Threads \ {t} : op'[s] = op[s]
    BY <1>3, Kinds DEF Push, TypeOK, Senders
  <2>2. Cardinality(Senders)' = Cardinality(Senders) - 1
    BY <2>1, SendersStep
  <2>3. Len(pushed)' = Len(pushed) + 1
    BY <1>3, OpShape, AppendProperties DEF Push, TypeOK
  <2>4. QED
    BY <1>1, <1>3, <2>2, <2>3 DEF LateSends, Push
<1>4. ASSUME NEW t \in Threads, Close(t) PROVE LateSends'
  <2>1. UNCHANGED <<Senders, pushed>>
    BY <1>4 DEF Close, Senders
  <2>2. Cardinality(Senders) < Cardinality(Threads)
    BY <1>4, Kinds, SendersCount DEF Close, Senders
  <2>3. CASE closed
    BY <1>4, <2>1, <2>3 DEF Close, LateSends
  <2>4. CASE ~closed
    <3>1. closedAt' = Len(pushed)
      BY <1>4, <2>4 DEF Close
    <3>2. QED
      BY <1>1, <2>1, <2>2, <3>1 DEF LateSends
  <2>5. QED
    BY <2>3, <2>4
<1>5. ASSUME NEW t \in Threads, NEW v \in Values, Send(t, v) PROVE LateSends'
  BY <1>5 DEF Send, LateSends
<1>6. ASSUME NEW t \in Threads, TryRecv(t) PROVE LateSends'
  BY <1>6 DEF TryRecv, LateSends, Senders
<1>7. CASE UNCHANGED vars
  BY <1>7 DEF vars, LateSends, Senders
<1>8. QED
  BY <1>2, <1>3, <1>4, <1>5, <1>6, <1>7 DEF Next, Continue

\* After the close only sends that had begun before it push their value, one for
\* each thread but the one that closed.
THEOREM ChannelLateSends == Spec => []LateSends
<1>1. Init => LateSends
  BY DEF Init, LateSends
<1>2. QED
  BY <1>1, NextLateSends, ChannelTypeOK, PTL DEF Spec
=============================================================================
