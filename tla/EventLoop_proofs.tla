-------------------------- MODULE EventLoop_proofs --------------------------
(***************************************************************************)
(* Proofs about EventLoop, for every set of loops, threads and tasks and   *)
(* for every bound: its type invariant, the invariants that the runs       *)
(* check, and the refinement of FunctorQueue.                              *)
(***************************************************************************)
EXTENDS EventLoop, SequenceTheorems, TLAPS

-----------------------------------------------------------------------------
(* What the operators return.                                              *)

\* What a callback may queue is a sequence of functors for each loop.
LEMMA NewsType ==
  ASSUME NEW l \in Loops, NEW origin \in Origin, NEW news \in News(l, origin)
  PROVE  news \in [Loops -> Seq(Functor)]
<1>1. PICK tasks \in [Loops -> BoundedSeq(Task, Burst)] :
        news = [m \in Loops |-> [i \in DOMAIN tasks[m] |->
                  [by |-> IF m = l THEN origin ELSE "remote", task |-> tasks[m][i]]]]
  BY DEF News
<1>2. ASSUME NEW m \in Loops PROVE news[m] \in Seq(Functor)
  <2>1. PICK n \in 0 .. Burst : tasks[m] \in [1 .. n -> Task]
    BY DEF BoundedSeq, SeqOf
  <2>2. news[m] = [i \in 1 .. n |->
                     [by |-> IF m = l THEN origin ELSE "remote", task |-> tasks[m][i]]]
    BY <1>1, <2>1
  <2>3. n \in Nat
    BY <2>1, Assumption
  <2>4. \A i \in 1 .. n : news[m][i] \in Functor
    BY <2>1, <2>2 DEF Functor, Origin
  <2>5. news[m] = [i \in 1 .. n |-> news[m][i]]
    BY <2>2
  <2> QED BY <2>3, <2>4, <2>5
<1>3. news = [m \in Loops |-> news[m]]
  BY <1>1
<1> QED BY <1>2, <1>3

\* The wakeup channel's handler, which queues nothing, only resets the eventfd.
LEMMA WakeupChangesLittle ==
  ASSUME TypeOK, NEW l \in Loops, HandleWakeup(l)
  PROVE  /\ active' = [active EXCEPT ![l] = @ \ {"wakeup"}]
         /\ eventfd' = [eventfd EXCEPT ![l] = FALSE]
         /\ UNCHANGED <<phase, looping, pending, batch, calling, toWake>>
<1>1. pending' = [m \in Loops |-> pending[m] \o <<>>]
  BY DEF HandleWakeup, HandleEvent, Call, Push
<1>2. \A m \in Loops : pending[m] \o <<>> = pending[m]
  BY ConcatEmptySeq DEF TypeOK
<1>3. pending' = pending
  BY <1>1, <1>2 DEF TypeOK
<1>4. looping' = looping
  BY DEF HandleWakeup, HandleEvent, Call, TypeOK
<1>5. toWake' = toWake
  BY DEF HandleWakeup, HandleEvent, Call, Woken, Free, TypeOK, AllThreads
<1> QED BY <1>3, <1>4, <1>5 DEF HandleWakeup, HandleEvent, TypeOK

\* One more functor at the end of a vector of functors.
LEMMA OneFunctor ==
  ASSUME NEW origin \in Origin, NEW task \in Task, NEW s \in Seq(Functor)
  PROVE  Append(s, [by |-> origin, task |-> task]) \in Seq(Functor)
<1>1. [by |-> origin, task |-> task] \in Functor
  BY DEF Functor
<1> QED BY <1>1, AppendProperties

\* A callback keeps the types of what it changes.
LEMMA CallType ==
  ASSUME TypeOK, NEW l \in Loops, NEW news \in [Loops -> Seq(Functor)],
         NEW quits \in SUBSET Loops, Call(l, news, quits)
  PROVE  /\ looping' \in [Loops -> BOOLEAN]
         /\ pending' \in [Loops -> Seq(Functor)]
         /\ toWake' \in [AllThreads -> SUBSET Loops]
<1>1. looping' \in [Loops -> BOOLEAN]
  BY DEF Call, TypeOK
<1>2. pending' \in [Loops -> Seq(Functor)]
  <2>1. \A m \in Loops : pending[m] \o news[m] \in Seq(Functor)
    BY ConcatProperties DEF TypeOK
  <2> QED BY <2>1 DEF Call, Push
<1>3. toWake' \in [AllThreads -> SUBSET Loops]
  BY DEF Call, Woken, TypeOK, AllThreads
<1> QED BY <1>1, <1>2, <1>3

-----------------------------------------------------------------------------

\* The variables keep their types, whatever is queued by whom.
THEOREM TypeCorrect == SafeSpec => []TypeOK
<1>1. Init => TypeOK
  BY DEF Init, TypeOK, Phase
<1>2. TypeOK /\ [Next]_vars => TypeOK'
  <2> SUFFICES ASSUME TypeOK, [Next]_vars PROVE TypeOK'
    OBVIOUS
  <2> USE DEF TypeOK
  <2>1. ASSUME NEW l \in Loops, StartLoop(l) PROVE TypeOK'
    BY <2>1 DEF StartLoop, Goto, Phase
  <2>2. ASSUME NEW l \in Loops, NEW ready \in SUBSET Channels, Poll(l, ready) PROVE TypeOK'
    BY <2>2 DEF Poll, Goto, Phase
  <2>3. ASSUME NEW l \in Loops, WhileTest(l) PROVE TypeOK'
    BY <2>3 DEF WhileTest, Goto, Phase
  <2>4. ASSUME NEW l \in Loops, HandleWakeup(l) PROVE TypeOK'
    <3>1. /\ active' = [active EXCEPT ![l] = @ \ {"wakeup"}]
          /\ eventfd' = [eventfd EXCEPT ![l] = FALSE]
          /\ UNCHANGED <<phase, looping, pending, batch, calling, toWake>>
      BY <2>4, WakeupChangesLittle
    <3> QED BY <3>1
  <2>5. ASSUME NEW l \in Loops, NEW ch \in Channels, NEW news \in News(l, "handler"),
               NEW quits \in SUBSET Loops, HandleEvent(l, ch, news, quits)
        PROVE TypeOK'
    <3>1. news \in [Loops -> Seq(Functor)]
      BY NewsType DEF Origin
    <3>2. Call(l, news, quits)
      BY <2>5 DEF HandleEvent
    <3>3. /\ looping' \in [Loops -> BOOLEAN]
          /\ pending' \in [Loops -> Seq(Functor)]
          /\ toWake' \in [AllThreads -> SUBSET Loops]
      BY <3>1, <3>2, CallType
    <3> QED BY <2>5, <3>3 DEF HandleEvent
  <2>6. ASSUME NEW l \in Loops, SwapPending(l) PROVE TypeOK'
    BY <2>6 DEF SwapPending, Goto, Phase
  <2>7. ASSUME NEW l \in Loops, NEW news \in News(l, "functor"),
               NEW quits \in SUBSET Loops, RunFunctor(l, news, quits)
        PROVE TypeOK'
    <3>1. news \in [Loops -> Seq(Functor)]
      BY NewsType DEF Origin
    <3>2. Call(l, news, quits)
      BY <2>7 DEF RunFunctor
    <3>3. /\ looping' \in [Loops -> BOOLEAN]
          /\ pending' \in [Loops -> Seq(Functor)]
          /\ toWake' \in [AllThreads -> SUBSET Loops]
      BY <3>1, <3>2, CallType
    <3>4. batch' \in [Loops -> Seq(Functor)]
      BY <2>7 DEF RunFunctor
    <3> QED BY <2>7, <3>3, <3>4 DEF RunFunctor
  <2>8. ASSUME NEW l \in Loops, EndFunctors(l) PROVE TypeOK'
    BY <2>8 DEF EndFunctors, Goto, Phase
  <2>9. ASSUME NEW l \in Loops, NEW task \in Task, QueueBeforeLoop(l, task)
        PROVE TypeOK'
    <3>1. Append(pending[l], [by |-> "init", task |-> task]) \in Seq(Functor)
      BY OneFunctor DEF Origin
    <3> QED BY <2>9, <3>1 DEF QueueBeforeLoop
  <2>10. ASSUME NEW t \in Threads, NEW l \in Loops, Quit(t, l) PROVE TypeOK'
    BY <2>10 DEF Quit, AllThreads
  <2>11. ASSUME NEW t \in Threads, NEW l \in Loops, NEW task \in Task,
                QueueInLoop(t, l, task)
         PROVE TypeOK'
    <3>1. Append(pending[l], [by |-> "remote", task |-> task]) \in Seq(Functor)
      BY OneFunctor DEF Origin
    <3> QED BY <2>11, <3>1 DEF QueueInLoop, AllThreads
  <2>12. ASSUME NEW t \in AllThreads, NEW l \in Loops, Wakeup(t, l) PROVE TypeOK'
    BY <2>12 DEF Wakeup
  <2>13. CASE UNCHANGED vars
    BY <2>13 DEF vars
  <2> QED BY <2>1, <2>2, <2>3, <2>4, <2>5, <2>6, <2>7, <2>8, <2>9, <2>10, <2>11,
             <2>12, <2>13 DEF Next, LoopStep, HandleSome, RunSome, ThreadStep
<1> QED BY <1>1, <1>2, PTL DEF SafeSpec

-----------------------------------------------------------------------------

\* The batch is empty, and m_bCallingPendingFactors is false, outside the
\* second half of doPendingFunctors().
THEOREM BatchDoneInvariant == SafeSpec => []BatchDone
<1>1. Init => BatchDone
  BY DEF Init, BatchDone
<1>2. TypeOK /\ BatchDone /\ [Next]_vars => BatchDone'
  <2> SUFFICES ASSUME TypeOK, BatchDone, [Next]_vars PROVE BatchDone'
    OBVIOUS
  <2> USE DEF TypeOK, BatchDone
  <2>1. ASSUME NEW l \in Loops, StartLoop(l) PROVE BatchDone'
    BY <2>1 DEF StartLoop, Goto
  <2>2. ASSUME NEW l \in Loops, NEW ready \in SUBSET Channels, Poll(l, ready) PROVE BatchDone'
    BY <2>2 DEF Poll, Goto
  <2>3. ASSUME NEW l \in Loops, WhileTest(l) PROVE BatchDone'
    BY <2>3 DEF WhileTest, Goto
  <2>4. ASSUME NEW l \in Loops, HandleWakeup(l) PROVE BatchDone'
    <3>1. /\ active' = [active EXCEPT ![l] = @ \ {"wakeup"}]
          /\ eventfd' = [eventfd EXCEPT ![l] = FALSE]
          /\ UNCHANGED <<phase, looping, pending, batch, calling, toWake>>
      BY <2>4, WakeupChangesLittle
    <3> QED BY <3>1
  <2>5. ASSUME NEW l \in Loops, NEW ch \in Channels, NEW news \in News(l, "handler"),
               NEW quits \in SUBSET Loops, HandleEvent(l, ch, news, quits)
        PROVE BatchDone'
    BY <2>5 DEF HandleEvent
  <2>6. ASSUME NEW l \in Loops, SwapPending(l) PROVE BatchDone'
    BY <2>6 DEF SwapPending, Goto
  <2>7. ASSUME NEW l \in Loops, NEW news \in News(l, "functor"),
               NEW quits \in SUBSET Loops, RunFunctor(l, news, quits)
        PROVE BatchDone'
    BY <2>7 DEF RunFunctor
  <2>8. ASSUME NEW l \in Loops, EndFunctors(l) PROVE BatchDone'
    BY <2>8 DEF EndFunctors, Goto
  <2>9. ASSUME NEW l \in Loops, NEW task \in Task, QueueBeforeLoop(l, task)
        PROVE BatchDone'
    BY <2>9 DEF QueueBeforeLoop
  <2>10. ASSUME NEW t \in Threads, ThreadStep(t) PROVE BatchDone'
    BY <2>10 DEF ThreadStep, Quit, QueueInLoop
  <2>11. ASSUME NEW t \in AllThreads, NEW l \in Loops, Wakeup(t, l) PROVE BatchDone'
    BY <2>11 DEF Wakeup
  <2>12. CASE UNCHANGED vars
    BY <2>12 DEF vars
  <2> QED BY <2>1, <2>2, <2>3, <2>4, <2>5, <2>6, <2>7, <2>8, <2>9, <2>10, <2>11,
             <2>12 DEF Next, LoopStep, HandleSome, RunSome
<1> QED BY <1>1, <1>2, TypeCorrect, PTL DEF SafeSpec

-----------------------------------------------------------------------------

\* No functor has the given origin.
NoneBy(s, origin) == \A i \in DOMAIN s : s[i].by # origin

\* The origins of a vector that grew are those of its two parts.
LEMMA NoneByConcat ==
  ASSUME NEW S, NEW s \in Seq(S), NEW u \in Seq(S), NEW origin,
         NoneBy(s, origin), NoneBy(u, origin)
  PROVE  NoneBy(s \o u, origin)
<1> SUFFICES ASSUME NEW i \in DOMAIN (s \o u) PROVE (s \o u)[i].by # origin
  BY DEF NoneBy
<1>1. /\ Len(s \o u) = Len(s) + Len(u)
      /\ DOMAIN (s \o u) = 1 .. Len(s \o u)
      /\ DOMAIN s = 1 .. Len(s)
      /\ DOMAIN u = 1 .. Len(u)
  BY ConcatProperties, LenProperties
<1>2. CASE i <= Len(s)
  BY <1>1, <1>2, ConcatProperties DEF NoneBy
<1>3. CASE i > Len(s)
  <2>1. i - Len(s) \in DOMAIN u /\ (s \o u)[i] = u[i - Len(s)]
    BY <1>1, <1>3, ConcatProperties, LenProperties
  <2> QED BY <2>1 DEF NoneBy
<1> QED BY <1>1, <1>2, <1>3, LenProperties

LEMMA NoneByAppend ==
  ASSUME NEW S, NEW s \in Seq(S), NEW f \in S, NEW origin,
         NoneBy(s, origin), f.by # origin
  PROVE  NoneBy(Append(s, f), origin)
<1>1. /\ Len(Append(s, f)) = Len(s) + 1
      /\ \A i \in 1 .. Len(s) : Append(s, f)[i] = s[i]
      /\ Append(s, f)[Len(s) + 1] = f
      /\ DOMAIN Append(s, f) = 1 .. Len(s) + 1
      /\ DOMAIN s = 1 .. Len(s)
      /\ Len(s) \in Nat
  BY AppendProperties, LenProperties
<1> QED BY <1>1 DEF NoneBy

\* What a callback of l queues on a loop m has one origin.
LEMMA NewsBy ==
  ASSUME NEW l \in Loops, NEW m \in Loops, NEW by, NEW origin,
         NEW news \in News(l, by),
         origin # (IF m = l THEN by ELSE "remote")
  PROVE  NoneBy(news[m], origin)
BY DEF News, NoneBy

\* No functor that a loop's own event handler queued is left in the vector
\* when the loop is not handling events.
THEOREM OwnHandlersServedInvariant == SafeSpec => []OwnHandlersServed
<1> DEFINE Served(l) == phase[l] # "events" => NoneBy(pending[l], "handler")
<1>0. OwnHandlersServed <=> \A l \in Loops : Served(l)
  BY DEF OwnHandlersServed, NoneBy
<1>1. Init => OwnHandlersServed
  BY DEF Init, OwnHandlersServed
<1>2. TypeOK /\ OwnHandlersServed /\ [Next]_vars => OwnHandlersServed'
  <2> SUFFICES ASSUME TypeOK, \A l \in Loops : Served(l), [Next]_vars, NEW m \in Loops
               PROVE  Served(m)'
    BY <1>0 DEF OwnHandlersServed, NoneBy
  <2> USE DEF TypeOK
  <2>1. ASSUME NEW l \in Loops, StartLoop(l) PROVE Served(m)'
    BY <2>1 DEF StartLoop, Goto
  <2>2. ASSUME NEW l \in Loops, NEW ready \in SUBSET Channels, Poll(l, ready) PROVE Served(m)'
    BY <2>2 DEF Poll, Goto
  <2>3. ASSUME NEW l \in Loops, WhileTest(l) PROVE Served(m)'
    BY <2>3 DEF WhileTest, Goto
  <2>4. ASSUME NEW l \in Loops, HandleWakeup(l) PROVE Served(m)'
    <3>1. /\ active' = [active EXCEPT ![l] = @ \ {"wakeup"}]
          /\ eventfd' = [eventfd EXCEPT ![l] = FALSE]
          /\ UNCHANGED <<phase, looping, pending, batch, calling, toWake>>
      BY <2>4, WakeupChangesLittle
    <3> QED BY <3>1
  <2>5. ASSUME NEW l \in Loops, NEW ch \in Channels, NEW news \in News(l, "handler"),
               NEW quits \in SUBSET Loops, HandleEvent(l, ch, news, quits)
        PROVE Served(m)'
    <3>1. news \in [Loops -> Seq(Functor)]
      BY NewsType DEF Origin
    <3>2. /\ pending'[m] = pending[m] \o news[m]
          /\ phase' = phase /\ phase[l] = "events"
      BY <2>5 DEF HandleEvent, Call, Push
    <3>3. m # l => NoneBy(news[m], "handler")
      BY NewsBy
    <3> QED BY <3>1, <3>2, <3>3, NoneByConcat
  <2>6. ASSUME NEW l \in Loops, SwapPending(l) PROVE Served(m)'
    BY <2>6 DEF SwapPending, Goto, NoneBy
  <2>7. ASSUME NEW l \in Loops, NEW news \in News(l, "functor"),
               NEW quits \in SUBSET Loops, RunFunctor(l, news, quits)
        PROVE Served(m)'
    <3>1. news \in [Loops -> Seq(Functor)]
      BY NewsType DEF Origin
    <3>2. pending'[m] = pending[m] \o news[m] /\ phase' = phase
      BY <2>7 DEF RunFunctor, Call, Push
    <3>3. NoneBy(news[m], "handler")
      BY NewsBy
    <3> QED BY <3>1, <3>2, <3>3, NoneByConcat
  <2>8. ASSUME NEW l \in Loops, EndFunctors(l) PROVE Served(m)'
    BY <2>8 DEF EndFunctors, Goto
  <2>9. ASSUME NEW l \in Loops, NEW task \in Task, QueueBeforeLoop(l, task)
        PROVE Served(m)'
    <3>1. [by |-> "init", task |-> task] \in Functor
      BY DEF Functor, Origin
    <3>2. NoneBy(pending[m], "handler")
             => NoneBy(Append(pending[m], [by |-> "init", task |-> task]), "handler")
      BY <3>1, NoneByAppend
    <3> QED BY <2>9, <3>2 DEF QueueBeforeLoop
  <2>10. ASSUME NEW t \in Threads, NEW l \in Loops, Quit(t, l) PROVE Served(m)'
    BY <2>10 DEF Quit
  <2>11. ASSUME NEW t \in Threads, NEW l \in Loops, NEW task \in Task,
                QueueInLoop(t, l, task)
         PROVE Served(m)'
    <3>1. [by |-> "remote", task |-> task] \in Functor
      BY DEF Functor, Origin
    <3>2. NoneBy(pending[m], "handler")
             => NoneBy(Append(pending[m], [by |-> "remote", task |-> task]), "handler")
      BY <3>1, NoneByAppend
    <3> QED BY <2>11, <3>2 DEF QueueInLoop
  <2>12. ASSUME NEW t \in AllThreads, NEW l \in Loops, Wakeup(t, l) PROVE Served(m)'
    BY <2>12 DEF Wakeup
  <2>13. CASE UNCHANGED vars
    BY <2>13 DEF vars
  <2> QED BY <2>1, <2>2, <2>3, <2>4, <2>5, <2>6, <2>7, <2>8, <2>9, <2>10, <2>11,
             <2>12, <2>13 DEF Next, LoopStep, HandleSome, RunSome, ThreadStep
<1> QED BY <1>1, <1>2, TypeCorrect, PTL DEF SafeSpec

-----------------------------------------------------------------------------

\* Nothing is added to a batch while it is run.
THEOREM BatchOnlyShrinks == SafeSpec => BatchIsFixed
<1>1. TypeOK /\ [Next]_vars
        => [\A l \in Loops : phase[l] = "functors" =>
              batch'[l] \in {batch[l]} \cup
                            (IF batch[l] = <<>> THEN {} ELSE {Tail(batch[l])})]_vars
  BY ZenonT(40)
     DEF Next, LoopStep, HandleSome, RunSome, ThreadStep, StartLoop, Poll, WhileTest,
         HandleWakeup, HandleEvent, SwapPending, RunFunctor, EndFunctors,
         QueueBeforeLoop, Quit, QueueInLoop, Wakeup, vars, TypeOK
<1> QED BY <1>1, TypeCorrect, PTL DEF SafeSpec, BatchIsFixed

-----------------------------------------------------------------------------
(* Refinement.                                                             *)

Queue(l) == batch[l] \o pending[l]

\* A sequence is extended by appending to it.
LEMMA ExtendsConcat ==
  ASSUME NEW S, NEW s \in Seq(S), NEW u \in Seq(S)
  PROVE  FQ!Extends(s, s \o u)
<1>1. Len(s) \in Nat /\ Len(u) \in Nat /\ Len(s \o u) = Len(s) + Len(u)
  BY LenProperties, ConcatProperties
<1>2. SubSeq(s \o u, 1, Len(s)) = s
  BY SubSeqOfConcat1
<1> QED BY <1>1, <1>2 DEF FQ!Extends

LEMMA ExtendsItself ==
  ASSUME NEW S, NEW s \in Seq(S)
  PROVE  FQ!Extends(s, s)
<1>1. <<>> \in Seq(S) /\ s \o <<>> = s
  BY EmptySeq, ConcatEmptySeq
<1> QED BY <1>1, ExtendsConcat

\* The functor taken from the front of a batch comes from the front of the queue.
LEMMA TailConcat ==
  ASSUME NEW S, NEW s \in Seq(S), NEW u \in Seq(S), s # <<>>
  PROVE  s \o u # <<>> /\ Tail(s \o u) = Tail(s) \o u
<1>1. /\ Head(s) \in S
      /\ Tail(s) \in Seq(S)
      /\ s = <<Head(s)>> \o Tail(s)
  BY HeadTailProperties
<1>2. <<Head(s)>> \in Seq(S)
  BY <1>1
<1>3. s \o u = <<Head(s)>> \o (Tail(s) \o u)
  BY <1>1, <1>2, ConcatAssociative
<1>4. Tail(s) \o u \in Seq(S)
  BY <1>1, ConcatProperties
<1>5. ASSUME NEW h \in S, NEW r \in Seq(S)
      PROVE  <<h>> \o r # <<>> /\ Tail(<<h>> \o r) = r
  <2> DEFINE c == <<h>> \o r
  <2>1. <<h>> \in Seq(S) /\ Len(<<h>>) = 1 /\ Len(r) \in Nat
    BY LenProperties
  <2>2. /\ c \in Seq(S)
        /\ Len(c) = 1 + Len(r)
        /\ \A i \in 1 .. Len(r) : c[i + 1] = r[i]
    BY <2>1, ConcatProperties
  <2> HIDE DEF c
  <2>3. c # <<>>
    BY <2>1, <2>2, EmptySeq
  <2>4. /\ Tail(c) \in Seq(S)
        /\ Len(Tail(c)) = Len(r)
        /\ \A i \in 1 .. Len(r) : Tail(c)[i] = r[i]
    BY <2>1, <2>2, <2>3, HeadTailProperties
  <2>5. Tail(c) = r
    BY <2>4, SeqEqual
  <2> QED BY <2>3, <2>5 DEF c
<1>6. /\ <<Head(s)>> \o (Tail(s) \o u) # <<>>
      /\ Tail(<<Head(s)>> \o (Tail(s) \o u)) = Tail(s) \o u
  BY <1>1, <1>4, <1>5
<1> QED BY <1>3, <1>6

\* What is pushed to the vector goes to the end of the queue, whatever part of
\* the batch is left.
LEMMA PushExtends ==
  ASSUME TypeOK, NEW l \in Loops, NEW b \in Seq(Functor), NEW f \in Seq(Functor)
  PROVE  FQ!Extends(b \o pending[l], b \o (pending[l] \o f))
<1>1. pending[l] \in Seq(Functor)
  BY DEF TypeOK
<1>2. b \o pending[l] \in Seq(Functor)
  BY <1>1, ConcatProperties
<1>3. \A p \in Seq(Functor) : b \o (p \o f) = (b \o p) \o f
  BY ConcatAssociative
<1>4. b \o (pending[l] \o f) = (b \o pending[l]) \o f
  BY <1>1, <1>3
<1> QED BY <1>2, <1>4, ExtendsConcat

LEMMA AppendExtends ==
  ASSUME TypeOK, NEW l \in Loops, NEW f \in Functor
  PROVE  FQ!Extends(batch[l] \o pending[l], batch[l] \o Append(pending[l], f))
<1>1. pending[l] \in Seq(Functor) /\ batch[l] \in Seq(Functor) /\ <<f>> \in Seq(Functor)
  BY DEF TypeOK
<1>2. Append(pending[l], f) = pending[l] \o <<f>>
  BY <1>1, AppendIsConcat
<1> QED BY <1>1, <1>2, PushExtends

\* Every step of EventLoop is a step of FunctorQueue, or leaves its queues alone.
LEMMA StepRefines ==
  ASSUME TypeOK, BatchDone, [Next]_vars
  PROVE  [FQ!Next]_(FQ!vars)
<1> USE DEF TypeOK
<1>0. \A l \in Loops : FQ!Extends(batch[l] \o pending[l], batch[l] \o pending[l])
  <2>1. \A l \in Loops : batch[l] \o pending[l] \in Seq(Functor)
    BY ConcatProperties
  <2> QED BY <2>1, ExtendsItself
<1>1. ASSUME NEW l \in Loops, StartLoop(l) PROVE UNCHANGED FQ!vars
  BY <1>1 DEF StartLoop, Goto, FQ!vars
<1>2. ASSUME NEW l \in Loops, NEW ready \in SUBSET Channels, Poll(l, ready) PROVE UNCHANGED FQ!vars
  BY <1>2 DEF Poll, Goto, FQ!vars
<1>3. ASSUME NEW l \in Loops, WhileTest(l) PROVE FQ!Stop(l) \/ UNCHANGED FQ!vars
  <2>1. CASE looping[l]
    BY <1>3, <2>1 DEF WhileTest, Goto, FQ!vars
  <2>2. CASE ~looping[l]
    BY <1>3, <2>2 DEF WhileTest, Goto, FQ!Stop
  <2> QED BY <2>1, <2>2
<1>4. ASSUME NEW l \in Loops, HandleWakeup(l) PROVE UNCHANGED FQ!vars
  BY <1>4, WakeupChangesLittle DEF FQ!vars
<1>5. ASSUME NEW l \in Loops, NEW ch \in Channels, NEW news \in News(l, "handler"),
             NEW quits \in SUBSET Loops, HandleEvent(l, ch, news, quits)
      PROVE FQ!Submit
  <2>1. news \in [Loops -> Seq(Functor)]
    BY NewsType DEF Origin
  <2>2. /\ pending' = [m \in Loops |-> pending[m] \o news[m]]
        /\ UNCHANGED <<batch, phase>>
    BY <1>5 DEF HandleEvent, Call, Push
  <2>3. \A m \in Loops : FQ!Extends(batch[m] \o pending[m], batch[m] \o (pending[m] \o news[m]))
    BY <2>1, PushExtends
  <2> QED BY <2>2, <2>3 DEF FQ!Submit
<1>6. ASSUME NEW l \in Loops, SwapPending(l) PROVE UNCHANGED FQ!vars
  <2>1. batch[l] = <<>>
    BY <1>6 DEF SwapPending, BatchDone
  <2>2. batch[l] \o pending[l] = pending[l] /\ pending[l] \o <<>> = pending[l]
    BY <2>1, ConcatEmptySeq
  <2>3. \A m \in Loops : batch'[m] \o pending'[m] = batch[m] \o pending[m]
    BY <1>6, <2>2 DEF SwapPending
  <2>4. \A m \in Loops : (phase'[m] = "exited") = (phase[m] = "exited")
    BY <1>6 DEF SwapPending, Goto
  <2> QED BY <2>3, <2>4 DEF FQ!vars
<1>7. ASSUME NEW l \in Loops, NEW news \in News(l, "functor"),
             NEW quits \in SUBSET Loops, RunFunctor(l, news, quits)
      PROVE FQ!Execute(l)
  <2>1. news \in [Loops -> Seq(Functor)]
    BY NewsType DEF Origin
  <2>2. /\ pending' = [m \in Loops |-> pending[m] \o news[m]]
        /\ batch' = [batch EXCEPT ![l] = Tail(batch[l])]
        /\ UNCHANGED phase
        /\ phase[l] = "functors" /\ batch[l] # <<>>
    BY <1>7 DEF RunFunctor, Call, Push
  <2>3. /\ batch[l] \o pending[l] # <<>>
        /\ Tail(batch[l] \o pending[l]) = Tail(batch[l]) \o pending[l]
    BY <2>2, TailConcat
  <2>4. Tail(batch[l]) \in Seq(Functor)
    BY <2>2, HeadTailProperties
  <2>5. \A m \in Loops : FQ!Extends(batch'[m] \o pending[m], batch'[m] \o (pending[m] \o news[m]))
    <3>1. \A m \in Loops : batch'[m] \in Seq(Functor)
      BY <2>2, <2>4
    <3> QED BY <2>1, <3>1, PushExtends
  <2>6. \A m \in Loops :
           FQ!Extends(IF m = l THEN Tail(batch[m] \o pending[m]) ELSE batch[m] \o pending[m],
                      batch'[m] \o pending'[m])
    BY <2>2, <2>3, <2>5
  <2> QED BY <2>2, <2>3, <2>6 DEF FQ!Execute
<1>8. ASSUME NEW l \in Loops, EndFunctors(l) PROVE UNCHANGED FQ!vars
  BY <1>8 DEF EndFunctors, Goto, FQ!vars
<1>9. ASSUME NEW l \in Loops, NEW task \in Task, QueueBeforeLoop(l, task)
      PROVE FQ!Submit
  <2>1. [by |-> "init", task |-> task] \in Functor
    BY DEF Functor, Origin
  <2> QED BY <1>0, <1>9, <2>1, AppendExtends DEF QueueBeforeLoop, FQ!Submit
<1>10. ASSUME NEW t \in Threads, NEW l \in Loops, Quit(t, l) PROVE UNCHANGED FQ!vars
  BY <1>10 DEF Quit, FQ!vars
<1>11. ASSUME NEW t \in Threads, NEW l \in Loops, NEW task \in Task,
              QueueInLoop(t, l, task)
       PROVE FQ!Submit
  <2>1. [by |-> "remote", task |-> task] \in Functor
    BY DEF Functor, Origin
  <2> QED BY <1>0, <1>11, <2>1, AppendExtends DEF QueueInLoop, FQ!Submit
<1>12. ASSUME NEW t \in AllThreads, NEW l \in Loops, Wakeup(t, l) PROVE UNCHANGED FQ!vars
  BY <1>12 DEF Wakeup, FQ!vars
<1>13. CASE UNCHANGED vars
  BY <1>13 DEF vars, FQ!vars
<1> QED BY <1>1, <1>2, <1>3, <1>4, <1>5, <1>6, <1>7, <1>8, <1>9, <1>10, <1>11,
           <1>12, <1>13
        DEF Next, LoopStep, HandleSome, RunSome, ThreadStep, FQ!Next

\* EventLoop implements FunctorQueue: functors are executed at most once each,
\* in the order they were queued, and none is lost while the loop runs.
THEOREM Refinement == SafeSpec => QueueIsFIFO
<1>1. Init => FQ!Init
  BY ZenonT(40), ConcatEmptySeq, EmptySeq DEF Init, FQ!Init
<1>2. TypeOK /\ BatchDone /\ [Next]_vars => [FQ!Next]_(FQ!vars)
  BY StepRefines
<1> QED BY <1>1, <1>2, TypeCorrect, BatchDoneInvariant, PTL
        DEF SafeSpec, QueueIsFIFO, FQ!SafeSpec
=============================================================================
