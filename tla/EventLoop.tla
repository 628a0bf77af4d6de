----------------------------- MODULE EventLoop -----------------------------
(***************************************************************************)
(* seenet's EventLoop: loop(), quit(), queueInLoop(), doPendingFunctors(), *)
(* wakeup() and handleRead(), for a set of loops, each run by the thread   *)
(* that constructed it, and a set of other threads that call into them.    *)
(*                                                                         *)
(* A callback (the handler of a channel, or a functor) is one step of its  *)
(* loop: the functors it queues on each loop, and the loops it tells to    *)
(* quit.  queueInLoop() and quit() are two steps of the calling thread:    *)
(* the push or the store, then the write of wakeup(); a thread does        *)
(* nothing else between the two.                                           *)
(***************************************************************************)
EXTENDS Naturals, Sequences, SequencesExt

CONSTANTS
  Loops,        \* the event loops; a loop also names the thread that runs it
  Threads,      \* the other threads of the process
  Task,         \* what a functor does; the loop does not look at it
  Channels,     \* the channels of the loops, the wakeup channels apart
  WakeupBytes,  \* how many bytes wakeup() writes; the code writes 2
  MaxPending,   \* bound: functors in m_pendingFunctors of one loop
  Burst         \* bound: functors that one callback queues on one loop

ASSUME Assumption ==
  /\ Loops \cap Threads = {}
  /\ "wakeup" \notin Channels
  /\ WakeupBytes \in Nat
  /\ MaxPending \in Nat
  /\ Burst \in Nat

\* eventfd(2): a write of less than 8 bytes fails with EINVAL.
EventFdBytes == 8

(***************************************************************************)
(* Who queued a functor, seen from the loop that owns it: a channel        *)
(* handler of the loop, one of its functors, the loop's thread before it   *)
(* entered loop(), or some other thread.                                   *)
(***************************************************************************)
Origin == {"handler", "functor", "init", "remote"}

Functor == [by : Origin, task : Task]

Phase == {"constructed", "while", "poll", "events", "functors", "exited"}

VARIABLES
  phase,    \* where the thread of each loop is in loop()
  looping,  \* m_bLooping
  pending,  \* m_pendingFunctors
  batch,    \* functors of doPendingFunctors() that are still to run
  calling,  \* m_bCallingPendingFactors
  active,   \* m_activeChannels still to handle
  eventfd,  \* the counter of m_wakeupFd is not zero
  toWake    \* the loops each thread is about to call wakeup() on

vars == <<phase, looping, pending, batch, calling, active, eventfd, toWake>>

AllThreads == Loops \cup Threads

TypeOK ==
  /\ phase \in [Loops -> Phase]
  /\ looping \in [Loops -> BOOLEAN]
  /\ pending \in [Loops -> Seq(Functor)]
  /\ batch \in [Loops -> Seq(Functor)]
  /\ calling \in [Loops -> BOOLEAN]
  /\ active \in [Loops -> SUBSET ({"wakeup"} \cup Channels)]
  /\ eventfd \in [Loops -> BOOLEAN]
  /\ toWake \in [AllThreads -> SUBSET Loops]

-----------------------------------------------------------------------------

Init ==
  /\ phase = [l \in Loops |-> "constructed"]
  /\ looping = [l \in Loops |-> FALSE]
  /\ pending = [l \in Loops |-> <<>>]
  /\ batch = [l \in Loops |-> <<>>]
  /\ calling = [l \in Loops |-> FALSE]
  /\ active = [l \in Loops |-> {}]
  /\ eventfd = [l \in Loops |-> FALSE]
  /\ toWake = [t \in AllThreads |-> {}]

\* Thread t is between two calls: not in the middle of queueInLoop() or quit().
Free(t) == toWake[t] = {}

Goto(l, p) == phase' = [phase EXCEPT ![l] = p]

\* The functors of news[m] go to the end of m_pendingFunctors of m.
Push(news) == pending' = [m \in Loops |-> pending[m] \o news[m]]

HasRoom(news) == \A m \in Loops : Len(pending[m]) + Len(news[m]) <= MaxPending

\* The loops whose wakeup() is called by loop l, which queued news and told
\* the loops of quits to quit: its own only when it is running functors.
Woken(l, news, quits) ==
  {m \in Loops : news[m] # <<>> /\ (m # l \/ calling[l])} \cup (quits \ {l})

\* What a callback on loop l, of the given origin, may queue.
News(l, origin) ==
  {[m \in Loops |-> [i \in DOMAIN tasks[m] |->
      [by |-> IF m = l THEN origin ELSE "remote", task |-> tasks[m][i]]]] :
   tasks \in [Loops -> BoundedSeq(Task, Burst)]}

\* The code of a callback on l: queueInLoop() and quit() calls.
Call(l, news, quits) ==
  /\ HasRoom(news)
  /\ Push(news)
  /\ looping' = [m \in Loops |-> looping[m] /\ m \notin quits]
  /\ toWake' = [toWake EXCEPT ![l] = Woken(l, news, quits)]

-----------------------------------------------------------------------------
(* The thread of loop l.                                                   *)

\* Before loop(): the thread-init callback queues a functor on its own loop.
QueueBeforeLoop(l, task) ==
  /\ phase[l] = "constructed"
  /\ Len(pending[l]) < MaxPending
  /\ pending' = [pending EXCEPT ![l] = Append(@, [by |-> "init", task |-> task])]
  /\ UNCHANGED <<phase, looping, batch, calling, active, eventfd, toWake>>

StartLoop(l) ==
  /\ phase[l] = "constructed"
  /\ looping' = [looping EXCEPT ![l] = TRUE]
  /\ Goto(l, "while")
  /\ UNCHANGED <<pending, batch, calling, active, eventfd, toWake>>

\* Mutant: loop() only returns when there are no functors left.
WhileTest_Drains(l) ==
  /\ phase[l] = "while"
  /\ Goto(l, IF looping[l] \/ pending[l] # <<>> THEN "poll" ELSE "exited")
  /\ UNCHANGED <<looping, pending, batch, calling, active, eventfd, toWake>>

WhileTest(l) ==
  /\ phase[l] = "while"
  /\ Goto(l, IF looping[l] THEN "poll" ELSE "exited")
  /\ UNCHANGED <<looping, pending, batch, calling, active, eventfd, toWake>>

\* Mutant: epoll_wait() is called without a timeout.
Poll_Forever(l, ready) ==
  /\ phase[l] = "poll"
  /\ eventfd[l] \/ ready # {}
  /\ active' = [active EXCEPT ![l] =
                  ready \cup (IF eventfd[l] THEN {"wakeup"} ELSE {})]
  /\ Goto(l, "events")
  /\ UNCHANGED <<looping, pending, batch, calling, eventfd, toWake>>

\* epoll_wait() returns: with the channels that have events, the wakeup channel
\* when the eventfd is readable, or with none after kPollTimeMs.
Poll(l, ready) ==
  /\ phase[l] = "poll"
  /\ active' = [active EXCEPT ![l] =
                  ready \cup (IF eventfd[l] THEN {"wakeup"} ELSE {})]
  /\ Goto(l, "events")
  /\ UNCHANGED <<looping, pending, batch, calling, eventfd, toWake>>

\* The handler of a channel is called; that of the wakeup channel resets the
\* counter of the eventfd.
HandleEvent(l, ch, news, quits) ==
  /\ phase[l] = "events" /\ Free(l) /\ ch \in active[l]
  /\ active' = [active EXCEPT ![l] = @ \ {ch}]
  /\ eventfd' = [eventfd EXCEPT ![l] = @ /\ ch # "wakeup"]
  /\ Call(l, news, quits)
  /\ UNCHANGED <<phase, batch, calling>>

\* handleRead() of the wakeup channel calls nothing else.
HandleWakeup(l) == HandleEvent(l, "wakeup", [m \in Loops |-> <<>>], {})

\* Mutant: doPendingFunctors() takes one functor per iteration.
SwapPending_One(l) ==
  /\ phase[l] = "events" /\ Free(l) /\ active[l] = {}
  /\ batch' = [batch EXCEPT ![l] = IF pending[l] = <<>> THEN <<>> ELSE <<Head(pending[l])>>]
  /\ pending' = [pending EXCEPT ![l] = IF @ = <<>> THEN <<>> ELSE Tail(@)]
  /\ calling' = [calling EXCEPT ![l] = TRUE]
  /\ Goto(l, "functors")
  /\ UNCHANGED <<looping, active, eventfd, toWake>>

\* doPendingFunctors() takes the whole vector under the lock.
SwapPending(l) ==
  /\ phase[l] = "events" /\ Free(l) /\ active[l] = {}
  /\ batch' = [batch EXCEPT ![l] = pending[l]]
  /\ pending' = [pending EXCEPT ![l] = <<>>]
  /\ calling' = [calling EXCEPT ![l] = TRUE]
  /\ Goto(l, "functors")
  /\ UNCHANGED <<looping, active, eventfd, toWake>>

\* Mutant: the vector is iterated in place, so that it grows while it is run.
RunFunctor_InPlace(l, news, quits) ==
  /\ phase[l] = "functors" /\ Free(l) /\ batch[l] # <<>>
  /\ batch' = [batch EXCEPT ![l] = Tail(@) \o news[l]]
  /\ Call(l, [news EXCEPT ![l] = <<>>], quits)
  /\ UNCHANGED <<phase, calling, active, eventfd>>

RunFunctor(l, news, quits) ==
  /\ phase[l] = "functors" /\ Free(l) /\ batch[l] # <<>>
  /\ batch' = [batch EXCEPT ![l] = Tail(@)]
  /\ Call(l, news, quits)
  /\ UNCHANGED <<phase, calling, active, eventfd>>

\* Mutant: doPendingFunctors() stops as soon as the loop is told to quit.
EndFunctors_OnQuit(l) ==
  /\ phase[l] = "functors" /\ Free(l) /\ (batch[l] = <<>> \/ ~looping[l])
  /\ calling' = [calling EXCEPT ![l] = FALSE]
  /\ Goto(l, "while")
  /\ UNCHANGED <<looping, pending, batch, active, eventfd, toWake>>

EndFunctors(l) ==
  /\ phase[l] = "functors" /\ Free(l) /\ batch[l] = <<>>
  /\ calling' = [calling EXCEPT ![l] = FALSE]
  /\ Goto(l, "while")
  /\ UNCHANGED <<looping, pending, batch, active, eventfd, toWake>>

-----------------------------------------------------------------------------
(* The other threads, and the second half of queueInLoop() and quit().     *)

\* Mutant: the functor goes to the front of the vector.
QueueInLoop_Front(t, l, task) ==
  /\ Free(t)
  /\ Len(pending[l]) < MaxPending
  /\ pending' = [pending EXCEPT ![l] = <<[by |-> "remote", task |-> task]>> \o @]
  /\ toWake' = [toWake EXCEPT ![t] = {l}]
  /\ UNCHANGED <<phase, looping, batch, calling, active, eventfd>>

QueueInLoop(t, l, task) ==
  /\ Free(t)
  /\ Len(pending[l]) < MaxPending
  /\ pending' = [pending EXCEPT ![l] = Append(@, [by |-> "remote", task |-> task])]
  /\ toWake' = [toWake EXCEPT ![t] = {l}]
  /\ UNCHANGED <<phase, looping, batch, calling, active, eventfd>>

Quit(t, l) ==
  /\ Free(t)
  /\ looping' = [looping EXCEPT ![l] = FALSE]
  /\ toWake' = [toWake EXCEPT ![t] = {l}]
  /\ UNCHANGED <<phase, pending, batch, calling, active, eventfd>>

Wakeup(t, l) ==
  /\ l \in toWake[t]
  /\ toWake' = [toWake EXCEPT ![t] = @ \ {l}]
  /\ eventfd' = [eventfd EXCEPT ![l] = @ \/ WakeupBytes >= EventFdBytes]
  /\ UNCHANGED <<phase, looping, pending, batch, calling, active>>

-----------------------------------------------------------------------------

HandleSome(l) ==
  \E ch \in Channels, news \in News(l, "handler"), quits \in SUBSET Loops :
     HandleEvent(l, ch, news, quits)

RunSome(l) ==
  \E news \in News(l, "functor"), quits \in SUBSET Loops : RunFunctor(l, news, quits)

\* What the thread of l does by itself once it is in loop(): without events,
\* poll() returns for the wakeup channel or the timeout.
LoopStep(l) ==
  \/ WhileTest(l)
  \/ Poll(l, {})
  \/ HandleWakeup(l)
  \/ HandleSome(l)
  \/ SwapPending(l)
  \/ RunSome(l)
  \/ EndFunctors(l)

ThreadStep(t) ==
  \E l \in Loops : Quit(t, l) \/ \E task \in Task : QueueInLoop(t, l, task)

Next ==
  \/ \E l \in Loops : StartLoop(l) \/ LoopStep(l)
  \/ \E l \in Loops, ready \in SUBSET Channels : Poll(l, ready)
  \/ \E l \in Loops, task \in Task : QueueBeforeLoop(l, task)
  \/ \E t \in Threads : ThreadStep(t)
  \/ \E t \in AllThreads, l \in Loops : Wakeup(t, l)

SafeSpec == Init /\ [][Next]_vars

(***************************************************************************)
(* A thread that is inside loop() or wakeup() keeps going: callbacks       *)
(* return, and epoll_wait() returns within kPollTimeMs.  Nothing is        *)
(* assumed of events, nor of when loop(), queueInLoop() or quit() are      *)
(* called.                                                                 *)
(***************************************************************************)
Fairness ==
  /\ \A l \in Loops : WF_vars(LoopStep(l))
  /\ \A t \in AllThreads : WF_vars(\E l \in Loops : Wakeup(t, l))

Spec == SafeSpec /\ Fairness

-----------------------------------------------------------------------------
(* Properties.                                                             *)

\* Functors are being called exactly while the loop is in the second half of
\* doPendingFunctors(); at every other point the previous batch has been run
\* to its end, so that no functor is lost when the local vector is destroyed.
BatchDone ==
  \A l \in Loops : /\ calling[l] = (phase[l] = "functors")
                   /\ phase[l] # "functors" => batch[l] = <<>>

\* queueInLoop() from a channel's handler does not call wakeup(): the code
\* relies on the same iteration of loop() running the functor.  So outside the
\* handling of events, and above all while the loop sleeps in poll(), no
\* functor queued by a handler of the loop is waiting.
OwnHandlersServed ==
  \A l \in Loops : phase[l] # "events" =>
     \A i \in DOMAIN pending[l] : pending[l][i].by # "handler"

\* A loop that sleeps in poll() with functors to run has been woken, or a
\* thread is about to do so; only functors queued by the loop's own thread
\* before loop() wait for the next event or the timeout.  This is what
\* wakeup() is for.
NeverSleepsOnWork ==
  \A l \in Loops :
     phase[l] = "poll" /\ (\E i \in DOMAIN pending[l] : pending[l][i].by # "init")
       => eventfd[l] \/ \E t \in AllThreads : l \in toWake[t]

\* While a loop runs a batch of functors the batch only shrinks from its
\* front: what a functor or a thread queues meanwhile waits for the next
\* iteration, so that functors that queue functors cannot keep the loop from
\* polling.
BatchIsFixed ==
  [][\A l \in Loops : phase[l] = "functors" =>
        batch'[l] \in {batch[l]} \cup (IF batch[l] = <<>> THEN {} ELSE {Tail(batch[l])})]_vars

\* The two vectors of each loop behave as the one queue of FunctorQueue.
FQ == INSTANCE FunctorQueue WITH
        queue <- [l \in Loops |-> batch[l] \o pending[l]],
        stopped <- [l \in Loops |-> phase[l] = "exited"]

\* Every functor is executed at most once and in the order of the queueInLoop()
\* calls, none by a loop that has returned, and none disappears.
QueueIsFIFO == FQ!SafeSpec

\* As long as a loop that has started has functors and does not quit, it goes
\* on executing functors (in FIFO order, so each one is reached).
EveryFunctorRuns ==
  \A l \in Loops :
     \/ []<>(phase[l] \in {"constructed", "exited"} \/ batch[l] \o pending[l] = <<>>)
     \/ []<><<RunSome(l)>>_vars

\* quit() on a running loop makes loop() return.
QuitStopsLoop ==
  \A l \in Loops : (phase[l] # "constructed" /\ ~looping[l]) ~> (phase[l] = "exited")
=============================================================================
