--------------------------- MODULE FunctorQueue ---------------------------
(***************************************************************************)
(* What the event loops of seenet promise to whoever calls queueInLoop():  *)
(* each loop keeps one queue of functors, a step may only add functors at  *)
(* the end of queues, and a loop executes the functors of its queue one at *)
(* a time, each once, in the order they were queued, until it stops.  How  *)
(* the queue is split between the vector that threads push to and the      *)
(* batch the loop is working through, and what wakes the loop, is left to  *)
(* EventLoop, which implements this module.                                *)
(***************************************************************************)
EXTENDS Sequences, Naturals

CONSTANT Loops       \* the event loops

VARIABLES queue,     \* queue[l]: functors accepted by l, not executed yet
          stopped    \* stopped[l]: loop() of l has returned

vars == <<queue, stopped>>

\* t is s with some elements added at its end.
Extends(s, t) == Len(s) <= Len(t) /\ SubSeq(t, 1, Len(s)) = s

Init == /\ queue = [l \in Loops |-> <<>>]
        /\ stopped = [l \in Loops |-> FALSE]

\* Threads, and the handlers of loops, queue functors.
Submit == /\ \A l \in Loops : Extends(queue[l], queue'[l])
          /\ UNCHANGED stopped

\* Loop l executes its oldest functor, which may itself queue functors.
Execute(l) == /\ ~stopped[l]
              /\ queue[l] # <<>>
              /\ \A m \in Loops :
                    Extends(IF m = l THEN Tail(queue[m]) ELSE queue[m], queue'[m])
              /\ UNCHANGED stopped

\* loop() of l returns; what is still queued is never executed.
Stop(l) == /\ stopped' = [stopped EXCEPT ![l] = TRUE]
           /\ UNCHANGED queue

Next == Submit \/ \E l \in Loops : Execute(l) \/ Stop(l)

SafeSpec == Init /\ [][Next]_vars
=============================================================================
