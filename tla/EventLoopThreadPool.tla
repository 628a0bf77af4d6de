------------------------ MODULE EventLoopThreadPool ------------------------
(***************************************************************************)
(* seenet's EventLoopThreadPool and EventLoopThread: the owner (the thread *)
(* of the base loop) starts the threads one by one and waits until each    *)
(* has made its loop, hands the loops out in turn, and destroys the pool,  *)
(* which stops and joins the threads.  A thread also names its loop.       *)
(*                                                                         *)
(* What loop() does between its start and its end is EventLoop's business; *)
(* here it goes on while m_bLooping is set and, as EventLoop's             *)
(* QuitStopsLoop says, ends some time after it is cleared.                 *)
(*                                                                         *)
(* m_loop is written under the lock by threadFunc() before loop(), and     *)
(* without it after loop(); it is read without it by startLoop()'s return  *)
(* and by the destructor.  Such a race is modelled as atomic accesses.     *)
(***************************************************************************)
EXTENDS Naturals, Sequences, SequencesExt

CONSTANTS
  NumThreads,   \* m_numThreads
  NoLoop,       \* a null pointer to a loop
  MaxPicks      \* bound: how often getNextLoop() hands out each loop

ASSUME PoolAssumption ==
  /\ NumThreads \in Nat \ {0}
  /\ NoLoop \notin Nat
  /\ MaxPicks \in Nat

Thread == 1..NumThreads

(***************************************************************************)
(* Where a thread is in threadFunc(): before the lock, after it, in        *)
(* loop(), behind loop(), behind m_loop.reset(), at its end.               *)
(***************************************************************************)
Position == {"none", "made", "published", "looping", "left", "reset", "ended"}

\* Where the owner is: in start() and startLoop(), between calls, in the
\* destructor of one EventLoopThread, or behind that of the pool.
OwnerPosition == {"start", "check", "asleep", "return", "serve",
                  "test", "quit", "wakeup", "join", "done"}

VARIABLES
  at,         \* where each thread is
  m_loop,     \* the threads whose m_loop is not null
  m_bLooping, \* the loops whose m_bLooping is set
  m_loops,    \* the pool's loops
  m_next,     \* index, from 0, of the next loop to hand out
  owner,      \* where the owner is, and at which thread
  kept,       \* the loops whose user holds a pointer of its own
  outcome,    \* what has become of the process
  picks,      \* history: how often each loop was handed out
  quitBy      \* history: the loops told to quit by "user" and by "owner", and
              \* by an owner whose store loop() has overwritten ("lost")

vars == <<at, m_loop, m_bLooping, m_loops, m_next, owner, kept, outcome, picks, quitBy>>
threadVars == <<at, m_loop, m_bLooping>>
userVars == <<m_next, kept, picks>>

TypeOK ==
  /\ at \in [Thread -> Position]
  /\ m_loop \subseteq Thread
  /\ m_bLooping \subseteq Thread
  /\ m_loops \in Seq(Thread \cup {NoLoop}) /\ Len(m_loops) <= NumThreads
  /\ m_next \in 0..(NumThreads - 1)
  /\ owner \in [pc : OwnerPosition, k : Thread]
  /\ kept \subseteq Thread
  /\ outcome \in {"running", "null loop", "freed loop", "terminate"}
  /\ picks \in [Thread -> 0..MaxPicks]
  /\ quitBy \in [{"user", "owner", "lost"} -> SUBSET Thread]

Init ==
  /\ at = [k \in Thread |-> "none"]
  /\ m_loop = {} /\ m_bLooping = {}
  /\ m_loops = <<>> /\ m_next = 0
  /\ owner = [pc |-> "start", k |-> 1]
  /\ kept = {}
  /\ outcome = "running"
  /\ picks = [k \in Thread |-> 0]
  /\ quitBy = [who \in {"user", "owner", "lost"} |-> {}]

\* Some shared pointer still holds the loop of thread k: the local one of
\* threadFunc(), m_loop, an element of m_loops, or one of the user.
Alive(k) == \/ at[k] \in {"made", "published", "looping", "left", "reset"}
            \/ k \in m_loop \cup ToSet(m_loops) \cup kept

MoveOwner(pc, k) == owner' = [pc |-> pc, k |-> k]
MoveThread(k, from, to) == at[k] = from /\ at' = [at EXCEPT ![k] = to]
Fails(how) == outcome' = how

-----------------------------------------------------------------------------
(* threadFunc() of thread k.                                               *)

\* The thread-init callback is given the loop, and keeps a pointer to it.
InitCallback(k) ==
  /\ at[k] = "made"
  /\ kept' = kept \cup {k}
  /\ UNCHANGED <<threadVars, m_loops, m_next, owner, outcome, picks, quitBy>>

\* Mutant: m_loop is set, and nobody is notified.
Publish_Silent(k) ==
  /\ MoveThread(k, "made", "published")
  /\ m_loop' = m_loop \cup {k}
  /\ UNCHANGED <<m_bLooping, m_loops, owner, userVars, outcome, quitBy>>

\* Under the lock: m_loop is set, and an owner that is asleep is notified.
Publish(k) ==
  /\ MoveThread(k, "made", "published")
  /\ m_loop' = m_loop \cup {k}
  /\ IF owner = [pc |-> "asleep", k |-> k] THEN MoveOwner("check", k)
                                          ELSE UNCHANGED owner
  /\ UNCHANGED <<m_bLooping, m_loops, userVars, outcome, quitBy>>

\* loop() sets m_bLooping, whoever has cleared it before.
EnterLoop(k) ==
  /\ MoveThread(k, "published", "looping")
  /\ m_bLooping' = m_bLooping \cup {k}
  /\ quitBy' = [quitBy EXCEPT !["lost"] = @ \cup (quitBy["owner"] \cap {k})]
  /\ UNCHANGED <<m_loop, m_loops, owner, userVars, outcome>>

\* loop() finds m_bLooping cleared and returns.
LeaveLoop(k) ==
  /\ k \notin m_bLooping
  /\ MoveThread(k, "looping", "left")
  /\ UNCHANGED <<m_loop, m_bLooping, m_loops, owner, userVars, outcome, quitBy>>

Reset(k) ==
  /\ MoveThread(k, "left", "reset")
  /\ m_loop' = m_loop \ {k}
  /\ UNCHANGED <<m_bLooping, m_loops, owner, userVars, outcome, quitBy>>

\* The local pointer to the loop goes, and the thread ends.
EndThread(k) ==
  /\ MoveThread(k, "reset", "ended")
  /\ UNCHANGED <<m_loop, m_bLooping, m_loops, owner, userVars, outcome, quitBy>>

-----------------------------------------------------------------------------
(* The owner: EventLoopThreadPool::start() and startLoop().                *)

\* startLoop() starts the thread, which makes its loop.
SpawnThread ==
  /\ owner.pc = "start"
  /\ MoveThread(owner.k, "none", "made")
  /\ MoveOwner("check", owner.k)
  /\ UNCHANGED <<m_loop, m_bLooping, m_loops, userVars, outcome, quitBy>>

\* Mutant: startLoop() does not wait for the loop.
WaitForLoop_Not ==
  /\ owner.pc = "check"
  /\ MoveOwner("return", owner.k)
  /\ UNCHANGED <<threadVars, m_loops, userVars, outcome, quitBy>>

\* wait() looks at m_loop under the lock, and goes to sleep if it is null.
WaitForLoop ==
  /\ owner.pc = "check"
  /\ MoveOwner(IF owner.k \in m_loop THEN "return" ELSE "asleep", owner.k)
  /\ UNCHANGED <<threadVars, m_loops, userVars, outcome, quitBy>>

\* startLoop() returns m_loop, read again without the lock, and start() goes
\* on to the next thread.
ReturnLoop ==
  /\ owner.pc = "return"
  /\ m_loops' = Append(m_loops, IF owner.k \in m_loop THEN owner.k ELSE NoLoop)
  /\ IF owner.k = NumThreads THEN MoveOwner("serve", owner.k)
                             ELSE MoveOwner("start", owner.k + 1)
  /\ UNCHANGED <<threadVars, userVars, outcome, quitBy>>

-----------------------------------------------------------------------------
(* The owner between calls, and the users of the loops.                    *)

\* A loop is handed to a caller, who keeps it, and who fails if it is null.
HandOut(loop) ==
  IF loop = NoLoop THEN Fails("null loop") /\ UNCHANGED kept
                   ELSE kept' = kept \cup {loop} /\ UNCHANGED outcome

\* Mutant: the index is put back one turn too late.
NextIndex_Late(i) == IF i + 1 > Len(m_loops) THEN 0 ELSE i + 1

\* Mutant: the turn begins again with the second loop.
NextIndex_SkipsFirst(i) == IF i + 1 >= Len(m_loops) THEN 1 % Len(m_loops) ELSE i + 1

NextIndex(i) == IF i + 1 >= Len(m_loops) THEN 0 ELSE i + 1

GetNextLoop ==
  /\ owner.pc = "serve"
  /\ LET loop == m_loops[m_next + 1]
     IN  /\ loop # NoLoop => picks[loop] < MaxPicks
         /\ HandOut(loop)
         /\ picks' = [k \in Thread |-> picks[k] + (IF k = loop THEN 1 ELSE 0)]
  /\ m_next' = NextIndex(m_next)
  /\ UNCHANGED <<threadVars, m_loops, owner, quitBy>>

\* getLoopForHash() and, loop by loop, getAllLoops()
GetAnyLoop ==
  /\ owner.pc = "serve"
  /\ \E i \in DOMAIN m_loops : HandOut(m_loops[i])
  /\ UNCHANGED <<threadVars, m_loops, m_next, owner, picks, quitBy>>

Release(k) ==
  /\ k \in kept
  /\ kept' = kept \ {k}
  /\ UNCHANGED <<threadVars, m_loops, m_next, owner, outcome, picks, quitBy>>

\* EventLoop::quit() by a callback of the loop or by a user who holds it.
UserQuit(k) ==
  /\ at[k] = "looping" \/ k \in kept
  /\ m_bLooping' = m_bLooping \ {k}
  /\ quitBy' = [quitBy EXCEPT !["user"] = @ \cup {k}]
  /\ UNCHANGED <<at, m_loop, m_loops, owner, userVars, outcome>>

-----------------------------------------------------------------------------
(* The owner: ~EventLoopThreadPool() and ~EventLoopThread().               *)

\* The members go in reverse order: m_loops first, then the threads.
DestroyPool ==
  /\ owner.pc = "serve"
  /\ m_loops' = <<>>
  /\ MoveOwner("test", 1)
  /\ UNCHANGED <<threadVars, userVars, outcome, quitBy>>

\* A thread is told to quit and joined only if its m_loop is not null.  If it
\* is, the destructor of the joinable m_thread calls std::terminate().
TestLoop ==
  /\ owner.pc = "test"
  /\ IF owner.k \in m_loop THEN MoveOwner("quit", owner.k) /\ UNCHANGED outcome
                           ELSE Fails("terminate") /\ UNCHANGED owner
  /\ UNCHANGED <<threadVars, m_loops, userVars, quitBy>>

\* Mutant: the destructor wakes the loop without having told it to quit.
StoreQuit_Not ==
  /\ owner.pc = "quit"
  /\ IF owner.k \in m_loop THEN MoveOwner("wakeup", owner.k) /\ UNCHANGED outcome
                           ELSE Fails("null loop") /\ UNCHANGED owner
  /\ UNCHANGED <<threadVars, m_loops, userVars, quitBy>>

\* m_loop->quit(): m_loop is read once more, and m_bLooping cleared.
StoreQuit ==
  /\ owner.pc = "quit"
  /\ IF owner.k \in m_loop
     THEN /\ m_bLooping' = m_bLooping \ {owner.k}
          /\ quitBy' = [quitBy EXCEPT !["owner"] = @ \cup {owner.k}]
          /\ MoveOwner("wakeup", owner.k)
          /\ UNCHANGED outcome
     ELSE Fails("null loop") /\ UNCHANGED <<m_bLooping, quitBy, owner>>
  /\ UNCHANGED <<at, m_loop, m_loops, userVars>>

\* quit() goes on to use the loop: isInLoopThread(), wakeup().
WakeLoop ==
  /\ owner.pc = "wakeup"
  /\ IF Alive(owner.k) THEN MoveOwner("join", owner.k) /\ UNCHANGED outcome
                       ELSE Fails("freed loop") /\ UNCHANGED owner
  /\ UNCHANGED <<threadVars, m_loops, userVars, quitBy>>

\* The next EventLoopThread is destroyed, or the pool is gone.
NextThread == IF owner.k = NumThreads THEN MoveOwner("done", owner.k)
                                      ELSE MoveOwner("test", owner.k + 1)

\* Mutant: the thread is detached instead of joined.
Join_Detach ==
  /\ owner.pc = "join"
  /\ NextThread
  /\ UNCHANGED <<threadVars, m_loops, userVars, outcome, quitBy>>

Join ==
  /\ owner.pc = "join" /\ at[owner.k] = "ended"
  /\ NextThread
  /\ UNCHANGED <<threadVars, m_loops, userVars, outcome, quitBy>>

-----------------------------------------------------------------------------

ThreadStep(k) == Publish(k) \/ EnterLoop(k) \/ LeaveLoop(k) \/ Reset(k) \/ EndThread(k)

\* What the owner does by itself, inside start() and inside the destructor.
OwnerStep == \/ SpawnThread \/ WaitForLoop \/ ReturnLoop
             \/ TestLoop \/ StoreQuit \/ WakeLoop \/ Join

\* Once the process has been terminated, or has used a pointer it must not,
\* nothing more is said of it.
Next ==
  /\ outcome = "running"
  /\ \/ \E k \in Thread : \/ ThreadStep(k) \/ InitCallback(k)
                         \/ UserQuit(k) \/ Release(k)
     \/ OwnerStep \/ GetNextLoop \/ GetAnyLoop \/ DestroyPool

\* The operating system schedules the threads and the owner, and loop() ends
\* when it has been told to.  Nothing is assumed of the users.
Fairness ==
  /\ \A k \in Thread : WF_vars(outcome = "running" /\ ThreadStep(k))
  /\ WF_vars(outcome = "running" /\ OwnerStep)

Spec == Init /\ [][Next]_vars /\ Fairness

-----------------------------------------------------------------------------
(* Properties.                                                             *)

\* Unless somebody else tells a loop to quit, the pool is complete and its
\* destruction is regular: startLoop() gets the loop of its thread although the
\* thread makes it concurrently, and the destructor finds m_loop set, and
\* joins.  A null entry in the pool, a null m_loop and a thread that is not
\* joined all come from a loop that had been told to quit before.
OnlyQuitLoopsAreMissing ==
  /\ \A i \in DOMAIN m_loops : \/ m_loops[i] = i
                               \/ m_loops[i] = NoLoop /\ i \in quitBy["user"]
  /\ outcome \in {"null loop", "terminate"} => quitBy["user"] # {}
  /\ outcome = "terminate" => owner.k \in quitBy["user"]

\* An EventLoopThread is freed only when its thread has ended: the thread's
\* last act is to write a member of it.
JoinedBeforeFreed ==
  \A k \in Thread :
     owner.pc = "done" \/ (owner.pc \in {"test", "quit", "wakeup", "join"} /\ k < owner.k)
       => at[k] = "ended"

\* The connections are spread evenly: no loop is handed out by getNextLoop()
\* more than once more than another.
TurnsAreEven == \A j, k \in Thread : picks[j] <= picks[k] + 1

\* startLoop() returns, in every order of the thread's notification and the
\* owner's wait, unless the loop is told to quit before the owner has seen it.
StartReturns ==
  \A k \in Thread :
     (owner.pc \in {"check", "asleep"} /\ owner.k = k)
       ~> (~(owner.pc \in {"check", "asleep"} /\ owner.k = k) \/ k \in quitBy["user"])

\* The destructor of a thread comes to its end, or to a pointer it must not
\* use, unless its quit() came before loop(), which then overwrote it: that is
\* the only way in which it waits for ever.
StopReturns ==
  \A k \in Thread :
     (owner.pc \in {"quit", "wakeup", "join"} /\ owner.k = k)
       ~> \/ ~(owner.pc \in {"quit", "wakeup", "join"} /\ owner.k = k)
          \/ k \in quitBy["lost"]
          \/ outcome # "running"
=============================================================================
