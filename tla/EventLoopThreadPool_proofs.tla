--------------------- MODULE EventLoopThreadPool_proofs ---------------------
(***************************************************************************)
(* Proofs about EventLoopThreadPool, for any number of threads and of      *)
(* turns.  The invariant relates where each thread is to where its owner   *)
(* is, and says who has told a loop to quit that has stopped looping.      *)
(***************************************************************************)
EXTENDS EventLoopThreadPool, TLAPS

Starting == {"start", "check", "asleep", "return"}
Stopping == {"test", "quit", "wakeup", "join"}

\* startLoop() has started thread k; it has seen the loop of thread k.
Started(k) == owner.pc \in Starting => k < owner.k \/ (k = owner.k /\ owner.pc # "start")
SeenBy(k)  == owner.pc \in Starting => k < owner.k \/ (k = owner.k /\ owner.pc = "return")

\* The destructor has told the loop of thread k to quit; it has joined thread k.
ToldToQuit(k) == \/ owner.pc = "done"
                 \/ owner.pc \in Stopping /\ k < owner.k
                 \/ owner.pc \in {"wakeup", "join"} /\ k = owner.k
Joined(k) == owner.pc = "done" \/ (owner.pc \in Stopping /\ k < owner.k)

\* A thread is where the owner expects it.
ThreadsInStep ==
  \A k \in Thread :
     /\ at[k] = "none" <=> ~Started(k)
     /\ SeenBy(k) => at[k] # "made"
     /\ Joined(k) => at[k] = "ended"
     /\ k \in m_loop <=> at[k] \in {"published", "looping", "left"}

\* A loop has stopped, or is about to, only because it was told to.
StoppedByQuit ==
  \A k \in Thread :
     /\ at[k] \in {"left", "reset", "ended"} \/ (at[k] = "looping" /\ k \notin m_bLooping)
          => k \in quitBy["user"] \cup quitBy["owner"]
     /\ k \in quitBy["owner"] => ToldToQuit(k)

\* start() collects the loops in the order of the threads, and the destructor
\* drops them before it stops the threads.
PoolInStep ==
  Len(m_loops) = (IF owner.pc \in Starting THEN owner.k - 1
                  ELSE IF owner.pc = "serve" THEN NumThreads ELSE 0)

\* The loops before m_next are a turn ahead of the others.
TurnInStep ==
  outcome = "running" =>
     \A k \in Thread : picks[k] = picks[NumThreads] + (IF k <= m_next THEN 1 ELSE 0)

IInv ==
  /\ TypeOK
  /\ ThreadsInStep
  /\ StoppedByQuit
  /\ PoolInStep
  /\ TurnInStep
  /\ OnlyQuitLoopsAreMissing
  /\ TurnsAreEven
-----------------------------------------------------------------------------

\* The steps of a thread.
LEMMA ThreadStepOK ==
  ASSUME IInv, outcome = "running", NEW k \in Thread, ThreadStep(k)
  PROVE  IInv'
<1> USE PoolAssumption DEF IInv, Thread, threadVars, userVars, MoveThread, MoveOwner
<1>1. /\ UNCHANGED <<m_loops, m_next, kept, picks, outcome>>
      /\ quitBy' \in [{"user", "owner", "lost"} -> SUBSET Thread]
      /\ quitBy'["user"] = quitBy["user"] /\ quitBy'["owner"] = quitBy["owner"]
  <2>1. UNCHANGED <<m_loops, m_next, kept, picks, outcome>>
    BY DEF ThreadStep, Publish, EnterLoop, LeaveLoop, Reset, EndThread
  <2>2. \/ UNCHANGED quitBy
        \/ quitBy' = [quitBy EXCEPT !["lost"] = @ \cup (quitBy["owner"] \cap {k})]
    BY DEF ThreadStep, Publish, EnterLoop, LeaveLoop, Reset, EndThread
  <2>3. quitBy \in [{"user", "owner", "lost"} -> SUBSET Thread]
    BY DEF TypeOK
  <2> QED BY <2>1, <2>2, <2>3
<1>2. /\ owner' \in [pc : OwnerPosition, k : Thread]
      /\ owner'.k = owner.k
      /\ owner'.pc = owner.pc \/ (owner.pc = "asleep" /\ owner'.pc = "check")
  BY DEF ThreadStep, Publish, EnterLoop, LeaveLoop, Reset, EndThread, TypeOK, OwnerPosition
<1>3. /\ m_loop' \subseteq Thread /\ m_bLooping' \subseteq Thread
      /\ at' \in [Thread -> Position]
  BY DEF ThreadStep, Publish, EnterLoop, LeaveLoop, Reset, EndThread, TypeOK, Position
<1>4. TypeOK'
  BY <1>1, <1>2, <1>3, Zenon DEF TypeOK
<1>5. \A j \in Thread : /\ Started(j)' <=> Started(j)
                        /\ SeenBy(j)' <=> SeenBy(j)
                        /\ ToldToQuit(j)' <=> ToldToQuit(j)
                        /\ Joined(j)' <=> Joined(j)
  BY <1>2 DEF Started, SeenBy, ToldToQuit, Joined, Starting, Stopping
<1>6. ThreadsInStep'
  <2>1. /\ \A j \in Thread \ {k} : at'[j] = at[j] /\ (j \in m_loop' <=> j \in m_loop)
        /\ at[k] # "none" /\ at[k] # "ended" /\ at'[k] # "none" /\ at'[k] # "made"
        /\ k \in m_loop' <=> at'[k] \in {"published", "looping", "left"}
    BY DEF ThreadsInStep, ThreadStep, Publish, EnterLoop, LeaveLoop, Reset, EndThread, TypeOK
  <2> QED BY <1>5, <2>1 DEF ThreadsInStep
<1>7. StoppedByQuit'
  BY <1>1, <1>5 DEF StoppedByQuit, ThreadStep, Publish, EnterLoop, LeaveLoop, Reset, EndThread,
     TypeOK
<1>8. PoolInStep' /\ TurnInStep'
  BY <1>1, <1>2 DEF PoolInStep, TurnInStep, Starting
<1>9. OnlyQuitLoopsAreMissing' /\ TurnsAreEven'
  BY <1>1 DEF OnlyQuitLoopsAreMissing, TurnsAreEven
<1> QED BY <1>4, <1>6, <1>7, <1>8, <1>9

\* The invariant speaks of the threads, of the owner and of the pool.  The
\* pointers that the users keep are of no account.
LEMMA KeptIsFree ==
  ASSUME IInv, kept' \subseteq Thread,
         UNCHANGED <<threadVars, m_loops, m_next, owner, outcome, picks, quitBy>>
  PROVE  IInv'
BY DEF IInv, TypeOK, ThreadsInStep, StoppedByQuit, PoolInStep, TurnInStep,
   OnlyQuitLoopsAreMissing, TurnsAreEven, Started, SeenBy, ToldToQuit, Joined, threadVars

\* The elements of the pool.
LEMMA PoolEntry ==
  ASSUME IInv, NEW i \in DOMAIN m_loops
  PROVE  /\ i \in Thread
         /\ m_loops[i] = i \/ (m_loops[i] = NoLoop /\ i \in quitBy["user"])
         /\ NoLoop \notin Thread
<1>1. m_loops \in Seq(Thread \cup {NoLoop}) /\ Len(m_loops) <= NumThreads
  BY DEF IInv, TypeOK
<1>2. i \in Thread
  BY <1>1, PoolAssumption DEF Thread
<1>3. NoLoop \notin Thread
  BY PoolAssumption DEF Thread
<1> QED BY <1>2, <1>3 DEF IInv, OnlyQuitLoopsAreMissing

\* The steps of the users, and of the owner between calls.
LEMMA UserStepOK ==
  ASSUME IInv, outcome = "running",
         \/ \E k \in Thread : InitCallback(k) \/ UserQuit(k) \/ Release(k)
         \/ GetAnyLoop
  PROVE  IInv'
<1> USE PoolAssumption
<1>1. ASSUME NEW k \in Thread, InitCallback(k) \/ Release(k) PROVE IInv'
  <2>1. kept' \subseteq Thread
    BY <1>1 DEF InitCallback, Release, IInv, TypeOK
  <2> QED BY <1>1, <2>1, KeptIsFree DEF InitCallback, Release
<1>2. ASSUME NEW k \in Thread, UserQuit(k) PROVE IInv'
  <2>1. /\ UNCHANGED <<at, m_loop, m_loops, owner, m_next, kept, picks, outcome>>
        /\ m_bLooping' = m_bLooping \ {k}
        /\ quitBy' = [quitBy EXCEPT !["user"] = @ \cup {k}]
    BY <1>2 DEF UserQuit, userVars
  <2>2. /\ quitBy' \in [{"user", "owner", "lost"} -> SUBSET Thread]
        /\ quitBy'["user"] = quitBy["user"] \cup {k} /\ quitBy'["owner"] = quitBy["owner"]
    BY <2>1 DEF IInv, TypeOK
  <2>3. TypeOK'
    BY <2>1, <2>2 DEF IInv, TypeOK
  <2>4. StoppedByQuit'
    BY <2>1, <2>2 DEF IInv, StoppedByQuit, ToldToQuit
  <2>5. ThreadsInStep' /\ PoolInStep' /\ TurnInStep' /\ TurnsAreEven'
    BY <2>1 DEF IInv, ThreadsInStep, PoolInStep, TurnInStep, TurnsAreEven, Started, SeenBy,
       Joined
  <2>6. OnlyQuitLoopsAreMissing'
    BY <2>1, <2>2 DEF IInv, OnlyQuitLoopsAreMissing
  <2> QED BY <2>3, <2>4, <2>5, <2>6 DEF IInv
<1>3. CASE GetAnyLoop
  <2>1. PICK i \in DOMAIN m_loops : HandOut(m_loops[i])
    BY <1>3 DEF GetAnyLoop
  <2>2. UNCHANGED <<threadVars, m_loops, m_next, owner, picks, quitBy>>
    BY <1>3 DEF GetAnyLoop
  <2>3. CASE m_loops[i] = i
    BY <2>1, <2>2, <2>3, PoolEntry, KeptIsFree DEF HandOut, IInv, TypeOK
  <2>4. CASE m_loops[i] = NoLoop /\ i \in quitBy["user"]
    <3>1. outcome' = "null loop" /\ UNCHANGED kept
      BY <2>1, <2>4 DEF HandOut, Fails
    <3> QED BY <2>2, <2>4, <3>1 DEF IInv, TypeOK, ThreadsInStep, StoppedByQuit, PoolInStep,
               TurnInStep, OnlyQuitLoopsAreMissing, TurnsAreEven, Started, SeenBy, ToldToQuit,
               Joined, threadVars
  <2> QED BY <2>3, <2>4, PoolEntry
<1> QED BY <1>1, <1>2, <1>3

\* getNextLoop() gives every loop its turn.
LEMMA GetNextLoopOK ==
  ASSUME IInv, outcome = "running", GetNextLoop
  PROVE  IInv'
<1> USE PoolAssumption DEF Thread
<1> DEFINE loop == m_loops[m_next + 1]
<1>1. /\ owner.pc = "serve" /\ Len(m_loops) = NumThreads
      /\ UNCHANGED <<at, m_loop, m_bLooping, m_loops, owner, quitBy>>
  BY DEF GetNextLoop, IInv, PoolInStep, Starting, threadVars
<1>2. /\ m_loops \in Seq(Thread \cup {NoLoop})
      /\ m_next \in 0 .. (NumThreads - 1)
      /\ picks \in [Thread -> 0 .. MaxPicks]
  BY DEF IInv, TypeOK
<1>3. m_next + 1 \in DOMAIN m_loops /\ m_next + 1 \in Thread
  BY <1>1, <1>2
<1>4. /\ loop = m_next + 1 \/ (loop = NoLoop /\ m_next + 1 \in quitBy["user"])
      /\ NoLoop \notin Thread
  BY <1>3, PoolEntry
<1>5. /\ loop # NoLoop => picks[loop] < MaxPicks
      /\ HandOut(loop)
      /\ picks' = [k \in Thread |-> picks[k] + (IF k = loop THEN 1 ELSE 0)]
      /\ m_next' = NextIndex(m_next)
  BY DEF GetNextLoop
<1>6. m_next' = (IF m_next + 1 >= NumThreads THEN 0 ELSE m_next + 1)
  BY <1>1, <1>5 DEF NextIndex
<1>7. m_next' \in 0 .. (NumThreads - 1)
  BY <1>2, <1>6
<1>8. CASE loop = m_next + 1
  <2>1. outcome' = "running" /\ kept' = kept \cup {loop}
    BY <1>3, <1>4, <1>5, <1>8 DEF HandOut
  <2>2. picks' \in [Thread -> 0 .. MaxPicks]
    BY <1>2, <1>3, <1>4, <1>5, <1>8
  <2>3. TypeOK'
    BY <1>1, <1>3, <1>7, <1>8, <2>1, <2>2, Zenon DEF IInv, TypeOK
  <2>4. TurnInStep'
    <3>1. \A k \in Thread : picks[k] = picks[NumThreads] + (IF k <= m_next THEN 1 ELSE 0)
      BY DEF IInv, TurnInStep
    <3>2. \A k \in Thread : picks'[k] = picks[k] + (IF k = m_next + 1 THEN 1 ELSE 0)
      BY <1>5, <1>8
    <3>3. \A k \in Thread : picks[k] \in Nat
      BY <1>2
    <3>4. \A k \in Thread : picks'[k] = picks'[NumThreads] + (IF k <= m_next' THEN 1 ELSE 0)
      BY <1>2, <1>6, <3>1, <3>2, <3>3
    <3> QED BY <3>4 DEF TurnInStep
  <2>5. TurnsAreEven'
    <3>1. NumThreads \in Thread /\ picks'[NumThreads] \in Nat
      BY <2>2
    <3>2. \A k \in Thread : picks'[k] \in {picks'[NumThreads], picks'[NumThreads] + 1}
      BY <2>1, <2>4, <3>1 DEF TurnInStep
    <3> QED BY <3>1, <3>2 DEF TurnsAreEven
  <2>6. ThreadsInStep' /\ StoppedByQuit' /\ PoolInStep'
    BY <1>1 DEF IInv, ThreadsInStep, StoppedByQuit, PoolInStep, Started, SeenBy, ToldToQuit,
       Joined
  <2>7. OnlyQuitLoopsAreMissing'
    BY <1>1, <2>1 DEF IInv, OnlyQuitLoopsAreMissing
  <2> QED BY <2>3, <2>4, <2>5, <2>6, <2>7 DEF IInv
<1>9. CASE loop = NoLoop /\ m_next + 1 \in quitBy["user"]
  <2>1. outcome' = "null loop" /\ UNCHANGED kept
    BY <1>5, <1>9 DEF HandOut, Fails
  <2>2. UNCHANGED picks
    BY <1>2, <1>4, <1>5, <1>9
  <2>3. TypeOK'
    BY <1>1, <1>7, <2>1, <2>2 DEF IInv, TypeOK
  <2>4. TurnInStep'
    BY <2>1 DEF TurnInStep
  <2> QED BY <1>1, <1>9, <2>1, <2>2, <2>3, <2>4 DEF IInv, ThreadsInStep, StoppedByQuit,
             PoolInStep, OnlyQuitLoopsAreMissing, TurnsAreEven, Started, SeenBy, ToldToQuit,
             Joined
<1> QED BY <1>4, <1>8, <1>9

\* The steps of start() and startLoop().
LEMMA StartStepOK ==
  ASSUME IInv, outcome = "running", SpawnThread \/ WaitForLoop \/ ReturnLoop
  PROVE  IInv'
<1> USE PoolAssumption DEF Thread, MoveOwner, MoveThread, threadVars, userVars
<1>1. owner \in [pc : OwnerPosition, k : Thread] /\ owner.k \in Thread
  BY DEF IInv, TypeOK
<1>2. CASE SpawnThread \/ WaitForLoop
  <2>1. /\ UNCHANGED <<m_loop, m_bLooping, m_loops, m_next, kept, picks, outcome, quitBy>>
        /\ owner'.k = owner.k /\ owner' \in [pc : OwnerPosition, k : Thread]
        /\ owner.pc \in Starting /\ owner'.pc \in Starting
    <3>1. CASE SpawnThread
      BY <1>1, <3>1 DEF SpawnThread, OwnerPosition, Starting
    <3>2. CASE WaitForLoop
      BY <1>1, <3>2 DEF WaitForLoop, OwnerPosition, Starting
    <3> QED BY <1>2, <3>1, <3>2
  <2>2. \/ /\ owner.pc = "start" /\ owner'.pc = "check" /\ at[owner.k] = "none"
           /\ at' = [at EXCEPT ![owner.k] = "made"]
        \/ /\ owner.pc = "check" /\ UNCHANGED at
           /\ owner'.pc = "asleep" \/ (owner'.pc = "return" /\ owner.k \in m_loop)
    <3>1. CASE SpawnThread
      BY <1>1, <3>1 DEF SpawnThread
    <3>2. CASE WaitForLoop
      BY <1>1, <3>2 DEF WaitForLoop
    <3> QED BY <1>2, <3>1, <3>2
  <2>3. at' \in [Thread -> Position]
    <3>1. at \in [Thread -> Position] /\ "made" \in Position
      BY DEF IInv, TypeOK, Position
    <3> QED BY <1>1, <2>2, <3>1
  <2>4. TypeOK'
    BY <2>1, <2>3, Zenon DEF IInv, TypeOK
  <2>5. \A k \in Thread :
           /\ SeenBy(k)' <=> SeenBy(k) \/ (k = owner.k /\ owner'.pc = "return")
           /\ Started(k)' <=> Started(k) \/ (k = owner.k /\ owner.pc = "start")
           /\ ~Joined(k)' /\ ~ToldToQuit(k) /\ ~ToldToQuit(k)'
    BY <1>1, <2>1, <2>2 DEF SeenBy, Started, Joined, ToldToQuit, Starting, Stopping
  <2>6. ThreadsInStep'
    <3>1. at \in [Thread -> Position] /\ ThreadsInStep
      BY DEF IInv, TypeOK
    <3>2. CASE owner.pc = "start"
      <4>1. /\ at' = [at EXCEPT ![owner.k] = "made"] /\ at[owner.k] = "none"
            /\ owner'.pc = "check"
        BY <2>2, <3>2
      <4>2. ~SeenBy(owner.k)
        BY <1>1, <3>2 DEF SeenBy, Starting
      <4> QED BY <1>1, <2>1, <2>5, <3>1, <3>2, <4>1, <4>2 DEF ThreadsInStep
    <3>3. CASE owner.pc = "check"
      <4>1. UNCHANGED at /\ (owner'.pc = "return" => owner.k \in m_loop)
        BY <2>2, <3>3
      <4> QED BY <1>1, <2>1, <2>5, <3>1, <3>3, <4>1 DEF ThreadsInStep
    <3> QED BY <2>2, <3>2, <3>3
  <2>7. StoppedByQuit'
    BY <1>1, <2>1, <2>2, <2>5 DEF IInv, TypeOK, StoppedByQuit
  <2> QED BY <2>1, <2>4, <2>6, <2>7 DEF IInv, PoolInStep, TurnInStep, OnlyQuitLoopsAreMissing,
             TurnsAreEven
<1>3. CASE ReturnLoop
  <2> DEFINE loop == IF owner.k \in m_loop THEN owner.k ELSE NoLoop
  <2>1. /\ owner.pc = "return"
        /\ UNCHANGED <<at, m_loop, m_bLooping, m_next, kept, picks, outcome, quitBy>>
        /\ m_loops' = Append(m_loops, loop)
        /\ owner' = IF owner.k = NumThreads THEN [pc |-> "serve", k |-> owner.k]
                                            ELSE [pc |-> "start", k |-> owner.k + 1]
    BY <1>3 DEF ReturnLoop
  <2>2. /\ m_loops \in Seq(Thread \cup {NoLoop}) /\ Len(m_loops) = owner.k - 1
        /\ loop \in Thread \cup {NoLoop}
    BY <1>1, <2>1 DEF IInv, TypeOK, PoolInStep, Starting
  <2>3. /\ m_loops' \in Seq(Thread \cup {NoLoop}) /\ Len(m_loops') = owner.k
        /\ m_loops'[owner.k] = loop
        /\ \A i \in DOMAIN m_loops' : i # owner.k => i \in DOMAIN m_loops
                                                     /\ m_loops'[i] = m_loops[i]
    BY <1>1, <2>1, <2>2
  <2>4. owner' \in [pc : OwnerPosition, k : Thread]
    BY <1>1, <2>1 DEF OwnerPosition
  <2>5. Len(m_loops') <= NumThreads
    BY <1>1, <2>3
  <2>6. TypeOK'
    BY <2>1, <2>3, <2>4, <2>5, Zenon DEF IInv, TypeOK
  <2>7. \A k \in Thread : /\ SeenBy(k)' <=> SeenBy(k)
                          /\ Started(k)' <=> Started(k)
                          /\ ~Joined(k)' /\ ~ToldToQuit(k) /\ ~ToldToQuit(k)'
    BY <1>1, <2>1 DEF SeenBy, Started, Joined, ToldToQuit, Starting, Stopping
  <2>8. ThreadsInStep' /\ StoppedByQuit'
    BY <2>1, <2>7 DEF IInv, ThreadsInStep, StoppedByQuit
  <2>9. PoolInStep'
    BY <1>1, <2>1, <2>3 DEF PoolInStep, Starting
  <2>10. loop = owner.k \/ (loop = NoLoop /\ owner.k \in quitBy["user"])
    <3>1. SeenBy(owner.k) /\ Started(owner.k) /\ ~ToldToQuit(owner.k)
      BY <1>1, <2>1 DEF SeenBy, Started, ToldToQuit, Stopping
    <3>2. owner.k \notin m_loop => at[owner.k] \in {"reset", "ended"}
      BY <1>1, <3>1 DEF IInv, TypeOK, ThreadsInStep, Position
    <3> QED BY <1>1, <3>1, <3>2 DEF IInv, StoppedByQuit
  <2>11. OnlyQuitLoopsAreMissing'
    BY <1>1, <2>1, <2>3, <2>10 DEF IInv, OnlyQuitLoopsAreMissing
  <2> QED BY <2>1, <2>6, <2>8, <2>9, <2>11 DEF IInv, TurnInStep, TurnsAreEven
<1> QED BY <1>2, <1>3

\* The steps of the two destructors.
LEMMA StopStepOK ==
  ASSUME IInv, outcome = "running",
         DestroyPool \/ TestLoop \/ StoreQuit \/ WakeLoop \/ Join
  PROVE  IInv'
<1> USE PoolAssumption DEF Thread, MoveOwner, threadVars, userVars
<1>1. /\ owner \in [pc : OwnerPosition, k : Thread] /\ owner.k \in Thread
      /\ UNCHANGED <<at, m_loop, m_next, kept, picks>>
  BY DEF IInv, TypeOK, DestroyPool, TestLoop, StoreQuit, WakeLoop, Join
<1>2. CASE DestroyPool
  <2>1. /\ m_loops' = <<>> /\ owner' = [pc |-> "test", k |-> 1] /\ owner.pc = "serve"
        /\ UNCHANGED <<m_bLooping, outcome, quitBy>>
    BY <1>2 DEF DestroyPool
  <2>2. TypeOK'
    <3>1. /\ owner' \in [pc : OwnerPosition, k : Thread]
          /\ m_loops' \in Seq(Thread \cup {NoLoop}) /\ Len(m_loops') <= NumThreads
      BY <1>1, <2>1 DEF OwnerPosition
    <3> QED BY <1>1, <2>1, <3>1, Zenon DEF IInv, TypeOK
  <2>3. \A k \in Thread : /\ SeenBy(k)' <=> SeenBy(k)
                          /\ Started(k)' <=> Started(k)
                          /\ ~Joined(k)' /\ ~ToldToQuit(k) /\ ~ToldToQuit(k)'
    BY <1>1, <2>1 DEF SeenBy, Started, Joined, ToldToQuit, Starting, Stopping
  <2>4. ThreadsInStep' /\ StoppedByQuit'
    BY <1>1, <2>1, <2>3 DEF IInv, ThreadsInStep, StoppedByQuit
  <2>5. PoolInStep' /\ OnlyQuitLoopsAreMissing'
    BY <2>1 DEF IInv, PoolInStep, OnlyQuitLoopsAreMissing, Starting
  <2> QED BY <1>1, <2>1, <2>2, <2>4, <2>5 DEF IInv, TurnInStep, TurnsAreEven
<1>3. CASE \/ (TestLoop \/ StoreQuit) /\ owner.k \notin m_loop
           \/ WakeLoop /\ ~Alive(owner.k)
  <2>1. /\ UNCHANGED <<m_bLooping, m_loops, quitBy, owner>>
        /\ \/ outcome' \in {"terminate", "null loop"} /\ owner.k \notin m_loop
              /\ owner.pc \in {"test", "quit"}
           \/ outcome' = "freed loop"
    BY <1>1, <1>3 DEF TestLoop, StoreQuit, WakeLoop, Fails
  <2>2. owner.pc \in {"test", "quit"} /\ owner.k \notin m_loop => owner.k \in quitBy["user"]
    <3> SUFFICES ASSUME owner.pc \in {"test", "quit"}, owner.k \notin m_loop
                 PROVE  owner.k \in quitBy["user"]
      OBVIOUS
    <3>1. SeenBy(owner.k) /\ Started(owner.k) /\ ~ToldToQuit(owner.k)
      BY <1>1 DEF SeenBy, Started, ToldToQuit, Starting, Stopping
    <3>2. at[owner.k] \in {"reset", "ended"}
      BY <1>1, <3>1 DEF IInv, TypeOK, ThreadsInStep, Position
    <3> QED BY <1>1, <3>1, <3>2 DEF IInv, StoppedByQuit
  <2>3. TypeOK'
    BY <1>1, <2>1 DEF IInv, TypeOK
  <2>4. OnlyQuitLoopsAreMissing'
    BY <1>1, <2>1, <2>2 DEF IInv, OnlyQuitLoopsAreMissing
  <2> QED BY <1>1, <2>1, <2>3, <2>4 DEF IInv, ThreadsInStep, StoppedByQuit, PoolInStep,
             TurnInStep, TurnsAreEven, Started, SeenBy, ToldToQuit, Joined
<1>4. CASE TestLoop /\ owner.k \in m_loop
  <2>1. /\ owner.pc = "test" /\ owner' = [pc |-> "quit", k |-> owner.k]
        /\ UNCHANGED <<m_bLooping, m_loops, outcome, quitBy>>
    BY <1>4 DEF TestLoop
  <2>2. TypeOK'
    BY <1>1, <2>1 DEF IInv, TypeOK, OwnerPosition
  <2>3. \A k \in Thread : /\ SeenBy(k)' <=> SeenBy(k)
                          /\ Started(k)' <=> Started(k)
                          /\ Joined(k)' <=> Joined(k)
                          /\ ToldToQuit(k)' <=> ToldToQuit(k)
    BY <1>1, <2>1 DEF SeenBy, Started, Joined, ToldToQuit, Starting, Stopping
  <2>4. ThreadsInStep' /\ StoppedByQuit'
    BY <1>1, <2>1, <2>3 DEF IInv, ThreadsInStep, StoppedByQuit
  <2> QED BY <1>1, <2>1, <2>2, <2>4 DEF IInv, PoolInStep, OnlyQuitLoopsAreMissing, TurnInStep,
             TurnsAreEven, Starting
<1>5. CASE StoreQuit /\ owner.k \in m_loop
  <2>1. /\ owner.pc = "quit" /\ owner' = [pc |-> "wakeup", k |-> owner.k]
        /\ m_bLooping' = m_bLooping \ {owner.k}
        /\ quitBy' = [quitBy EXCEPT !["owner"] = @ \cup {owner.k}]
        /\ UNCHANGED <<m_loops, outcome>>
    BY <1>5 DEF StoreQuit
  <2>2. /\ quitBy' \in [{"user", "owner", "lost"} -> SUBSET Thread]
        /\ quitBy'["user"] = quitBy["user"]
        /\ quitBy'["owner"] = quitBy["owner"] \cup {owner.k}
    BY <1>1, <2>1 DEF IInv, TypeOK
  <2>3. TypeOK'
    BY <1>1, <2>1, <2>2 DEF IInv, TypeOK, OwnerPosition
  <2>4. \A k \in Thread : /\ SeenBy(k)' <=> SeenBy(k)
                          /\ Started(k)' <=> Started(k)
                          /\ Joined(k)' <=> Joined(k)
                          /\ ToldToQuit(k)' <=> ToldToQuit(k) \/ k = owner.k
    BY <1>1, <2>1 DEF SeenBy, Started, Joined, ToldToQuit, Starting, Stopping
  <2>5. ThreadsInStep' /\ StoppedByQuit'
    BY <1>1, <2>1, <2>2, <2>4 DEF IInv, ThreadsInStep, StoppedByQuit
  <2> QED BY <1>1, <2>1, <2>2, <2>3, <2>5 DEF IInv, PoolInStep, OnlyQuitLoopsAreMissing,
             TurnInStep, TurnsAreEven, Starting
<1>6. CASE (WakeLoop /\ Alive(owner.k)) \/ Join
  <2>1. /\ \/ owner.pc = "wakeup" /\ owner' = [pc |-> "join", k |-> owner.k]
           \/ /\ owner.pc = "join" /\ at[owner.k] = "ended"
              /\ owner' = IF owner.k = NumThreads THEN [pc |-> "done", k |-> owner.k]
                                                  ELSE [pc |-> "test", k |-> owner.k + 1]
        /\ UNCHANGED <<m_bLooping, m_loops, outcome, quitBy>>
    BY <1>6 DEF WakeLoop, Join, NextThread
  <2>2. TypeOK'
    <3>1. owner' \in [pc : OwnerPosition, k : Thread]
      BY <1>1, <2>1 DEF OwnerPosition
    <3> QED BY <1>1, <2>1, <3>1, Zenon DEF IInv, TypeOK
  <2>3. \A k \in Thread : /\ SeenBy(k)' <=> SeenBy(k)
                          /\ Started(k)' <=> Started(k)
                          /\ Joined(k)' => Joined(k) \/ (k = owner.k /\ at[k] = "ended")
                          /\ ToldToQuit(k) => ToldToQuit(k)'
    BY <1>1, <2>1 DEF SeenBy, Started, Joined, ToldToQuit, Starting, Stopping
  <2>4. ThreadsInStep' /\ StoppedByQuit'
    BY <1>1, <2>1, <2>3 DEF IInv, ThreadsInStep, StoppedByQuit
  <2>5. PoolInStep' /\ OnlyQuitLoopsAreMissing'
    BY <1>1, <2>1 DEF IInv, PoolInStep, OnlyQuitLoopsAreMissing, Starting
  <2> QED BY <1>1, <2>1, <2>2, <2>4, <2>5 DEF IInv, TurnInStep, TurnsAreEven
<1> QED BY <1>2, <1>3, <1>4, <1>5, <1>6 DEF TestLoop, StoreQuit, WakeLoop

-----------------------------------------------------------------------------

LEMMA PoolInvariance == Spec => []IInv
<1>1. Init => IInv
  BY PoolAssumption DEF Init, IInv, TypeOK, Position, OwnerPosition, ThreadsInStep,
     StoppedByQuit, PoolInStep, TurnInStep, OnlyQuitLoopsAreMissing, TurnsAreEven, Started,
     SeenBy, ToldToQuit, Joined, Starting, Stopping, Thread
<1>2. IInv /\ [Next]_vars => IInv'
  <2>1. CASE UNCHANGED vars
    BY <2>1 DEF vars, IInv, TypeOK, ThreadsInStep, StoppedByQuit, PoolInStep, TurnInStep,
       OnlyQuitLoopsAreMissing, TurnsAreEven, Started, SeenBy, ToldToQuit, Joined
  <2> QED BY <2>1, ThreadStepOK, UserStepOK, GetNextLoopOK, StartStepOK, StopStepOK
          DEF Next, OwnerStep
<1> QED BY <1>1, <1>2, PTL DEF Spec

\* The state of the pool, of its threads and of its owner keeps its type.
THEOREM TypeCorrect == Spec => []TypeOK
<1>1. IInv => TypeOK
  BY DEF IInv
<1> QED BY <1>1, PoolInvariance, PTL

\* However many threads the pool has, every loop that is missing, and every
\* failure of the destructor, goes back to a quit() by somebody else.
THEOREM OnlyQuitLoopsAreEverMissing == Spec => []OnlyQuitLoopsAreMissing
<1>1. IInv => OnlyQuitLoopsAreMissing
  BY DEF IInv
<1> QED BY <1>1, PoolInvariance, PTL

\* No EventLoopThread is freed while its thread runs.
THEOREM ThreadsAreJoined == Spec => []JoinedBeforeFreed
<1>1. IInv => JoinedBeforeFreed
  BY DEF IInv, ThreadsInStep, JoinedBeforeFreed, Joined, Stopping
<1> QED BY <1>1, PoolInvariance, PTL

\* getNextLoop() is fair to any number of loops.
THEOREM TurnsStayEven == Spec => []TurnsAreEven
<1>1. IInv => TurnsAreEven
  BY DEF IInv
<1> QED BY <1>1, PoolInvariance, PTL
=============================================================================
