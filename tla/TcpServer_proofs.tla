-------------------------- MODULE TcpServer_proofs --------------------------
(***************************************************************************)
(* Proofs about TcpServer, for any number of connections, descriptors,     *)
(* loops and threads, and for every bound.  They are about users who leave *)
(* reading alone, and whose threads only send: with the other calls the    *)
(* asserts of the code do fail, as the runs tcpserver_close_race and       *)
(* tcpserver_stop_read show.                                               *)
(***************************************************************************)
EXTENDS TcpServer, TcpConnection_proofs, SequenceTheorems

QuietUsers == QuietCallbacks /\ ThreadOps \subseteq {"send"}

-----------------------------------------------------------------------------
(* The inductive invariant: what holds as long as no assert has failed.    *)

Live(c) == life[c] = "live"

OpenState == {"kConnected", "kDisconnecting"}

\* The functors of loop l in the order in which it will call them.
Queue(l) == batch[l] \o pending[l]

EstablishTask(c) == [fn |-> "connectEstablished", conn |-> c]

\* A task is nowhere in a vector of functors, or just once.
Absent(s, task) == \A i \in DOMAIN s : s[i].task # task

Once(s, task) ==
  \E i \in DOMAIN s : s[i].task = task /\ \A j \in DOMAIN s : s[j].task = task => j = i

\* Each poller is sound, and has the channels of the connections of its loop.
PollersSound ==
  \A l \in Loops :
     /\ Sound(poller[l])
     /\ \A c \in Conns : poller[l].fd[c] # None <=> Live(c) /\ loop[c] = l

ChannelsInStep ==
  \A c \in Conns : Live(c) => ChannelInStep(conn[c].state, poller[loop[c]], c)

\* A loop is only about to handle events of connections that are open.
ActiveAreOpen ==
  \A l \in Loops :
     /\ active[l] # {} => phase[l] = "events"
     /\ \A c \in active[l] \cap Conns :
           Live(c) /\ loop[c] = l /\ conn[c].state \in OpenState

\* Functors are for connections of the loop they are queued on, and keep them.
QueuesAreLive ==
  \A l \in Loops :
     /\ batch[l] # <<>> \/ kept[l] # {} => phase[l] = "functors"
     /\ ConnsOf(batch[l]) \subseteq kept[l]
     /\ \A i \in DOMAIN Queue(l) :
           LET task == Queue(l)[i].task IN
           /\ Live(task.conn) /\ loop[task.conn] = l
           /\ task.fn \notin {"startReadInLoop", "stopReadInLoop"}

\* A connection exists exactly as long as it is referenced.
ReferencedAreLive == \A c \in Conns : Referenced(c) <=> Live(c)

CallsAreQuiet ==
  \A t \in Threads : doing[t] # Idle => doing[t].op \in ThreadOps /\ doing[t].conn \in Conns

(***************************************************************************)
(* A connection's state, whether its channel is known to the poller,       *)
(* whether it is in the map, whether ~TcpServer() dropped it, whether its  *)
(* loop is that of the Acceptor, and the functors that are to come.        *)
(***************************************************************************)
InOrder(c, state, known, inMap, isDropped, atBase, queue) ==
  /\ inMap <=> ~isDropped /\ state # "kDisconnected"
  /\ state = "kConnecting" => ~atBase
  /\ \/ Absent(queue, EstablishTask(c))
     \/ state = "kConnecting" /\ Once(queue, EstablishTask(c))
  /\ isDropped /\ ~atBase =>
        (state # "kDisconnected" \/ known => ~Absent(queue, DestroyTask(c)))
  /\ ~(isDropped /\ ~atBase) =>
        IF state = "kDisconnected" /\ known
        THEN Once(queue, DestroyTask(c)) ELSE Absent(queue, DestroyTask(c))
  /\ isDropped /\ atBase => state = "kDisconnected" /\ ~known

ConnInOrder(c) ==
  InOrder(c, conn[c].state, poller[loop[c]].index[c] # "new", c \in map, c \in dropped,
          loop[c] = Base, Queue(loop[c]))

ConnsInOrder == \A c \in Conns : Live(c) => ConnInOrder(c)

\* ~TcpServer() comes after the Acceptor's loop has returned.
EndInOrder ==
  /\ dropped # {} \/ server # "up" => phase[Base] = "exited"
  /\ server # "up" => map = {}
  /\ \A c \in dropped : life[c] \in {"live", "gone"}

\* Without a pool, every connection is of the loop that accepts it.
OneLoop == Pool = <<>> => \A c \in Conns : loop[c] = Base

Core ==
  /\ PollersSound /\ ChannelsInStep /\ ActiveAreOpen /\ QueuesAreLive
  /\ ReferencedAreLive /\ CallsAreQuiet /\ ConnsInOrder /\ EndInOrder /\ OneLoop

\* ~TcpServer() has not met a connection of another loop.
DroppedHere == \A c \in dropped : loop[c] = Base

\* What the theorems are about; it is all that is left when an assert fails.
Claims ==
  /\ TypeOK /\ NoDanglingChannel /\ ClosedIsSilent /\ MapIsLive /\ NoneLeftOpen
  /\ FailsOnlyAtStop /\ (DroppedHere => RemovedOnce) /\ OneLoop

IInv == Claims /\ (failed = "none" => Core)
-----------------------------------------------------------------------------
(* Vectors of functors.                                                    *)

LEMMA TailTasks ==
  ASSUME NEW S, NEW s \in Seq(S), s # <<>>, NEW task
  PROVE  /\ Absent(s, task) => Absent(Tail(s), task)
         /\ Once(s, task) /\ s[1].task = task => Absent(Tail(s), task)
         /\ Once(s, task) /\ s[1].task # task => Once(Tail(s), task)
         /\ ~Absent(s, task) /\ s[1].task # task => ~Absent(Tail(s), task)
<1> DEFINE t == Tail(s)
           n == Len(s)
<1>1. /\ n \in Nat \ {0} /\ DOMAIN s = 1 .. n /\ DOMAIN t = 1 .. n - 1
      /\ \A i \in 1 .. n - 1 : t[i] = s[i + 1]
  BY HeadTailProperties, EmptySeq, LenProperties
<1> HIDE DEF t, n
<1>2. \A i \in 1 .. n : i # 1 => i - 1 \in 1 .. n - 1 /\ t[i - 1] = s[i]
  BY <1>1
<1>3. \A i \in 1 .. n - 1 : i + 1 \in 1 .. n /\ i + 1 # 1 /\ (i + 1) - 1 = i
  BY <1>1
<1>4. Absent(s, task) => Absent(t, task)
  BY <1>1, <1>3 DEF Absent
<1>5. Once(s, task) /\ s[1].task = task => Absent(t, task)
  <2> SUFFICES ASSUME Once(s, task), s[1].task = task, NEW i \in 1 .. n - 1
               PROVE  t[i].task # task
    BY <1>1 DEF Absent
  <2>1. 1 \in 1 .. n /\ i + 1 \in 1 .. n /\ i + 1 # 1
    BY <1>1
  <2>2. s[i + 1].task # task
    BY <1>1, <2>1 DEF Once
  <2> QED BY <1>1, <2>2
<1>6. Once(s, task) /\ s[1].task # task => Once(t, task)
  <2> SUFFICES ASSUME Once(s, task), s[1].task # task PROVE Once(t, task)
    OBVIOUS
  <2>1. PICK i \in 1 .. n : s[i].task = task /\ \A j \in 1 .. n : s[j].task = task => j = i
    BY <1>1 DEF Once
  <2>2. i - 1 \in 1 .. n - 1 /\ t[i - 1].task = task
    BY <1>2, <2>1
  <2>3. ASSUME NEW j \in 1 .. n - 1, t[j].task = task PROVE j = i - 1
    <3>1. j + 1 \in 1 .. n /\ s[j + 1].task = task
      BY <1>1, <1>3, <2>3
    <3>2. j + 1 = i
      BY <2>1, <3>1
    <3> QED BY <1>3, <3>2
  <2> QED BY <1>1, <2>2, <2>3 DEF Once
<1>7. ~Absent(s, task) /\ s[1].task # task => ~Absent(t, task)
  BY <1>1, <1>2 DEF Absent
<1> QED BY <1>4, <1>5, <1>6, <1>7 DEF t

LEMMA ConcatTasks ==
  ASSUME NEW S, NEW s \in Seq(S), NEW t \in Seq(S), NEW task
  PROVE  /\ Absent(s \o t, task) <=> Absent(s, task) /\ Absent(t, task)
         /\ Once(s, task) /\ Absent(t, task) => Once(s \o t, task)
         /\ Absent(s, task) /\ Once(t, task) => Once(s \o t, task)
<1> DEFINE q == s \o t
           m == Len(s)
           n == Len(t)
<1>1. /\ m \in Nat /\ n \in Nat /\ DOMAIN s = 1 .. m /\ DOMAIN t = 1 .. n
      /\ DOMAIN q = 1 .. m + n
      /\ \A i \in 1 .. m + n : q[i] = IF i <= m THEN s[i] ELSE t[i - m]
  BY ConcatProperties, LenProperties
<1> HIDE DEF q, m, n
<1>2. \A i \in 1 .. m : i \in 1 .. m + n /\ q[i] = s[i]
  BY <1>1
<1>3. \A i \in 1 .. n : i + m \in 1 .. m + n /\ q[i + m] = t[i] /\ i + m \notin 1 .. m
  BY <1>1
<1>4. \A i \in 1 .. m + n : i \notin 1 .. m => i - m \in 1 .. n /\ q[i] = t[i - m]
  BY <1>1
<1>5. Absent(q, task) <=> Absent(s, task) /\ Absent(t, task)
  <2>1. ASSUME Absent(q, task) PROVE Absent(s, task) /\ Absent(t, task)
    BY <1>1, <1>2, <1>3, <2>1 DEF Absent
  <2>2. ASSUME Absent(s, task), Absent(t, task), NEW i \in 1 .. m + n
        PROVE  q[i].task # task
    <3>1. CASE i \in 1 .. m
      BY <1>1, <1>2, <2>2, <3>1 DEF Absent
    <3>2. CASE i \notin 1 .. m
      BY <1>1, <1>4, <2>2, <3>2 DEF Absent
    <3> QED BY <3>1, <3>2
  <2> QED BY <1>1, <2>1, <2>2 DEF Absent
<1>6. Once(s, task) /\ Absent(t, task) => Once(q, task)
  <2> SUFFICES ASSUME Once(s, task), Absent(t, task) PROVE Once(q, task)
    OBVIOUS
  <2>1. PICK i \in 1 .. m : s[i].task = task /\ \A j \in 1 .. m : s[j].task = task => j = i
    BY <1>1 DEF Once
  <2>2. i \in 1 .. m + n /\ q[i].task = task
    BY <1>2, <2>1
  <2>3. ASSUME NEW j \in 1 .. m + n, q[j].task = task PROVE j = i
    <3>1. j \in 1 .. m
      BY <1>1, <1>4, <2>3 DEF Absent
    <3> QED BY <1>2, <2>1, <2>3, <3>1
  <2> QED BY <1>1, <2>2, <2>3 DEF Once
<1>7. Absent(s, task) /\ Once(t, task) => Once(q, task)
  <2> SUFFICES ASSUME Absent(s, task), Once(t, task) PROVE Once(q, task)
    OBVIOUS
  <2>1. PICK i \in 1 .. n : t[i].task = task /\ \A j \in 1 .. n : t[j].task = task => j = i
    BY <1>1 DEF Once
  <2>2. i + m \in 1 .. m + n /\ q[i + m].task = task
    BY <1>3, <2>1
  <2>3. ASSUME NEW j \in 1 .. m + n, q[j].task = task PROVE j = i + m
    <3>1. j \notin 1 .. m
      BY <1>1, <1>2, <2>3 DEF Absent
    <3>2. j - m \in 1 .. n /\ t[j - m].task = task
      BY <1>4, <2>3, <3>1
    <3>3. j - m = i
      BY <2>1, <3>2
    <3> QED BY <1>1, <3>3
  <2> QED BY <1>1, <2>2, <2>3 DEF Once
<1> QED BY <1>5, <1>6, <1>7 DEF q

-----------------------------------------------------------------------------
(* What the code does to the standing of a connection.                     *)

\* The functors fs are for the tasks, in their order.
Wraps(fs, tasks) ==
  DOMAIN fs = DOMAIN tasks /\ \A i \in DOMAIN tasks : fs[i].task = tasks[i]

LEMMA SmallNews ==
  ASSUME NEW c, NEW tasks \in Seq(SmallTask(c)), NEW fs, Wraps(fs, tasks), NEW d
  PROVE  Absent(fs, EstablishTask(d)) /\ Absent(fs, DestroyTask(d))
<1>1. \A i \in DOMAIN tasks : tasks[i] \in SmallTask(c)
  BY LenProperties
<1> QED BY <1>1 DEF Absent, Wraps, SmallTask, EstablishTask, DestroyTask

LEMMA ClosingNews ==
  ASSUME NEW c, NEW small \in Seq(SmallTask(c)), NEW fs,
         Wraps(fs, Append(small, DestroyTask(c))), NEW d
  PROVE  /\ Absent(fs, EstablishTask(d))
         /\ d # c => Absent(fs, DestroyTask(d))
         /\ Once(fs, DestroyTask(c))
<1> DEFINE n == Len(small)
           tasks == Append(small, DestroyTask(c))
<1>1. /\ n \in Nat /\ DOMAIN tasks = 1 .. n + 1 /\ tasks[n + 1] = DestroyTask(c)
      /\ \A i \in 1 .. n + 1 : i # n + 1 => tasks[i] \in SmallTask(c)
  BY LenProperties
<1> HIDE DEF n, tasks
<1>2. \A i \in DOMAIN fs : fs[i].task = tasks[i]
  BY DEF Wraps, tasks
<1>3. DOMAIN fs = 1 .. n + 1
  BY <1>1 DEF Wraps, tasks
<1>4. n + 1 \in 1 .. n + 1
  BY <1>1
<1>5. \A task \in SmallTask(c) : task # EstablishTask(d) /\ task # DestroyTask(d)
                                 /\ task # DestroyTask(c)
  BY DEF SmallTask, EstablishTask, DestroyTask
<1>6. DestroyTask(c) # EstablishTask(d) /\ (d # c => DestroyTask(c) # DestroyTask(d))
  BY DEF EstablishTask, DestroyTask
<1>7. Absent(fs, EstablishTask(d)) /\ (d # c => Absent(fs, DestroyTask(d)))
  BY <1>1, <1>2, <1>3, <1>5, <1>6 DEF Absent
<1>8. Once(fs, DestroyTask(c))
  BY <1>1, <1>2, <1>3, <1>4, <1>5 DEF Once
<1> QED BY <1>7, <1>8

-----------------------------------------------------------------------------
(* The steps of EventLoop: what they do to the queues, and their types.    *)

LEMMA TaskIs == Task = [fn : Fn, conn : Channel]
BY DEF Task, Conns

LEMMA NewsForIs ==
  ASSUME NEW l \in Loops, NEW m \in Loops, NEW origin \in {"handler", "functor"},
         NEW tasks \in Seq(Task)
  PROVE  /\ NewsFor(l, origin, m, tasks) \in [Loops -> Seq(EL!Functor)]
         /\ \A k \in Loops \ {m} : NewsFor(l, origin, m, tasks)[k] = <<>>
         /\ Wraps(NewsFor(l, origin, m, tasks)[m], tasks)
<1> DEFINE fs(k) == [i \in DOMAIN tasks |->
                       [by |-> IF k = l THEN origin ELSE "remote", task |-> tasks[i]]]
           n == Len(tasks)
<1>1. n \in Nat /\ DOMAIN tasks = 1 .. n /\ \A i \in 1 .. n : tasks[i] \in Task
  BY LenProperties
<1>2. ASSUME NEW k \in Loops PROVE fs(k) \in Seq(EL!Functor) /\ Wraps(fs(k), tasks)
  <2>1. \A i \in 1 .. n : [by |-> IF k = l THEN origin ELSE "remote", task |-> tasks[i]]
                            \in EL!Functor
    BY <1>1 DEF EL!Functor, EL!Origin
  <2>2. fs(k) \in [1 .. n -> EL!Functor]
    BY <1>1, <2>1
  <2>3. fs(k) \in Seq(EL!Functor)
    BY <1>1, <2>2
  <2>4. Wraps(fs(k), tasks)
    BY <1>1 DEF Wraps
  <2> QED BY <2>3, <2>4
<1>3. NewsFor(l, origin, m, tasks) = [k \in Loops |-> IF k # m THEN <<>> ELSE fs(k)]
  BY DEF NewsFor
<1>4. <<>> \in Seq(EL!Functor)
  BY EmptySeq
<1> HIDE DEF fs
<1> QED BY <1>2, <1>3, <1>4

LEMMA QueueType ==
  ASSUME EL!TypeOK, NEW l \in Loops
  PROVE  /\ batch[l] \in Seq(EL!Functor) /\ pending[l] \in Seq(EL!Functor)
         /\ Queue(l) \in Seq(EL!Functor)
         /\ DOMAIN Queue(l) = 1 .. Len(Queue(l)) /\ Len(Queue(l)) \in Nat
<1>1. batch[l] \in Seq(EL!Functor) /\ pending[l] \in Seq(EL!Functor)
  BY DEF EL!TypeOK
<1>2. Queue(l) \in Seq(EL!Functor)
  BY <1>1, ConcatProperties DEF Queue
<1> QED BY <1>1, <1>2, LenProperties

\* Functors that are queued while a batch is still to run.
LEMMA QueueOfMore ==
  ASSUME NEW S, NEW b \in Seq(S), NEW p \in Seq(S), NEW news \in Seq(S)
  PROVE  b \o (p \o news) = (b \o p) \o news
BY ConcatAssociative

LEMMA QueueOfBatch ==
  ASSUME NEW S, NEW b \in Seq(S), NEW p \in Seq(S), NEW news \in Seq(S), b # <<>>
  PROVE  /\ b \o p # <<>> /\ (b \o p)[1] = Head(b)
         /\ Tail(b) \o (p \o news) = Tail(b \o p) \o news
<1>1. Len(b) \in Nat \ {0} /\ Len(p) \in Nat
  BY EmptySeq, LenProperties
<1>2. /\ b \o p \in Seq(S) /\ b \o p # <<>>
      /\ Len(b \o p) = Len(b) + Len(p)
  BY ConcatProperties, ConcatEqualIffEmpty
<1>3. Tail(b) \in Seq(S) /\ Len(Tail(b)) = Len(b) - 1
      /\ Tail(b \o p) \in Seq(S) /\ Len(Tail(b \o p)) = Len(b) + Len(p) - 1
  BY <1>2, HeadTailProperties
<1>4. Tail(b) \o p \in Seq(S) /\ Len(Tail(b) \o p) = Len(b) + Len(p) - 1
  BY <1>1, <1>3, ConcatProperties
<1>5. ASSUME NEW i \in 1 .. Len(b) + Len(p) - 1
      PROVE  Tail(b \o p)[i] = (Tail(b) \o p)[i]
  <2>1. Tail(b \o p)[i] = (b \o p)[i + 1]
    BY <1>2, <1>3, HeadTailProperties
  <2>2. (b \o p)[i + 1] = IF i + 1 <= Len(b) THEN b[i + 1] ELSE p[i + 1 - Len(b)]
    BY <1>1, ConcatProperties
  <2>3. (Tail(b) \o p)[i] = IF i <= Len(b) - 1 THEN Tail(b)[i] ELSE p[i - (Len(b) - 1)]
    BY <1>1, <1>3, ConcatProperties
  <2>4. i <= Len(b) - 1 => Tail(b)[i] = b[i + 1]
    BY <1>1, <1>3, HeadTailProperties
  <2> QED BY <1>1, <2>1, <2>2, <2>3, <2>4
<1>6. Tail(b \o p) = Tail(b) \o p
  BY <1>3, <1>4, <1>5, SeqEqual
<1>7. (b \o p)[1] = b[1]
  BY <1>1, ConcatProperties
<1>8. Tail(b) \o (p \o news) = Tail(b \o p) \o news
  BY <1>3, <1>6, QueueOfMore
<1> QED BY <1>2, <1>7, <1>8

LEMMA QueuePushed ==
  ASSUME EL!TypeOK, NEW k \in Loops, NEW news \in Seq(EL!Functor),
         batch'[k] = batch[k], pending'[k] = pending[k] \o news
  PROVE  Queue(k)' = Queue(k) \o news
<1>1. batch[k] \in Seq(EL!Functor) /\ pending[k] \in Seq(EL!Functor)
  BY QueueType
<1>2. \A b, p \in Seq(EL!Functor) : b \o (p \o news) = (b \o p) \o news
  BY QueueOfMore
<1>3. batch[k] \o (pending[k] \o news) = (batch[k] \o pending[k]) \o news
  BY <1>1, <1>2
<1> QED BY <1>3 DEF Queue

LEMMA QueueRun ==
  ASSUME EL!TypeOK, NEW k \in Loops, NEW news \in Seq(EL!Functor), batch[k] # <<>>,
         batch'[k] = Tail(batch[k]), pending'[k] = pending[k] \o news
  PROVE  /\ Queue(k) # <<>> /\ Queue(k)[1] = Head(batch[k])
         /\ Queue(k)' = Tail(Queue(k)) \o news
<1>1. batch[k] \in Seq(EL!Functor) /\ pending[k] \in Seq(EL!Functor)
  BY QueueType
<1>2. \A b, p \in Seq(EL!Functor) : b # <<>> =>
         /\ b \o p # <<>> /\ (b \o p)[1] = Head(b)
         /\ Tail(b) \o (p \o news) = Tail(b \o p) \o news
  BY QueueOfBatch
<1>3. Queue(k)' = Tail(batch[k]) \o (pending[k] \o news)
  BY DEF Queue
<1> QED BY <1>1, <1>2, <1>3 DEF Queue

LEMMA CallPushes ==
  ASSUME EL!TypeOK, NEW l \in Loops, NEW news \in [Loops -> Seq(EL!Functor)],
         EL!Call(l, news, {})
  PROVE  /\ looping' = looping /\ toWake' \in [EL!AllThreads -> SUBSET Loops]
         /\ pending' \in [Loops -> Seq(EL!Functor)]
         /\ \A k \in Loops : pending'[k] = pending[k] \o news[k]
<1>1. looping' = looping
  BY DEF EL!Call, EL!TypeOK
<1>2. toWake' \in [EL!AllThreads -> SUBSET Loops]
  BY DEF EL!Call, EL!Woken, EL!TypeOK, EL!AllThreads
<1>3. \A k \in Loops : pending[k] \o news[k] \in Seq(EL!Functor)
  BY QueueType, ConcatProperties
<1>4. pending' = [k \in Loops |-> pending[k] \o news[k]]
  BY DEF EL!Call, EL!Push
<1> QED BY <1>1, <1>2, <1>3, <1>4

LEMMA HandlerPushes ==
  ASSUME EL!TypeOK, NEW l \in Loops, NEW news \in [Loops -> Seq(EL!Functor)], NEW ch,
         EL!HandleEvent(l, ch, news, {})
  PROVE  /\ EL!TypeOK' /\ phase[l] = "events" /\ ch \in active[l]
         /\ active' = [active EXCEPT ![l] = @ \ {ch}]
         /\ UNCHANGED <<phase, looping, batch>>
         /\ \A k \in Loops : pending'[k] = pending[k] \o news[k]
         /\ \A k \in Loops : Queue(k)' = Queue(k) \o news[k]
<1>1. /\ phase[l] = "events" /\ ch \in active[l]
      /\ active' = [active EXCEPT ![l] = @ \ {ch}]
      /\ EL!Call(l, news, {})
      /\ UNCHANGED <<phase, batch, calling>>
      /\ eventfd' = [eventfd EXCEPT ![l] = @ /\ ch # "wakeup"]
  BY DEF EL!HandleEvent
<1>2. /\ looping' = looping /\ toWake' \in [EL!AllThreads -> SUBSET Loops]
      /\ pending' \in [Loops -> Seq(EL!Functor)]
      /\ \A k \in Loops : pending'[k] = pending[k] \o news[k]
  BY <1>1, CallPushes
<1>3. EL!TypeOK'
  <2>1. eventfd' \in [Loops -> BOOLEAN]
    BY <1>1 DEF EL!TypeOK
  <2> QED BY <1>1, <1>2, <2>1 DEF EL!TypeOK
<1>4. \A k \in Loops : Queue(k)' = Queue(k) \o news[k]
  <2> TAKE k \in Loops
  <2>1. news[k] \in Seq(EL!Functor) /\ batch'[k] = batch[k]
    BY <1>1
  <2> QED BY <1>2, <2>1, QueuePushed, Zenon
<1> QED BY <1>1, <1>2, <1>3, <1>4

\* A handler that queues nothing.
LEMMA EmptyHandler ==
  ASSUME EL!TypeOK, NEW l \in Loops, NEW ch,
         EL!HandleEvent(l, ch, [m \in Loops |-> <<>>], {})
  PROVE  /\ EL!TypeOK' /\ active' = [active EXCEPT ![l] = @ \ {ch}]
         /\ UNCHANGED <<phase, looping, pending, batch>>
<1> DEFINE none == [m \in Loops |-> <<>>]
<1>1. none \in [Loops -> Seq(EL!Functor)] /\ \A k \in Loops : none[k] = <<>>
  BY EmptySeq
<1> HIDE DEF none
<1>2. EL!HandleEvent(l, ch, none, {})
  BY DEF none
<1>3. /\ EL!TypeOK' /\ active' = [active EXCEPT ![l] = @ \ {ch}]
      /\ UNCHANGED <<phase, looping, batch>>
      /\ \A k \in Loops : pending'[k] = pending[k] \o none[k]
  BY <1>1, <1>2, HandlerPushes
<1>4. \A k \in Loops : pending'[k] = pending[k]
  <2>1. \A p \in Seq(EL!Functor) : p \o <<>> = p
    BY ConcatEmptySeq
  <2> QED BY <1>1, <1>3, <2>1, QueueType
<1>5. pending' = pending
  BY <1>3, <1>4 DEF EL!TypeOK
<1> QED BY <1>3, <1>5

LEMMA FunctorPushes ==
  ASSUME EL!TypeOK, NEW l \in Loops, NEW news \in [Loops -> Seq(EL!Functor)],
         EL!RunFunctor(l, news, {})
  PROVE  /\ EL!TypeOK' /\ phase[l] = "functors" /\ batch[l] # <<>>
         /\ batch' = [batch EXCEPT ![l] = Tail(@)]
         /\ UNCHANGED <<phase, looping, active>>
         /\ \A k \in Loops : pending'[k] = pending[k] \o news[k]
         /\ \A k \in Loops \ {l} : Queue(k)' = Queue(k) \o news[k]
         /\ Queue(l) # <<>> /\ Queue(l)[1] = Head(batch[l])
         /\ Queue(l)' = Tail(Queue(l)) \o news[l]
<1>1. /\ phase[l] = "functors" /\ batch[l] # <<>>
      /\ batch' = [batch EXCEPT ![l] = Tail(@)]
      /\ EL!Call(l, news, {})
      /\ UNCHANGED <<phase, calling, active, eventfd>>
  BY DEF EL!RunFunctor
<1>2. /\ looping' = looping /\ toWake' \in [EL!AllThreads -> SUBSET Loops]
      /\ pending' \in [Loops -> Seq(EL!Functor)]
      /\ \A k \in Loops : pending'[k] = pending[k] \o news[k]
  BY <1>1, CallPushes
<1>3. Tail(batch[l]) \in Seq(EL!Functor)
  BY <1>1, QueueType, HeadTailProperties
<1>4. EL!TypeOK'
  BY <1>1, <1>2, <1>3 DEF EL!TypeOK
<1>5. ASSUME NEW k \in Loops \ {l} PROVE Queue(k)' = Queue(k) \o news[k]
  <2>1. batch'[k] = batch[k]
    BY <1>1 DEF EL!TypeOK
  <2>2. news[k] \in Seq(EL!Functor)
    OBVIOUS
  <2> QED BY <1>2, <2>1, <2>2, QueuePushed, Zenon
<1>6. /\ Queue(l) # <<>> /\ Queue(l)[1] = Head(batch[l])
      /\ Queue(l)' = Tail(Queue(l)) \o news[l]
  <2>1. batch'[l] = Tail(batch[l])
    BY <1>1 DEF EL!TypeOK
  <2>2. news[l] \in Seq(EL!Functor)
    OBVIOUS
  <2> QED BY <1>1, <1>2, <2>1, <2>2, QueueRun, Zenon
<1> QED BY <1>1, <1>2, <1>4, <1>5, <1>6

\* The steps of a loop that queue nothing.
LEMMA LoopTypes ==
  ASSUME EL!TypeOK, NEW l \in Loops,
         EL!WhileTest(l) \/ EL!HandleWakeup(l) \/ EL!SwapPending(l) \/ EL!EndFunctors(l)
  PROVE  EL!TypeOK'
<1>1. <<>> \in Seq(EL!Functor) /\ pending[l] \in Seq(EL!Functor)
  BY EmptySeq, QueueType
<1> USE DEF EL!TypeOK
<1>2. CASE EL!WhileTest(l)
  BY <1>2 DEF EL!WhileTest, EL!Goto, EL!Phase
<1>3. CASE EL!HandleWakeup(l)
  BY <1>3, EmptyHandler DEF EL!HandleWakeup
<1>4. CASE EL!SwapPending(l)
  BY <1>1, <1>4 DEF EL!SwapPending, EL!Goto, EL!Phase
<1>5. CASE EL!EndFunctors(l)
  BY <1>5 DEF EL!EndFunctors, EL!Goto, EL!Phase
<1> QED BY <1>2, <1>3, <1>4, <1>5

LEMMA PollTypes ==
  ASSUME EL!TypeOK, NEW l \in Loops, NEW ready \in SUBSET (Conns \cup {"listen"}),
         EL!Poll(l, ready)
  PROVE  EL!TypeOK'
BY DEF EL!TypeOK, EL!Poll, EL!Goto, EL!Phase

LEMMA WakeTypes ==
  ASSUME EL!TypeOK, NEW l \in Loops, NEW t \in Loops \cup Threads,
         EL!Quit(t, l) \/ EL!Wakeup(t, l)
  PROVE  EL!TypeOK'
<1> USE DEF EL!TypeOK, EL!AllThreads
<1>1. CASE EL!Quit(t, l)
  BY <1>1 DEF EL!Quit
<1>2. CASE EL!Wakeup(t, l)
  <2>1. eventfd' \in [Loops -> BOOLEAN]
    BY <1>2 DEF EL!Wakeup
  <2> QED BY <1>2, <2>1 DEF EL!Wakeup
<1> QED BY <1>1, <1>2

LEMMA QueueInLoopPushes ==
  ASSUME EL!TypeOK, NEW l \in Loops, NEW t \in Loops \cup Threads, NEW task \in Task,
         EL!QueueInLoop(t, l, task)
  PROVE  /\ EL!TypeOK' /\ UNCHANGED <<phase, looping, batch, active>>
         /\ \E f \in EL!Functor :
               /\ f.task = task
               /\ <<f>> \in Seq(EL!Functor)
               /\ pending'[l] = pending[l] \o <<f>>
               /\ Queue(l)' = Queue(l) \o <<f>>
         /\ \A k \in Loops \ {l} : pending'[k] = pending[k] /\ Queue(k)' = Queue(k)
<1> DEFINE f == [by |-> "remote", task |-> task]
<1>1. f \in EL!Functor /\ f.task = task
  BY DEF EL!Functor, EL!Origin
<1>2. /\ pending' = [pending EXCEPT ![l] = Append(pending[l], f)]
      /\ toWake' = [toWake EXCEPT ![t] = {l}]
      /\ UNCHANGED <<phase, looping, batch, calling, active, eventfd>>
  BY DEF EL!QueueInLoop
<1> HIDE DEF f
<1>3. pending[l] \in Seq(EL!Functor) /\ <<f>> \in Seq(EL!Functor)
  BY <1>1, QueueType
<1>4. \A s \in Seq(EL!Functor) : Append(s, f) = s \o <<f>> /\ Append(s, f) \in Seq(EL!Functor)
  BY <1>1, AppendIsConcat, AppendProperties
<1>5. /\ pending'[l] = pending[l] \o <<f>>
      /\ pending' \in [Loops -> Seq(EL!Functor)]
      /\ \A k \in Loops \ {l} : pending'[k] = pending[k]
  BY <1>2, <1>3, <1>4 DEF EL!TypeOK
<1>6. EL!TypeOK'
  BY <1>2, <1>5 DEF EL!TypeOK, EL!AllThreads
<1>7. Queue(l)' = Queue(l) \o <<f>>
  <2>1. batch'[l] = batch[l]
    BY <1>2
  <2> QED BY <1>3, <1>5, <2>1, QueuePushed, Zenon
<1>8. \A k \in Loops \ {l} : Queue(k)' = Queue(k)
  BY <1>2, <1>5 DEF Queue
<1> QED BY <1>1, <1>2, <1>3, <1>5, <1>6, <1>7, <1>8

-----------------------------------------------------------------------------
(* What the invariant says of one connection.                              *)

LEMMA ElementOfConcat ==
  ASSUME NEW S, NEW s \in Seq(S), NEW t \in Seq(S), NEW i \in DOMAIN (s \o t)
  PROVE  \/ \E j \in DOMAIN s : (s \o t)[i] = s[j]
         \/ \E j \in DOMAIN t : (s \o t)[i] = t[j]
<1> DEFINE q == s \o t
           m == Len(s)
           n == Len(t)
<1>1. /\ m \in Nat /\ n \in Nat /\ DOMAIN s = 1 .. m /\ DOMAIN t = 1 .. n
      /\ DOMAIN q = 1 .. m + n
      /\ \A j \in 1 .. m + n : q[j] = IF j <= m THEN s[j] ELSE t[j - m]
  BY ConcatProperties, LenProperties
<1>2. i \in DOMAIN q
  OBVIOUS
<1> HIDE DEF q, m, n
<1>3. i \in 1 .. m + n
  BY <1>1, <1>2
<1>4. i \in 1 .. m \/ i - m \in 1 .. n
  BY <1>1, <1>3
<1>5. i \in 1 .. m => q[i] = s[i]
  BY <1>1
<1>6. i \notin 1 .. m => q[i] = t[i - m]
  BY <1>1, <1>3
<1> QED BY <1>1, <1>4, <1>5, <1>6 DEF q

LEMMA StateType ==
  ASSUME TypeOK, NEW c \in Conns
  PROVE  /\ conn[c] \in Connection /\ conn[c].state \in State
         /\ loop[c] \in Loops /\ poller[loop[c]] \in PollerType
         /\ poller[loop[c]].index[c] \in Index
BY DEF TypeOK, Connection, PollerType, Conns

LEMMA StageIs ==
  ASSUME TypeOK, NEW c \in Conns
  PROVE  /\ Stage(c) = "down" <=> Live(c) /\ conn[c].state = "kDisconnected"
         /\ Stage(c) \in {"opening", "up", "closing"} <=>
              Live(c) /\ conn[c].state # "kDisconnected"
         /\ Stage(c) \in {"unknown", "waiting", "gone"} <=> ~Live(c)
<1>1. life[c] \in {"none", "backlog", "live", "gone"} /\ conn[c].state \in State
  BY StateType DEF TypeOK
<1> QED BY <1>1 DEF Stage, Live, State

\* The same of the next state.
LEMMA NextStageIs ==
  ASSUME TypeOK', NEW c \in Conns
  PROVE  Stage(c)' \in {"opening", "up", "closing"} <=>
            Live(c)' /\ conn'[c].state # "kDisconnected"
<1>1. life'[c] \in {"none", "backlog", "live", "gone"} /\ conn'[c].state \in State
  BY DEF TypeOK, Connection
<1> QED BY <1>1 DEF Stage, Live, State

-----------------------------------------------------------------------------
(* While no assert has failed, the theorems' claims follow.                *)

\* A connection that is closed is not registered with the kernel.
LEMMA SilentWhenClosed ==
  ASSUME NEW p, Sound(p), NEW c \in Conns, p.fd[c] # None,
         ChannelInStep("kDisconnected", p, c)
  PROVE  p.events[c] = {} /\ \A f \in Fd : p.epoll[f] = None \/ p.epoll[f].ptr # c
<1>1. p.events[c] = {} /\ p.index[c] # "added"
  BY DEF ChannelInStep
<1>2. p.index[c] \in Index /\ Mirrored(p, c)
  BY DEF Sound, PollerType, Conns
<1>3. p.epoll[p.fd[c]] = None
  BY <1>1, <1>2 DEF Mirrored, Index
<1>4. ASSUME NEW f \in Fd, p.epoll[f] # None, p.epoll[f].ptr = c PROVE FALSE
  <2>1. p.fd[c] = f
    BY <1>4 DEF Sound, PointersOwned
  <2> QED BY <1>3, <1>4, <2>1
<1> QED BY <1>1, <1>4

LEMMA SoundIsSilent ==
  TypeOK /\ PollersSound /\ ChannelsInStep => ClosedIsSilent
<1> SUFFICES ASSUME TypeOK, PollersSound, ChannelsInStep,
                    NEW c \in Conns, Live(c), conn[c].state = "kDisconnected"
             PROVE  LET p == poller[loop[c]] IN
                    p.events[c] = {} /\ \A f \in Fd : p.epoll[f] = None \/ p.epoll[f].ptr # c
  BY StageIs DEF ClosedIsSilent
<1>1. loop[c] \in Loops
  BY StateType
<1>2. /\ Sound(poller[loop[c]]) /\ poller[loop[c]].fd[c] # None
      /\ ChannelInStep("kDisconnected", poller[loop[c]], c)
  BY <1>1 DEF PollersSound, ChannelsInStep
<1> QED BY <1>2, SilentWhenClosed

LEMMA CoreNeverDangles ==
  ASSUME Core
  PROVE  NoDanglingChannel
<1>1. \A l \in Loops : \A f \in Fd : PointersOwned(poller[l], f)
  BY DEF Core, PollersSound, Sound
<1>2. \A l \in Loops : \A c \in active[l] \cap Conns : life[c] = "live" /\ loop[c] = l
  BY DEF Core, ActiveAreOpen, Live
<1> QED BY <1>1, <1>2 DEF NoDanglingChannel

LEMMA CoreMapIsLive ==
  ASSUME TypeOK, Core
  PROVE  MapIsLive
<1> SUFFICES ASSUME NEW c \in Conns
             PROVE  c \in map <=> c \notin dropped /\ Live(c) /\ conn[c].state # "kDisconnected"
  BY StageIs DEF MapIsLive
<1>1. c \in map => Live(c)
  BY DEF Core, ReferencedAreLive, Referenced
<1>2. Live(c) => (c \in map <=> c \notin dropped /\ conn[c].state # "kDisconnected")
  BY DEF Core, ConnsInOrder, ConnInOrder, InOrder
<1> QED BY <1>1, <1>2

LEMMA CoreNoneLeftOpen ==
  ASSUME TypeOK, Core
  PROVE  NoneLeftOpen
<1> SUFFICES ASSUME server = "gone", NEW c \in Conns, loop[c] = Base, Live(c),
                    conn[c].state # "kDisconnected"
             PROVE  FALSE
  BY StageIs DEF NoneLeftOpen
<1>1. c \notin map
  BY DEF Core, EndInOrder
<1> QED BY <1>1 DEF Core, ConnsInOrder, ConnInOrder, InOrder

\* The positions at which a task is queued.
Positions(s, task) == {i \in DOMAIN s : s[i].task = task}

LEMMA PositionsOf ==
  ASSUME NEW s, NEW task
  PROVE  /\ Absent(s, task) => Positions(s, task) = {}
         /\ Once(s, task) => \E i \in DOMAIN s : Positions(s, task) = {i}
BY DEF Absent, Once, Positions

LEMMA CoreRemovedOnce ==
  ASSUME TypeOK, Core, DroppedHere
  PROVE  RemovedOnce
<1> SUFFICES ASSUME NEW c \in Conns
             PROVE  LET queue == Queue(loop[c]) IN
                    IF Stage(c) = "down" /\ poller[loop[c]].index[c] # "new"
                    THEN \E i \in DOMAIN queue : Positions(queue, DestroyTask(c)) = {i}
                    ELSE Positions(queue, DestroyTask(c)) = {}
  BY DEF RemovedOnce, Queue, Positions, DestroyTask
<1> DEFINE queue == Queue(loop[c])
<1>1. /\ loop[c] \in Loops
      /\ ~(c \in dropped /\ loop[c] # Base)
  BY StateType DEF DroppedHere
<1>2. CASE Live(c)
  <2>1. ConnInOrder(c)
    BY <1>2 DEF Core, ConnsInOrder
  <2>2. IF conn[c].state = "kDisconnected" /\ poller[loop[c]].index[c] # "new"
        THEN Once(queue, DestroyTask(c)) ELSE Absent(queue, DestroyTask(c))
    BY <1>1, <2>1 DEF ConnInOrder, InOrder
  <2> HIDE DEF queue
  <2>3. Stage(c) = "down" <=> conn[c].state = "kDisconnected"
    BY <1>2, StageIs
  <2> QED BY <2>2, <2>3, PositionsOf DEF queue
<1>3. CASE ~Live(c)
  <2>1. Absent(queue, DestroyTask(c))
    BY <1>1, <1>3 DEF Core, QueuesAreLive, Absent, DestroyTask
  <2>2. Stage(c) # "down"
    BY <1>3, StageIs
  <2> QED BY <2>1, <2>2, PositionsOf
<1> QED BY <1>2, <1>3

LEMMA CoreClaims == TypeOK /\ Core /\ failed = "none" => IInv
<1> SUFFICES ASSUME TypeOK, Core, failed = "none" PROVE IInv
  OBVIOUS
<1>1. FailsOnlyAtStop
  BY DEF FailsOnlyAtStop
<1>2. ClosedIsSilent
  BY SoundIsSilent DEF Core
<1> QED BY <1>1, <1>2, CoreNeverDangles, CoreMapIsLive, CoreNoneLeftOpen,
           CoreRemovedOnce, Zenon DEF IInv, Claims, Core

-----------------------------------------------------------------------------
(* Steps that leave the connections as they are.                           *)

\* From this state to the next no connection is opened, closed or destroyed,
\* and no functor is queued or run.
Unmoved ==
  /\ poller' = poller /\ loop' = loop /\ map' = map /\ dropped' = dropped
  /\ \A c \in Conns : conn'[c].state = conn[c].state
  /\ \A c \in Conns : Live(c)' <=> Live(c)
  /\ \A c \in Conns : life[c] = "gone" => life'[c] = "gone"
  /\ \A c \in Conns : Referenced(c)' <=> Referenced(c)
  /\ \A l \in Loops : Queue(l)' = Queue(l)

\* What else the invariant says of the loops, and of the end of the server.
LoopsInOrder ==
  /\ \A l \in Loops : /\ active[l] # {} => phase[l] = "events"
                      /\ batch[l] # <<>> \/ kept[l] # {} => phase[l] = "functors"
                      /\ ConnsOf(batch[l]) \subseteq kept[l]
  /\ dropped # {} \/ server # "up" => phase[Base] = "exited"
  /\ server # "up" => map = {}

LEMMA QueuedTask ==
  ASSUME EL!TypeOK, NEW l \in Loops, NEW i \in DOMAIN Queue(l)
  PROVE  Queue(l)[i].task \in Task
<1> DEFINE q == Queue(l)
<1>1. q \in Seq(EL!Functor) /\ i \in DOMAIN q
  BY QueueType
<1> HIDE DEF q
<1>2. i \in 1 .. Len(q)
  BY <1>1, LenProperties
<1>3. q[i] \in EL!Functor
  BY <1>1, <1>2
<1> QED BY <1>3 DEF EL!Functor, q

LEMMA UnmovedButActive ==
  ASSUME TypeOK, Core, Unmoved, LoopsInOrder', CallsAreQuiet', ActiveAreOpen'
  PROVE  Core'
<1>1. PollersSound'
  BY DEF Unmoved, Core, PollersSound
<1>2. ChannelsInStep'
  BY DEF Unmoved, Core, ChannelsInStep
<1>3. QueuesAreLive'
  <2> SUFFICES ASSUME NEW l \in Loops, NEW i \in DOMAIN Queue(l)'
               PROVE  (LET task == Queue(l)[i].task IN
                       /\ Live(task.conn) /\ loop[task.conn] = l
                       /\ task.fn \notin {"startReadInLoop", "stopReadInLoop"})'
    BY DEF QueuesAreLive, LoopsInOrder
  <2>1. Queue(l)' = Queue(l)
    BY DEF Unmoved
  <2>2. Queue(l)[i].task \in Task
    BY <2>1, QueuedTask DEF TypeOK
  <2>3. LET task == Queue(l)[i].task IN
        /\ Live(task.conn) /\ loop[task.conn] = l
        /\ task.fn \notin {"startReadInLoop", "stopReadInLoop"}
    BY <2>1 DEF Core, QueuesAreLive
  <2> QED BY <2>1, <2>2, <2>3 DEF Unmoved, Task
<1>4. ReferencedAreLive'
  BY DEF Unmoved, Core, ReferencedAreLive
<1>5. ConnsInOrder'
  <2> SUFFICES ASSUME NEW c \in Conns, Live(c) PROVE ConnInOrder(c)'
    BY DEF Unmoved, ConnsInOrder
  <2>1. loop[c] \in Loops
    BY StateType
  <2>2. Queue(loop[c])' = Queue(loop[c])
    BY <2>1 DEF Unmoved
  <2>3. ConnInOrder(c)
    BY DEF Core, ConnsInOrder
  <2> QED BY <2>2, <2>3 DEF Unmoved, ConnInOrder
<1>6. EndInOrder'
  <2>1. \A c \in dropped : c \in Conns /\ life[c] \in {"live", "gone"}
    BY DEF Core, EndInOrder, TypeOK
  <2>2. \A c \in dropped : life'[c] \in {"live", "gone"}
    BY <2>1 DEF Unmoved, Live
  <2> QED BY <2>2 DEF Unmoved, EndInOrder, LoopsInOrder
<1>7. OneLoop'
  BY DEF Unmoved, Core, OneLoop
<1> QED BY <1>1, <1>2, <1>3, <1>4, <1>5, <1>6, <1>7 DEF Core

LEMMA UnmovedCore ==
  ASSUME TypeOK, Core, Unmoved, LoopsInOrder', CallsAreQuiet',
         \A l \in Loops : active'[l] \cap Conns \subseteq active[l]
  PROVE  Core'
<1>1. ActiveAreOpen'
  BY DEF Unmoved, Core, ActiveAreOpen, LoopsInOrder
<1> QED BY <1>1, UnmovedButActive

LEMMA CoreLoopsInOrder ==
  ASSUME Core
  PROVE  LoopsInOrder
BY DEF Core, ActiveAreOpen, QueuesAreLive, EndInOrder, LoopsInOrder

\* The steps of EventLoop that call nothing of the server.
LEMMA LoopAlone ==
  ASSUME TypeOK, Core, EL!TypeOK', UNCHANGED serverVars, UNCHANGED <<pending, batch>>,
         \A l \in Loops : /\ active'[l] \subseteq active[l]
                          /\ phase'[l] = phase[l] \/ phase[l] = "while"
  PROVE  TypeOK' /\ Core'
<1>1. /\ conn' = conn /\ poller' = poller /\ timers' = timers /\ map' = map
      /\ failed' = failed /\ life' = life /\ loop' = loop /\ revents' = revents
      /\ next' = next /\ kept' = kept /\ held' = held /\ doing' = doing
      /\ server' = server /\ dropped' = dropped
  BY DEF serverVars, objVars, userVars, stopVars
<1>2. TypeOK'
  BY <1>1 DEF TypeOK
<1>3. Unmoved
  BY <1>1 DEF Unmoved, Live, Referenced, Queue
<1>4. LoopsInOrder'
  <2>1. LoopsInOrder /\ Base \in Loops
    BY CoreLoopsInOrder, ServerAssumption
  <2> QED BY <1>1, <2>1 DEF LoopsInOrder
<1>5. CallsAreQuiet'
  BY <1>1 DEF Core, CallsAreQuiet
<1>6. \A l \in Loops : active'[l] \cap Conns \subseteq active[l]
  OBVIOUS
<1> QED BY <1>2, <1>3, <1>4, <1>5, <1>6, UnmovedCore

LEMMA LoopOnlyStep ==
  ASSUME TypeOK, Core, NEW l \in Loops, LoopOnly(l)
  PROVE  TypeOK' /\ Core'
<1>1. EL!TypeOK /\ EL!TypeOK'
  BY LoopTypes DEF TypeOK, LoopOnly
<1>2. UNCHANGED serverVars /\ (EL!WhileTest(l) \/ EL!HandleWakeup(l))
  BY DEF LoopOnly
<1>3. CASE EL!WhileTest(l)
  <2>1. UNCHANGED <<pending, batch, active>>
    BY <1>3 DEF EL!WhileTest
  <2>2. \A k \in Loops : phase'[k] = phase[k] \/ phase[k] = "while"
    BY <1>1, <1>3 DEF EL!WhileTest, EL!Goto, EL!TypeOK
  <2> QED BY <1>1, <1>2, <2>1, <2>2, LoopAlone
<1>4. CASE EL!HandleWakeup(l)
  <2>1. /\ active' = [active EXCEPT ![l] = @ \ {"wakeup"}]
        /\ UNCHANGED <<phase, pending, batch>>
    BY <1>1, <1>4, EmptyHandler DEF EL!HandleWakeup
  <2>2. \A k \in Loops : active'[k] \subseteq active[k]
    BY <1>1, <2>1 DEF EL!TypeOK
  <2> QED BY <1>1, <1>2, <2>1, <2>2, LoopAlone
<1> QED BY <1>2, <1>3, <1>4

LEMMA AcceptFailedStep ==
  ASSUME TypeOK, Core, AcceptFailed
  PROVE  TypeOK' /\ Core'
<1>1. EL!TypeOK /\ Base \in Loops
  BY ServerAssumption DEF TypeOK
<1>2. /\ EL!TypeOK' /\ active' = [active EXCEPT ![Base] = @ \ {"listen"}]
      /\ UNCHANGED <<phase, pending, batch>>
  BY <1>1, EmptyHandler DEF AcceptFailed
<1>3. UNCHANGED serverVars
  BY DEF AcceptFailed
<1>4. \A k \in Loops : active'[k] \subseteq active[k]
  BY <1>1, <1>2 DEF EL!TypeOK
<1> QED BY <1>2, <1>3, <1>4, LoopAlone

LEMMA WakeupStep ==
  ASSUME TypeOK, Core, NEW t \in Loops \cup Threads, Wakeup(t)
  PROVE  TypeOK' /\ Core'
<1>1. PICK l \in Loops : EL!Wakeup(t, l)
  BY DEF Wakeup
<1>2. EL!TypeOK'
  BY <1>1, WakeTypes DEF TypeOK
<1>3. UNCHANGED serverVars /\ UNCHANGED <<phase, pending, batch, active>>
  BY <1>1 DEF Wakeup, EL!Wakeup
<1> QED BY <1>2, <1>3, LoopAlone

LEMMA QuitBaseStep ==
  ASSUME TypeOK, Core, QuitBase
  PROVE  TypeOK' /\ Core'
<1>1. UNCHANGED serverVars
  BY DEF QuitBase
<1>2. CASE \E t \in Threads : EL!Quit(t, Base)
  <2>1. PICK t \in Threads : EL!Quit(t, Base)
    BY <1>2
  <2>2. EL!TypeOK'
    BY <2>1, WakeTypes, ServerAssumption DEF TypeOK
  <2>3. UNCHANGED <<phase, pending, batch, active>>
    BY <2>1 DEF EL!Quit
  <2> QED BY <1>1, <2>2, <2>3, LoopAlone
<1>3. CASE /\ looping' = [looping EXCEPT ![Base] = FALSE]
           /\ UNCHANGED <<phase, pending, batch, calling, active, eventfd, toWake>>
  <2>1. EL!TypeOK'
    BY <1>3, ServerAssumption DEF TypeOK, EL!TypeOK
  <2> QED BY <1>1, <1>3, <2>1, LoopAlone
<1> QED BY <1>2, <1>3 DEF QuitBase

LEMMA StopThreadStep ==
  ASSUME TypeOK, Core, StopThread
  PROVE  TypeOK' /\ Core'
<1>1. UNCHANGED serverVars
  BY DEF StopThread
<1>2. PICK i \in DOMAIN Pool : EL!Quit(Base, Pool[i])
  BY DEF StopThread
<1>3. Pool[i] \in Loops /\ Base \in Loops \cup Threads
  BY ServerAssumption, LenProperties
<1>4. EL!TypeOK'
  BY <1>2, <1>3, WakeTypes DEF TypeOK
<1>5. UNCHANGED <<phase, pending, batch, active>>
  BY <1>2 DEF EL!Quit
<1> QED BY <1>1, <1>4, <1>5, LoopAlone

\* The steps of the clients, of the user's threads and of ~TcpServer() that
\* leave the loops alone.
LEMMA LoopsAlone ==
  ASSUME TypeOK, Core, UNCHANGED loopVars,
         UNCHANGED <<poller, timers, map, failed, loop, revents, next, kept, held, dropped>>,
         conn' \in [Conns -> Connection],
         \A c \in Conns : conn'[c].state = conn[c].state,
         life' \in [Conns -> {"none", "backlog", "live", "gone"}],
         \A c \in Conns : (Live(c)' <=> Live(c)) /\ (life[c] = "gone" => life'[c] = "gone"),
         doing' \in [Threads -> [op : Op, conn : Conns \cup {None}, stored : BOOLEAN]],
         \A t \in Threads : \/ doing'[t].conn = doing[t].conn
                            \/ doing[t].conn = None /\ doing'[t].conn \in held[t],
         CallsAreQuiet',
         server' \in {"up", "ending", "gone"},
         server' # "up" => map = {} /\ phase[Base] = "exited"
  PROVE  TypeOK' /\ Core'
<1>1. UNCHANGED <<phase, looping, pending, batch, calling, active, eventfd, toWake>>
  BY DEF loopVars
<1>2. TypeOK'
  <2>1. EL!TypeOK'
    BY <1>1 DEF TypeOK, EL!TypeOK
  <2> QED BY <2>1 DEF TypeOK
<1>3. ASSUME NEW c \in Conns PROVE Referenced(c)' <=> Referenced(c)
  <2> DEFINE Calling(d, h) == \E t \in Threads : c \in h[t] \/ d[t].conn = c
             Kept(m, k, ts, p) == c \in m \/ \E l \in Loops : c \in k[l] \cup ts[l] \cup ConnsOf(p[l])
  <2>1. c # None
    BY NoneAssumption DEF Conns
  <2>2. Calling(doing', held) <=> Calling(doing, held)
    BY <2>1
  <2>3. /\ Referenced(c) <=> Kept(map, kept, timers, pending) \/ Calling(doing, held)
        /\ Referenced(c)' <=> Kept(map, kept, timers, pending) \/ Calling(doing', held)
    BY <1>1 DEF Referenced
  <2> QED BY <2>2, <2>3
<1>4. Unmoved
  <2>1. \A l \in Loops : Queue(l)' = Queue(l)
    BY <1>1 DEF Queue
  <2> QED BY <1>3, <2>1 DEF Unmoved
<1>5. LoopsInOrder'
  <2>1. LoopsInOrder
    BY CoreLoopsInOrder
  <2>2. dropped # {} => phase[Base] = "exited"
    BY DEF Core, EndInOrder
  <2> QED BY <1>1, <2>1, <2>2 DEF LoopsInOrder
<1>6. \A l \in Loops : active'[l] \cap Conns \subseteq active[l]
  BY <1>1
<1> QED BY <1>2, <1>4, <1>5, <1>6, UnmovedCore

LEMMA ConnectStep ==
  ASSUME TypeOK, Core, NEW c \in Conns, Connect(c)
  PROVE  TypeOK' /\ Core'
<1>1. /\ life[c] = "none" /\ life' = [life EXCEPT ![c] = "backlog"]
      /\ UNCHANGED <<loopVars, objVars, loop, revents, next, kept, userVars, stopVars>>
  BY DEF Connect
<1>2. /\ life \in [Conns -> {"none", "backlog", "live", "gone"}]
      /\ conn \in [Conns -> Connection] /\ server \in {"up", "ending", "gone"}
      /\ doing \in [Threads -> [op : Op, conn : Conns \cup {None}, stored : BOOLEAN]]
  BY DEF TypeOK
<1>3. \A d \in Conns : (Live(d)' <=> Live(d)) /\ (life[d] = "gone" => life'[d] = "gone")
  BY <1>1, <1>2 DEF Live
<1>4. CallsAreQuiet'
  BY <1>1 DEF Core, CallsAreQuiet, userVars
<1>5. server # "up" => map = {} /\ phase[Base] = "exited"
  BY DEF Core, EndInOrder
<1> QED BY <1>1, <1>2, <1>3, <1>4, <1>5, LoopsAlone DEF objVars, userVars, stopVars

LEMMA PeerStep ==
  ASSUME TypeOK, Core, NEW c \in Conns, NEW op, Peer(c, op), op \in {"data", "fin", "rst"}
  PROVE  TypeOK' /\ Core'
<1> DEFINE sock == conn[c].sock
           after == CASE op = "data" -> [sock EXCEPT !.data = TRUE]
                      [] op = "fin"  -> [sock EXCEPT !.fin = TRUE]
                      [] op = "rst"  -> [sock EXCEPT !.rst = TRUE, !.err = TRUE]
<1>1. /\ conn' = [conn EXCEPT ![c].sock = after]
      /\ UNCHANGED <<loopVars, poller, timers, map, failed, life, loop, revents, next, kept,
                     userVars, stopVars>>
  BY DEF Peer
<1>2. /\ life \in [Conns -> {"none", "backlog", "live", "gone"}]
      /\ conn \in [Conns -> Connection] /\ server \in {"up", "ending", "gone"}
      /\ doing \in [Threads -> [op : Op, conn : Conns \cup {None}, stored : BOOLEAN]]
  BY DEF TypeOK
<1>3. sock \in Socket /\ after \in Socket
  <2>1. sock \in Socket
    BY <1>2 DEF Connection
  <2> HIDE DEF sock
  <2> QED BY <2>1 DEF Socket
<1> HIDE DEF after
<1>4. conn' \in [Conns -> Connection] /\ \A d \in Conns : conn'[d].state = conn[d].state
  BY <1>1, <1>2, <1>3 DEF Connection
<1>5. \A d \in Conns : (Live(d)' <=> Live(d)) /\ (life[d] = "gone" => life'[d] = "gone")
  BY <1>1 DEF Live
<1>6. CallsAreQuiet'
  BY <1>1 DEF Core, CallsAreQuiet, userVars
<1>7. server # "up" => map = {} /\ phase[Base] = "exited"
  BY DEF Core, EndInOrder
<1> QED BY <1>1, <1>2, <1>4, <1>5, <1>6, <1>7, LoopsAlone DEF userVars, stopVars

LEMMA EnterCallStep ==
  ASSUME TypeOK, Core, NEW t \in Threads, NEW c \in Conns, NEW op, EnterCall(t, c, op)
  PROVE  TypeOK' /\ Core'
<1> DEFINE call == [op |-> op, conn |-> c, stored |-> FALSE]
<1>1. /\ op \in ThreadOps /\ c \in held[t] /\ doing[t] = Idle
      /\ doing' = [doing EXCEPT ![t] = call]
      /\ UNCHANGED <<loopVars, objVars, life, loop, revents, next, kept, held, stopVars>>
  BY DEF EnterCall
<1>2. /\ life \in [Conns -> {"none", "backlog", "live", "gone"}]
      /\ conn \in [Conns -> Connection] /\ server \in {"up", "ending", "gone"}
      /\ doing \in [Threads -> [op : Op, conn : Conns \cup {None}, stored : BOOLEAN]]
  BY DEF TypeOK
<1>3. /\ call \in [op : Op, conn : Conns \cup {None}, stored : BOOLEAN]
      /\ call.op = op /\ call.conn = c
  BY <1>1, ServerAssumption
<1> HIDE DEF call
<1>4. /\ doing' \in [Threads -> [op : Op, conn : Conns \cup {None}, stored : BOOLEAN]]
      /\ doing'[t] = call /\ \A s \in Threads \ {t} : doing'[s] = doing[s]
  BY <1>1, <1>2, <1>3
<1>5. \A s \in Threads : \/ doing'[s].conn = doing[s].conn
                         \/ doing[s].conn = None /\ doing'[s].conn \in held[s]
  BY <1>1, <1>3, <1>4 DEF Idle
<1>6. CallsAreQuiet'
  BY <1>1, <1>3, <1>4 DEF Core, CallsAreQuiet
<1>7. \A d \in Conns : (Live(d)' <=> Live(d)) /\ (life[d] = "gone" => life'[d] = "gone")
  BY <1>1 DEF Live
<1>8. server # "up" => map = {} /\ phase[Base] = "exited"
  BY DEF Core, EndInOrder
<1> QED BY <1>1, <1>2, <1>4, <1>5, <1>6, <1>7, <1>8, LoopsAlone DEF objVars, stopVars

\* send() does not store m_state.
LEMMA StoreStateStep ==
  ASSUME QuietUsers, TypeOK, Core, NEW t \in Threads, StoreState(t)
  PROVE  TypeOK' /\ Core'
<1>1. /\ life \in [Conns -> {"none", "backlog", "live", "gone"}]
      /\ conn \in [Conns -> Connection] /\ server \in {"up", "ending", "gone"}
      /\ doing \in [Threads -> [op : Op, conn : Conns \cup {None}, stored : BOOLEAN]]
  BY DEF TypeOK
<1>2. doing[t] # Idle /\ doing[t].op = "send"
  BY DEF StoreState, Core, CallsAreQuiet, QuietUsers
<1>3. /\ conn' = conn /\ doing' = [doing EXCEPT ![t].stored = TRUE]
      /\ UNCHANGED <<loopVars, poller, timers, map, failed, life, loop, revents, next, kept,
                     held, stopVars>>
  BY <1>2 DEF StoreState
<1>4. /\ doing' \in [Threads -> [op : Op, conn : Conns \cup {None}, stored : BOOLEAN]]
      /\ \A s \in Threads : doing'[s].conn = doing[s].conn /\ doing'[s].op = doing[s].op
      /\ \A s \in Threads : doing'[s] # Idle => doing[s] # Idle
  BY <1>1, <1>2, <1>3
<1>5. CallsAreQuiet'
  BY <1>4 DEF Core, CallsAreQuiet
<1>6. \A d \in Conns : (Live(d)' <=> Live(d)) /\ (life[d] = "gone" => life'[d] = "gone")
  BY <1>3 DEF Live
<1>7. server # "up" => map = {} /\ phase[Base] = "exited"
  BY DEF Core, EndInOrder
<1> QED BY <1>1, <1>3, <1>4, <1>5, <1>6, <1>7, LoopsAlone DEF stopVars

LEMMA EndStep ==
  ASSUME TypeOK, Core, EndBody \/ EndServer
  PROVE  TypeOK' /\ Core'
<1>1. /\ life \in [Conns -> {"none", "backlog", "live", "gone"}]
      /\ conn \in [Conns -> Connection]
      /\ doing \in [Threads -> [op : Op, conn : Conns \cup {None}, stored : BOOLEAN]]
  BY DEF TypeOK
<1>2. /\ server' \in {"up", "ending", "gone"}
      /\ map = {} /\ phase[Base] = "exited"
      /\ UNCHANGED <<loopVars, objVars, life, loop, revents, next, kept, userVars, dropped>>
  BY DEF EndBody, EndServer, Core, EndInOrder
<1>3. CallsAreQuiet'
  BY <1>2 DEF Core, CallsAreQuiet, userVars
<1>4. \A d \in Conns : (Live(d)' <=> Live(d)) /\ (life[d] = "gone" => life'[d] = "gone")
  BY <1>2 DEF Live
<1> QED BY <1>1, <1>2, <1>3, <1>4, LoopsAlone DEF objVars, userVars

LEMMA SwapPendingStep ==
  ASSUME TypeOK, Core, NEW l \in Loops, SwapPending(l)
  PROVE  TypeOK' /\ Core'
<1>1. /\ EL!SwapPending(l) /\ kept' = [kept EXCEPT ![l] = ConnsOf(pending[l])]
      /\ conn' = conn /\ poller' = poller /\ timers' = timers /\ map' = map
      /\ failed' = failed /\ life' = life /\ loop' = loop /\ revents' = revents
      /\ next' = next /\ held' = held /\ doing' = doing
      /\ server' = server /\ dropped' = dropped
  BY DEF SwapPending, objVars, userVars, stopVars
<1>2. /\ phase[l] = "events" /\ active[l] = {} /\ active' = active
      /\ batch' = [batch EXCEPT ![l] = pending[l]]
      /\ pending' = [pending EXCEPT ![l] = <<>>]
      /\ phase' = [phase EXCEPT ![l] = "functors"]
  BY <1>1 DEF EL!SwapPending, EL!Goto
<1>3. EL!TypeOK /\ EL!TypeOK'
  BY <1>1, LoopTypes DEF TypeOK
<1>4. /\ batch'[l] = pending[l] /\ pending'[l] = <<>> /\ phase'[l] = "functors"
      /\ kept'[l] = ConnsOf(pending[l])
      /\ \A k \in Loops \ {l} : /\ batch'[k] = batch[k] /\ pending'[k] = pending[k]
                                /\ phase'[k] = phase[k] /\ kept'[k] = kept[k]
  BY <1>1, <1>2, <1>3 DEF EL!TypeOK, TypeOK
<1>5. LoopsInOrder /\ batch[l] = <<>> /\ kept[l] = {}
  BY <1>2, CoreLoopsInOrder DEF LoopsInOrder
<1>6. ConnsOf(<<>>) = {}
  BY DEF ConnsOf
<1>7. TypeOK'
  <2>1. ConnsOf(pending[l]) \subseteq Conns
    <3>1. pending[l] \in Seq(EL!Functor)
      BY <1>3, QueueType
    <3>2. \A i \in DOMAIN pending[l] : pending[l][i] \in EL!Functor
      BY <3>1, LenProperties
    <3> QED BY <3>2 DEF ConnsOf, EL!Functor, Task
  <2>2. kept' \in [Loops -> SUBSET Conns]
    BY <1>1, <2>1 DEF TypeOK
  <2> QED BY <1>1, <1>3, <2>2 DEF TypeOK
<1>8. Unmoved
  <2>1. \A k \in Loops : Queue(k)' = Queue(k)
    <3>1. \A p \in Seq(EL!Functor) : <<>> \o p = p /\ p \o <<>> = p
      BY ConcatEmptySeq
    <3>2. pending[l] \in Seq(EL!Functor)
      BY <1>3, QueueType
    <3>3. batch[l] \o pending[l] = pending[l] /\ pending[l] \o <<>> = pending[l]
      BY <1>5, <3>1, <3>2
    <3>4. Queue(l)' = Queue(l)
      BY <1>4, <3>3 DEF Queue
    <3>5. \A k \in Loops \ {l} : Queue(k)' = Queue(k)
      BY <1>4 DEF Queue
    <3> QED BY <3>4, <3>5
  <2>2. ASSUME NEW c \in Conns
        PROVE  (\E k \in Loops : c \in kept'[k] \cup timers[k] \cup ConnsOf(pending'[k]))
               <=> (\E k \in Loops : c \in kept[k] \cup timers[k] \cup ConnsOf(pending[k]))
    <3>1. ASSUME NEW k \in Loops
          PROVE  kept'[k] \cup timers[k] \cup ConnsOf(pending'[k])
                 = kept[k] \cup timers[k] \cup ConnsOf(pending[k])
      <4>1. CASE k = l
        BY <1>4, <1>5, <1>6, <4>1
      <4>2. CASE k # l
        BY <1>4, <4>2
      <4> QED BY <4>1, <4>2
    <3> QED BY <3>1
  <2>3. \A c \in Conns : Referenced(c)' <=> Referenced(c)
    BY <1>1, <2>2 DEF Referenced
  <2> QED BY <1>1, <2>1, <2>3 DEF Unmoved, Live
<1>9. LoopsInOrder'
  <2>1. \A k \in Loops : /\ active'[k] # {} => phase'[k] = "events"
                         /\ batch'[k] # <<>> \/ kept'[k] # {} => phase'[k] = "functors"
                         /\ ConnsOf(batch'[k]) \subseteq kept'[k]
    BY <1>2, <1>4, <1>5 DEF LoopsInOrder
  <2>2. phase[Base] = "exited" => phase'[Base] = "exited"
    BY <1>2, <1>4, ServerAssumption
  <2> QED BY <1>1, <1>5, <2>1, <2>2 DEF LoopsInOrder, ConnsOf
<1>10. CallsAreQuiet'
  BY <1>1 DEF Core, CallsAreQuiet
<1>11. \A k \in Loops : active'[k] \cap Conns \subseteq active[k]
  BY <1>2
<1> QED BY <1>7, <1>8, <1>9, <1>10, <1>11, UnmovedCore

LEMMA RefuseStep ==
  ASSUME TypeOK, Core, NEW c \in Conns, life[c] = "backlog", Refuse(c)
  PROVE  TypeOK' /\ Core'
<1> DEFINE none == [l \in Loops |-> <<>>]
<1>1. /\ EL!HandleEvent(Base, "listen", none, {})
      /\ life' = [life EXCEPT ![c] = "gone"]
      /\ conn' = conn /\ poller' = poller /\ timers' = timers /\ map' = map
      /\ failed' = failed /\ loop' = loop /\ revents' = revents
      /\ next' = next /\ kept' = kept /\ held' = held /\ doing' = doing
      /\ server' = server /\ dropped' = dropped
  BY DEF Refuse, objVars, userVars, stopVars
<1>2. none \in [Loops -> Seq(EL!Functor)] /\ Base \in Loops /\ EL!TypeOK
  BY EmptySeq, ServerAssumption DEF TypeOK
<1>3. \A l \in Loops : none[l] = <<>>
  OBVIOUS
<1> HIDE DEF none
<1>4. /\ EL!TypeOK' /\ active' = [active EXCEPT ![Base] = @ \ {"listen"}]
      /\ UNCHANGED <<phase, looping, batch>>
      /\ \A k \in Loops : pending'[k] = pending[k] \o none[k]
      /\ \A k \in Loops : Queue(k)' = Queue(k) \o none[k]
  BY <1>1, <1>2, HandlerPushes
<1>5. \A k \in Loops : pending'[k] = pending[k] /\ Queue(k)' = Queue(k)
  <2>1. \A p \in Seq(EL!Functor) : p \o <<>> = p
    BY ConcatEmptySeq
  <2> QED BY <1>2, <1>3, <1>4, <2>1, QueueType
<1>6. \A k \in Loops : active'[k] \subseteq active[k]
  BY <1>2, <1>4 DEF EL!TypeOK
<1>7. \A d \in Conns : (Live(d)' <=> Live(d)) /\ (life[d] = "gone" => life'[d] = "gone")
  BY <1>1 DEF TypeOK, Live
<1>8. TypeOK'
  <2>1. life' \in [Conns -> {"none", "backlog", "live", "gone"}]
    BY <1>1 DEF TypeOK
  <2> QED BY <1>1, <1>4, <2>1 DEF TypeOK
<1>9. Unmoved
  <2>1. \A d \in Conns : Referenced(d)' <=> Referenced(d)
    BY <1>1, <1>5 DEF Referenced
  <2> QED BY <1>1, <1>5, <1>7, <2>1 DEF Unmoved
<1>10. LoopsInOrder'
  <2>1. LoopsInOrder
    BY CoreLoopsInOrder
  <2> QED BY <1>1, <1>4, <1>6, <2>1 DEF LoopsInOrder
<1>11. CallsAreQuiet'
  BY <1>1 DEF Core, CallsAreQuiet
<1>12. \A k \in Loops : active'[k] \cap Conns \subseteq active[k]
  BY <1>6
<1> QED BY <1>8, <1>9, <1>10, <1>11, <1>12, UnmovedCore

-----------------------------------------------------------------------------
(* epoll_wait().                                                           *)

LEMMA ReadyIsOpen ==
  ASSUME TypeOK, Core, NEW l \in Loops, NEW f \in Fd, poller[l].epoll[f] # None
  PROVE  /\ PointerIsValid(poller[l], f)
         /\ poller[l].epoll[f].ptr \in Conns
         /\ LET c == poller[l].epoll[f].ptr IN
            Live(c) /\ loop[c] = l /\ conn[c].state \in OpenState
<1> DEFINE p == poller[l]
           c == p.epoll[f].ptr
<1>1. Sound(p)
  BY DEF Core, PollersSound
<1>2. c \in Conns
  BY <1>1 DEF Sound, PollerType, Registration, Conns
<1>3. p.fd[c] = f /\ f # None
  BY <1>1, NoneAssumption DEF Sound, PointersOwned
<1>4. Mirrored(p, c) /\ p.index[c] \in Index
  BY <1>1, <1>2, <1>3 DEF Sound, PollerType, Conns
<1>5. p.index[c] = "added" /\ p.channels[f] = c
  BY <1>3, <1>4 DEF Mirrored, Index
<1>6. Live(c) /\ loop[c] = l
  BY <1>2, <1>3 DEF Core, PollersSound
<1>7. ChannelInStep(conn[c].state, p, c)
  BY <1>2, <1>6 DEF Core, ChannelsInStep
<1>8. conn[c].state \in OpenState
  BY <1>5, <1>7 DEF ChannelInStep, OpenState
<1> QED BY <1>2, <1>3, <1>5, <1>6, <1>8 DEF PointerIsValid

LEMMA PollStep ==
  ASSUME TypeOK, Core, NEW l \in Loops, Poll(l)
  PROVE  TypeOK' /\ Core'
<1> DEFINE epoll == poller[l].epoll
           ready == {epoll[f].ptr : f \in ReadyFds(l)}
           listen == IF l = Base /\ \E c \in Conns : life[c] = "backlog" THEN {"listen"} ELSE {}
           events(c) == epoll[CHOOSE f \in ReadyFds(l) : epoll[f].ptr = c].events
<1>1. /\ EL!Poll(l, ready \cup listen)
      /\ revents' = [c \in Conns |->
           IF c \in ready THEN Revents(conn[c], events(c)) ELSE revents[c]]
      /\ failed' = IF \A f \in ReadyFds(l) : PointerIsValid(poller[l], f)
                   THEN failed ELSE "fillActiveChannels"
      /\ conn' = conn /\ poller' = poller /\ timers' = timers /\ map' = map
      /\ life' = life /\ loop' = loop /\ next' = next /\ kept' = kept /\ held' = held
      /\ doing' = doing /\ server' = server /\ dropped' = dropped
  BY DEF Poll, userVars, stopVars
<1>2. \A f \in ReadyFds(l) : f \in Fd /\ poller[l].epoll[f] # None
  BY DEF ReadyFds
<1>3. \A c \in ready : c \in Conns /\ Live(c) /\ loop[c] = l /\ conn[c].state \in OpenState
  BY <1>2, ReadyIsOpen
<1>4. listen \subseteq {"listen"} /\ "listen" \notin Conns /\ "wakeup" \notin Conns
  BY ServerAssumption
<1> HIDE DEF listen, ready, events
<1>5. EL!TypeOK /\ EL!TypeOK'
  <2>1. ready \cup listen \in SUBSET (Conns \cup {"listen"})
    BY <1>3, <1>4
  <2> QED BY <1>1, <2>1, PollTypes DEF TypeOK
<1>6. /\ phase[l] = "poll"
      /\ active' = [active EXCEPT ![l] =
                      ready \cup listen \cup (IF eventfd[l] THEN {"wakeup"} ELSE {})]
      /\ phase' = [phase EXCEPT ![l] = "events"]
      /\ UNCHANGED <<pending, batch>>
  BY <1>1 DEF EL!Poll, EL!Goto
<1>7. TypeOK'
  <2>1. \A c \in Conns : Revents(conn[c], events(c)) \subseteq {"IN", "OUT", "HUP", "ERR"}
    BY DEF Revents
  <2>2. revents' \in [Conns -> SUBSET {"IN", "OUT", "HUP", "ERR"}]
    <3> DEFINE r(c) == Revents(conn[c], events(c))
    <3>1. revents' = [c \in Conns |-> IF c \in ready THEN r(c) ELSE revents[c]]
      BY <1>1
    <3>2. \A c \in Conns : r(c) \in SUBSET {"IN", "OUT", "HUP", "ERR"}
      BY <2>1
    <3> HIDE DEF r
    <3> QED BY <3>1, <3>2 DEF TypeOK
  <2> QED BY <1>1, <1>5, <2>2 DEF TypeOK
<1>8. Unmoved
  <2>1. \A k \in Loops : Queue(k)' = Queue(k)
    BY <1>6 DEF Queue
  <2>2. \A c \in Conns : Referenced(c)' <=> Referenced(c)
    BY <1>1, <1>6 DEF Referenced
  <2> QED BY <1>1, <2>1, <2>2 DEF Unmoved, Live
<1>9. LoopsInOrder /\ LoopsInOrder'
  <2>1. LoopsInOrder
    BY CoreLoopsInOrder
  <2>2. phase'[l] = "events" /\ \A k \in Loops \ {l} : phase'[k] = phase[k] /\ active'[k] = active[k]
    BY <1>5, <1>6 DEF EL!TypeOK
  <2> QED BY <1>1, <1>6, <2>1, <2>2, ServerAssumption DEF LoopsInOrder
<1>10. CallsAreQuiet'
  BY <1>1 DEF Core, CallsAreQuiet
<1>11. ActiveAreOpen'
  <2> SUFFICES ASSUME NEW k \in Loops, NEW c \in active'[k] \cap Conns
               PROVE  Live(c) /\ loop[c] = k /\ conn[c].state \in OpenState
    BY <1>1, <1>9 DEF ActiveAreOpen, LoopsInOrder, Live
  <2>1. CASE k = l
    <3>1. c \in ready
      BY <1>4, <1>5, <1>6, <2>1 DEF EL!TypeOK
    <3> QED BY <1>3, <2>1, <3>1
  <2>2. CASE k # l
    BY <1>5, <1>6, <2>2 DEF EL!TypeOK, Core, ActiveAreOpen
  <2> QED BY <2>1, <2>2
<1> QED BY <1>7, <1>8, <1>9, <1>10, <1>11, UnmovedButActive

\* fillActiveChannels() finds each pointer valid.
LEMMA PollFindsValid ==
  ASSUME TypeOK, Core, NEW l \in Loops, Poll(l)
  PROVE  failed' = failed
<1>1. \A f \in ReadyFds(l) : PointerIsValid(poller[l], f)
  BY ReadyIsOpen DEF ReadyFds
<1> QED BY <1>1 DEF Poll

-----------------------------------------------------------------------------
(* Steps that drop references.                                             *)

\* The pollers are as the invariant wants them of the connections there are.
PollersFit(pollers) ==
  /\ \A l \in Loops : /\ Sound(pollers[l])
                      /\ \A c \in Conns : pollers[l].fd[c] # None <=> Live(c) /\ loop[c] = l
  /\ \A c \in Conns : Live(c) => ChannelInStep(conn'[c].state, pollers[loop[c]], c)

\* A connection that nothing refers to is down and its channel was removed, so
\* that ~TcpConnection() does what it should.
LEMMA DestroyFits ==
  ASSUME TypeOK, NEW pollers, PollersFit(pollers), DestroyUnreferenced(pollers), loop' = loop,
         \A c \in Conns : Live(c) /\ ~Referenced(c)' =>
            conn'[c].state = "kDisconnected" /\ pollers[loop[c]].index[c] = "new"
  PROVE  /\ failed' = failed
         /\ \A c \in Conns : Live(c)' <=> Live(c) /\ Referenced(c)'
         /\ life' \in [Conns -> {"none", "backlog", "live", "gone"}]
         /\ \A c \in Conns : life[c] \in {"live", "gone"} => life'[c] \in {"live", "gone"}
         /\ PollersSound' /\ ChannelsInStep' /\ poller' \in [Loops -> PollerType]
         /\ \A c \in Conns : Live(c)' =>
               poller'[loop[c]].index[c] = pollers[loop[c]].index[c]
<1> DEFINE dead == {c \in Conns : life[c] = "live" /\ ~Referenced(c)'}
           closed(l) == {c \in dead : loop[c] = l}
<1>1. /\ life' = [c \in Conns |-> IF c \in dead THEN "gone" ELSE life[c]]
      /\ poller' = [l \in Loops |-> CloseChannels(pollers[l], closed(l))]
      /\ failed' = IF \E c \in dead : conn'[c].state # "kDisconnected"
                   THEN "~TcpConnection" ELSE failed
  BY DEF DestroyUnreferenced
<1>2. /\ dead \subseteq Conns
      /\ \A c \in Conns : c \in dead <=> Live(c) /\ ~Referenced(c)'
      /\ \A l \in Loops : \A c \in Conns : c \in closed(l) <=> c \in dead /\ loop[c] = l
      /\ \A l \in Loops : closed(l) \in SUBSET Conns
  BY DEF Live
<1> HIDE DEF dead, closed
<1>3. /\ failed' = failed
      /\ \A c \in dead : conn'[c].state = "kDisconnected" /\ pollers[loop[c]].index[c] = "new"
  BY <1>1, <1>2
<1>4. /\ \A c \in Conns : Live(c)' <=> Live(c) /\ Referenced(c)'
      /\ life' \in [Conns -> {"none", "backlog", "live", "gone"}]
      /\ \A c \in Conns : life[c] \in {"live", "gone"} => life'[c] \in {"live", "gone"}
  BY <1>1, <1>2 DEF Live, TypeOK
<1>5. ASSUME NEW l \in Loops
      PROVE  /\ Sound(poller'[l])
             /\ \A c \in Conns : /\ c \in closed(l) => poller'[l].fd[c] = None
                                 /\ c \notin closed(l) =>
                                      /\ poller'[l].fd[c] = pollers[l].fd[c]
                                      /\ poller'[l].events[c] = pollers[l].events[c]
                                      /\ poller'[l].index[c] = pollers[l].index[c]
  <2>1. Sound(pollers[l]) /\ closed(l) \in SUBSET Channel
    BY <1>2 DEF PollersFit, Conns
  <2>2. \A c \in closed(l) : pollers[l].fd[c] # None /\ pollers[l].index[c] = "new"
    BY <1>2, <1>3 DEF PollersFit
  <2>3. poller'[l] = CloseChannels(pollers[l], closed(l))
    BY <1>1
  <2> QED BY <2>1, <2>2, <2>3, CloseAllSound DEF Conns
<1>6. PollersSound'
  <2> SUFFICES ASSUME NEW l \in Loops, NEW c \in Conns
               PROVE  poller'[l].fd[c] # None <=> Live(c)' /\ loop[c] = l
    BY <1>5 DEF PollersSound
  <2>1. pollers[l].fd[c] # None <=> Live(c) /\ loop[c] = l
    BY DEF PollersFit
  <2> QED BY <1>2, <1>4, <1>5, <2>1
<1>7. \A c \in Conns : Live(c)' =>
         /\ poller'[loop[c]].events[c] = pollers[loop[c]].events[c]
         /\ poller'[loop[c]].index[c] = pollers[loop[c]].index[c]
  BY <1>2, <1>4, <1>5, StateType
<1>8. ChannelsInStep'
  <2>1. \A c \in Conns : Live(c)' => ChannelInStep(conn'[c].state, pollers[loop[c]], c)
    BY <1>4 DEF PollersFit
  <2> QED BY <1>7, <2>1 DEF ChannelsInStep, ChannelInStep
<1>9. poller' \in [Loops -> PollerType]
  BY <1>1, <1>5 DEF Sound
<1> QED BY <1>3, <1>4, <1>6, <1>7, <1>8, <1>9

LEMMA TasksOfConcat ==
  ASSUME NEW S, NEW b \in Seq(S), NEW p \in Seq(S), NEW i \in DOMAIN (b \o p)
  PROVE  (b \o p)[i].task.conn \in ConnsOf(b) \cup ConnsOf(p)
<1>1. \/ \E k \in DOMAIN b : (b \o p)[i] = b[k]
      \/ \E k \in DOMAIN p : (b \o p)[i] = p[k]
  BY ElementOfConcat
<1> QED BY <1>1 DEF ConnsOf

LEMMA AbsentUnlessBound ==
  ASSUME EL!TypeOK, NEW l \in Loops, NEW task,
         task.conn \notin ConnsOf(batch[l]) \cup ConnsOf(pending[l])
  PROVE  Absent(Queue(l), task)
<1>1. batch[l] \in Seq(EL!Functor) /\ pending[l] \in Seq(EL!Functor)
  BY QueueType
<1>2. \A b, p \in Seq(EL!Functor) : \A j \in DOMAIN (b \o p) :
        (b \o p)[j].task.conn \in ConnsOf(b) \cup ConnsOf(p)
  BY TasksOfConcat
<1>3. \A j \in DOMAIN Queue(l) : Queue(l)[j].task.conn \in ConnsOf(batch[l]) \cup ConnsOf(pending[l])
  BY <1>1, <1>2 DEF Queue
<1> QED BY <1>3 DEF Absent

LEMMA OnceIsPresent ==
  ASSUME NEW q, NEW task, Absent(q, task)
  PROVE  ~Once(q, task)
BY DEF Once, Absent

LEMMA DropCore ==
  ASSUME TypeOK, Core, NEW pollers, PollersFit(pollers), DestroyUnreferenced(pollers),
         loop' = loop, EL!TypeOK', LoopsInOrder', CallsAreQuiet',
         \A c \in Conns : Live(c) /\ ~Referenced(c)' =>
            conn'[c].state = "kDisconnected" /\ pollers[loop[c]].index[c] = "new",
         \A c \in Conns : Referenced(c)' => Live(c),
         \A c \in Conns : Live(c) =>
            InOrder(c, conn'[c].state, pollers[loop[c]].index[c] # "new", c \in map',
                    c \in dropped', loop[c] = Base, Queue(loop[c])),
         \A l \in Loops : Queue(l)' = Queue(l),
         \A l \in Loops : \A c \in active'[l] \cap Conns :
            Live(c) /\ loop[c] = l /\ conn'[c].state \in OpenState,
         \A c \in dropped' : c \in Conns /\ life[c] \in {"live", "gone"}
  PROVE  /\ Core' /\ failed' = failed /\ poller' \in [Loops -> PollerType]
         /\ life' \in [Conns -> {"none", "backlog", "live", "gone"}]
<1>1. /\ failed' = failed
      /\ \A c \in Conns : Live(c)' <=> Live(c) /\ Referenced(c)'
      /\ life' \in [Conns -> {"none", "backlog", "live", "gone"}]
      /\ \A c \in Conns : life[c] \in {"live", "gone"} => life'[c] \in {"live", "gone"}
      /\ PollersSound' /\ ChannelsInStep' /\ poller' \in [Loops -> PollerType]
      /\ \A c \in Conns : Live(c)' =>
            poller'[loop[c]].index[c] = pollers[loop[c]].index[c]
  BY DestroyFits
<1>2. ReferencedAreLive'
  BY <1>1 DEF ReferencedAreLive
<1>3. ActiveAreOpen'
  <2> SUFFICES ASSUME NEW l \in Loops, NEW c \in active'[l] \cap Conns
               PROVE  Live(c)' /\ loop[c] = l /\ conn'[c].state \in OpenState
    BY DEF ActiveAreOpen, LoopsInOrder
  <2>1. Live(c) /\ loop[c] = l /\ conn'[c].state \in OpenState
    OBVIOUS
  <2>2. conn'[c].state # "kDisconnected"
    BY <2>1 DEF OpenState
  <2> QED BY <1>1, <2>1, <2>2
<1>4. QueuesAreLive'
  <2> SUFFICES ASSUME NEW l \in Loops, NEW i \in DOMAIN Queue(l)'
               PROVE  (LET task == Queue(l)[i].task IN
                       /\ Live(task.conn) /\ loop[task.conn] = l
                       /\ task.fn \notin {"startReadInLoop", "stopReadInLoop"})'
    BY DEF QueuesAreLive, LoopsInOrder
  <2>1. Queue(l)' = Queue(l)
    OBVIOUS
  <2>2. Queue(l)[i].task \in Task
    BY <2>1, QueuedTask DEF TypeOK
  <2>3. LET task == Queue(l)[i].task IN
        /\ Live(task.conn) /\ loop[task.conn] = l
        /\ task.fn \notin {"startReadInLoop", "stopReadInLoop"}
    BY <2>1 DEF Core, QueuesAreLive
  <2>4. (Queue(l)[i].task.conn \in ConnsOf(batch[l]) \cup ConnsOf(pending[l]))'
    <3>1. batch'[l] \in Seq(EL!Functor) /\ pending'[l] \in Seq(EL!Functor)
      BY DEF EL!TypeOK
    <3>2. \A b, p \in Seq(EL!Functor) : \A j \in DOMAIN (b \o p) :
            (b \o p)[j].task.conn \in ConnsOf(b) \cup ConnsOf(p)
      BY TasksOfConcat
    <3> QED BY <3>1, <3>2 DEF Queue
  <2>5. Queue(l)[i].task.conn \in kept'[l] \cup ConnsOf(pending'[l])
    BY <2>1, <2>4 DEF LoopsInOrder
  <2>6. Referenced(Queue(l)[i].task.conn)'
    BY <2>2, <2>5 DEF Referenced
  <2>7. Live(Queue(l)[i].task.conn)'
    BY <1>1, <2>2, <2>3, <2>6 DEF Task
  <2> QED BY <2>1, <2>3, <2>7
<1>5. ConnsInOrder'
  <2> SUFFICES ASSUME NEW c \in Conns, Live(c)' PROVE ConnInOrder(c)'
    BY DEF ConnsInOrder
  <2>1. Live(c) /\ poller'[loop[c]].index[c] = pollers[loop[c]].index[c]
    BY <1>1
  <2>2. loop[c] \in Loops
    BY StateType
  <2>3. InOrder(c, conn'[c].state, pollers[loop[c]].index[c] # "new", c \in map',
                c \in dropped', loop[c] = Base, Queue(loop[c]))
    BY <2>1
  <2>4. Queue(loop[c])' = Queue(loop[c])
    BY <2>2
  <2> QED BY <2>1, <2>3, <2>4 DEF ConnInOrder
<1>6. EndInOrder'
  BY <1>1 DEF EndInOrder, LoopsInOrder
<1>7. OneLoop'
  BY DEF Core, OneLoop
<1> QED BY <1>1, <1>2, <1>3, <1>4, <1>5, <1>6, <1>7 DEF Core

\* A step that only drops references.
LEMMA ReleaseCore ==
  ASSUME TypeOK, Core, DestroyUnreferenced(poller), EL!TypeOK', LoopsInOrder',
         UNCHANGED <<conn, timers, map, loop, dropped, doing, pending, batch, active>>,
         \A l \in Loops : ConnsOf(batch[l]) \subseteq kept'[l] /\ kept'[l] \subseteq kept[l],
         \A t \in Threads : held'[t] \subseteq held[t]
  PROVE  /\ Core' /\ failed' = failed /\ poller' \in [Loops -> PollerType]
         /\ life' \in [Conns -> {"none", "backlog", "live", "gone"}]
<1>1. PollersFit(poller)
  BY DEF Core, PollersSound, ChannelsInStep, PollersFit
<1>2. ASSUME NEW c \in Conns, Live(c), ~Referenced(c)'
      PROVE  conn[c].state = "kDisconnected" /\ poller[loop[c]].index[c] = "new"
  <2>1. c \notin map /\ \A l \in Loops : c \notin ConnsOf(batch[l]) \cup ConnsOf(pending[l])
    BY <1>2 DEF Referenced
  <2>2. ConnInOrder(c) /\ loop[c] \in Loops
    BY <1>2, StateType DEF Core, ConnsInOrder
  <2>3. Absent(Queue(loop[c]), DestroyTask(c))
    BY <2>1, <2>2, AbsentUnlessBound DEF TypeOK, DestroyTask
  <2>4. ~Once(Queue(loop[c]), DestroyTask(c))
    BY <2>3, OnceIsPresent
  <2> QED BY <2>1, <2>2, <2>3, <2>4 DEF ConnInOrder, InOrder
<1>3. \A c \in Conns : Referenced(c)' => Live(c)
  BY DEF Core, ReferencedAreLive, Referenced
<1>4. \A c \in Conns : Live(c) =>
         InOrder(c, conn[c].state, poller[loop[c]].index[c] # "new", c \in map,
                 c \in dropped, loop[c] = Base, Queue(loop[c]))
  BY DEF Core, ConnsInOrder, ConnInOrder
<1>5. \A l \in Loops : Queue(l)' = Queue(l)
  BY DEF Queue
<1>6. \A l \in Loops : \A c \in active[l] \cap Conns :
         Live(c) /\ loop[c] = l /\ conn[c].state \in OpenState
  BY DEF Core, ActiveAreOpen
<1>7. \A c \in dropped : c \in Conns /\ life[c] \in {"live", "gone"}
  BY DEF TypeOK, Core, EndInOrder
<1>8. CallsAreQuiet'
  BY DEF Core, CallsAreQuiet
<1> QED BY <1>1, <1>2, <1>3, <1>4, <1>5, <1>6, <1>7, <1>8, DropCore

LEMMA EndFunctorsStep ==
  ASSUME TypeOK, Core, NEW l \in Loops, EndFunctors(l)
  PROVE  TypeOK' /\ Core' /\ failed' = failed
<1>1. /\ EL!EndFunctors(l) /\ DestroyUnreferenced(poller)
      /\ kept' = [kept EXCEPT ![l] = {}]
      /\ conn' = conn /\ timers' = timers /\ map' = map /\ loop' = loop /\ revents' = revents
      /\ next' = next /\ held' = held /\ doing' = doing /\ server' = server
      /\ dropped' = dropped
  BY DEF EndFunctors, userVars, stopVars
<1>2. EL!TypeOK /\ EL!TypeOK'
  BY <1>1, LoopTypes DEF TypeOK
<1>3. /\ phase[l] = "functors" /\ batch[l] = <<>>
      /\ phase' = [phase EXCEPT ![l] = "while"]
      /\ UNCHANGED <<pending, batch, active>>
  BY <1>1 DEF EL!EndFunctors, EL!Goto
<1>4. LoopsInOrder
  BY CoreLoopsInOrder
<1>5. ConnsOf(batch[l]) = {}
  BY <1>3 DEF ConnsOf
<1>6. /\ kept'[l] = {} /\ phase'[l] = "while"
      /\ \A k \in Loops \ {l} : kept'[k] = kept[k] /\ phase'[k] = phase[k]
  BY <1>1, <1>2, <1>3 DEF TypeOK, EL!TypeOK
<1>7. LoopsInOrder'
  BY <1>1, <1>3, <1>4, <1>5, <1>6, ServerAssumption DEF LoopsInOrder
<1>8. \A k \in Loops : ConnsOf(batch[k]) \subseteq kept'[k] /\ kept'[k] \subseteq kept[k]
  BY <1>4, <1>5, <1>6 DEF LoopsInOrder
<1>9. /\ Core' /\ failed' = failed /\ poller' \in [Loops -> PollerType]
      /\ life' \in [Conns -> {"none", "backlog", "live", "gone"}]
  BY <1>1, <1>2, <1>3, <1>7, <1>8, ReleaseCore
<1>10. kept' \in [Loops -> SUBSET Conns]
  BY <1>1 DEF TypeOK
<1> QED BY <1>1, <1>2, <1>9, <1>10 DEF TypeOK

LEMMA ReleaseStep ==
  ASSUME TypeOK, Core, NEW t \in Threads, NEW c \in Conns, Release(t, c)
  PROVE  TypeOK' /\ Core' /\ failed' = failed
<1>1. /\ DestroyUnreferenced(poller) /\ held' = [held EXCEPT ![t] = @ \ {c}]
      /\ UNCHANGED loopVars
      /\ conn' = conn /\ timers' = timers /\ map' = map /\ loop' = loop /\ revents' = revents
      /\ next' = next /\ kept' = kept /\ doing' = doing /\ server' = server
      /\ dropped' = dropped
  BY DEF Release, stopVars
<1>2. UNCHANGED <<phase, looping, pending, batch, calling, active, eventfd, toWake>>
  BY <1>1 DEF loopVars
<1>3. EL!TypeOK'
  BY <1>2 DEF TypeOK, EL!TypeOK
<1>4. LoopsInOrder /\ LoopsInOrder'
  BY <1>1, <1>2, CoreLoopsInOrder DEF LoopsInOrder
<1>5. held' \in [Threads -> SUBSET Conns] /\ \A s \in Threads : held'[s] \subseteq held[s]
  BY <1>1 DEF TypeOK
<1>6. \A k \in Loops : ConnsOf(batch[k]) \subseteq kept'[k] /\ kept'[k] \subseteq kept[k]
  BY <1>1, <1>4 DEF LoopsInOrder
<1>7. /\ Core' /\ failed' = failed /\ poller' \in [Loops -> PollerType]
      /\ life' \in [Conns -> {"none", "backlog", "live", "gone"}]
  BY <1>1, <1>2, <1>3, <1>4, <1>5, <1>6, ReleaseCore
<1> QED BY <1>1, <1>3, <1>5, <1>7 DEF TypeOK

-----------------------------------------------------------------------------
(* Steps that queue or run functors of one connection.                     *)

\* The step queues fs, the functors of connection c, on loop l, and may have
\* run the next functor of that loop, which is one of c as well.
Pushes(c, l, fs) ==
  /\ fs \in Seq(EL!Functor)
  /\ \A i \in DOMAIN fs : /\ fs[i].task.conn = c
                          /\ fs[i].task.fn \notin {"startReadInLoop", "stopReadInLoop"}
  /\ \A k \in Loops \ {l} : pending'[k] = pending[k] /\ Queue(k)' = Queue(k)
  /\ pending'[l] = pending[l] \o fs
  /\ \/ Queue(l)' = Queue(l) \o fs
     \/ /\ Queue(l) # <<>> /\ Queue(l)[1].task.conn = c
        /\ Queue(l)' = Tail(Queue(l)) \o fs
  /\ \A k \in Loops : /\ batch'[k] # <<>> => batch[k] # <<>>
                      /\ ConnsOf(batch'[k]) \subseteq ConnsOf(batch[k])

LEMMA ConnsOfConcat ==
  ASSUME NEW S, NEW s \in Seq(S), NEW t \in Seq(S)
  PROVE  ConnsOf(s \o t) = ConnsOf(s) \cup ConnsOf(t)
<1> DEFINE q == s \o t
           m == Len(s)
           n == Len(t)
<1>1. /\ m \in Nat /\ n \in Nat /\ DOMAIN s = 1 .. m /\ DOMAIN t = 1 .. n
      /\ DOMAIN q = 1 .. m + n
      /\ \A j \in 1 .. m + n : q[j] = IF j <= m THEN s[j] ELSE t[j - m]
  BY ConcatProperties, LenProperties
<1>2. \A i \in DOMAIN q : \/ \E k \in DOMAIN s : q[i] = s[k]
                          \/ \E k \in DOMAIN t : q[i] = t[k]
  BY ElementOfConcat
<1> HIDE DEF q, m, n
<1>3. \A i \in 1 .. m : i \in 1 .. m + n /\ q[i] = s[i]
  BY <1>1
<1>4. \A i \in 1 .. n : i + m \in 1 .. m + n /\ q[i + m] = t[i]
  BY <1>1
<1>5. ConnsOf(s) \subseteq ConnsOf(q)
  BY <1>1, <1>3 DEF ConnsOf
<1>6. ConnsOf(t) \subseteq ConnsOf(q)
  BY <1>1, <1>4 DEF ConnsOf
<1>7. ConnsOf(q) \subseteq ConnsOf(s) \cup ConnsOf(t)
  BY <1>2 DEF ConnsOf
<1> QED BY <1>5, <1>6, <1>7 DEF q

LEMMA ElementOfTail ==
  ASSUME NEW S, NEW s \in Seq(S), s # <<>>
  PROVE  \A i \in DOMAIN Tail(s) : \E j \in DOMAIN s : Tail(s)[i] = s[j]
<1> DEFINE t == Tail(s)
           n == Len(s)
<1>1. /\ n \in Nat \ {0} /\ DOMAIN s = 1 .. n /\ DOMAIN t = 1 .. n - 1
      /\ \A i \in 1 .. n - 1 : t[i] = s[i + 1]
  BY HeadTailProperties, EmptySeq, LenProperties
<1> HIDE DEF t, n
<1>2. \A i \in 1 .. n - 1 : i + 1 \in 1 .. n
  BY <1>1
<1> QED BY <1>1, <1>2 DEF t

\* What is queued after the step was queued before, or is of fs.
LEMMA PushedElements ==
  ASSUME EL!TypeOK, NEW c \in Conns, NEW l \in Loops, NEW fs, Pushes(c, l, fs)
  PROVE  \A i \in DOMAIN Queue(l)' :
            \/ \E j \in DOMAIN Queue(l) : (Queue(l)[i])' = Queue(l)[j]
            \/ \E j \in DOMAIN fs : (Queue(l)[i])' = fs[j]
<1> DEFINE q == Queue(l)
<1>1. q \in Seq(EL!Functor) /\ fs \in Seq(EL!Functor)
  BY QueueType DEF Pushes
<1>2. q # <<>> => Tail(q) \in Seq(EL!Functor)
  BY <1>1, HeadTailProperties
<1>3. \A s, t \in Seq(EL!Functor) : \A i \in DOMAIN (s \o t) :
        \/ \E j \in DOMAIN s : (s \o t)[i] = s[j]
        \/ \E j \in DOMAIN t : (s \o t)[i] = t[j]
  BY ElementOfConcat
<1>4. q # <<>> => \A i \in DOMAIN Tail(q) : \E j \in DOMAIN q : Tail(q)[i] = q[j]
  BY <1>1, ElementOfTail
<1>5. CASE Queue(l)' = q \o fs
  <2>1. \A i \in DOMAIN (q \o fs) :
          \/ \E j \in DOMAIN q : (q \o fs)[i] = q[j]
          \/ \E j \in DOMAIN fs : (q \o fs)[i] = fs[j]
    BY <1>1, <1>3
  <2> QED BY <1>5, <2>1
<1>6. CASE q # <<>> /\ Queue(l)' = Tail(q) \o fs
  <2>1. \A i \in DOMAIN (Tail(q) \o fs) :
          \/ \E j \in DOMAIN Tail(q) : (Tail(q) \o fs)[i] = Tail(q)[j]
          \/ \E j \in DOMAIN fs : (Tail(q) \o fs)[i] = fs[j]
    BY <1>1, <1>2, <1>3, <1>6
  <2>2. \A i \in DOMAIN (Tail(q) \o fs) :
          \/ \E j \in DOMAIN q : (Tail(q) \o fs)[i] = q[j]
          \/ \E j \in DOMAIN fs : (Tail(q) \o fs)[i] = fs[j]
    BY <1>4, <1>6, <2>1
  <2> QED BY <1>6, <2>2
<1> QED BY <1>5, <1>6 DEF Pushes

\* It is the same for the other connections.
LEMMA PushedElsewhere ==
  ASSUME EL!TypeOK, NEW c \in Conns, NEW l \in Loops, NEW fs, Pushes(c, l, fs),
         NEW k \in Loops, NEW task, task.conn # c
  PROVE  /\ Absent(Queue(k), task)' <=> Absent(Queue(k), task)
         /\ Once(Queue(k), task) => Once(Queue(k), task)'
<1> DEFINE q == Queue(l)
<1>1. q \in Seq(EL!Functor) /\ fs \in Seq(EL!Functor) /\ Absent(fs, task)
  BY QueueType DEF Pushes, Absent
<1>2. \A s, t \in Seq(EL!Functor) : Absent(t, task) =>
        /\ Absent(s \o t, task) <=> Absent(s, task)
        /\ Once(s, task) => Once(s \o t, task)
  BY ConcatTasks
<1>3. \A s \in Seq(EL!Functor) : s # <<>> /\ s[1].task # task =>
        /\ Tail(s) \in Seq(EL!Functor)
        /\ Absent(Tail(s), task) <=> Absent(s, task)
        /\ Once(s, task) => Once(Tail(s), task)
  BY TailTasks, HeadTailProperties
<1> HIDE DEF q
<1>4. CASE k # l
  <2>1. Queue(k)' = Queue(k)
    BY <1>4 DEF Pushes
  <2> QED BY <2>1
<1>5. CASE k = l /\ Queue(l)' = q \o fs
  <2>1. /\ Absent(q \o fs, task) <=> Absent(q, task)
        /\ Once(q, task) => Once(q \o fs, task)
    BY <1>1, <1>2
  <2> QED BY <1>5, <2>1 DEF q
<1>6. CASE k = l /\ q # <<>> /\ q[1].task.conn = c /\ Queue(l)' = Tail(q) \o fs
  <2>1. /\ Tail(q) \in Seq(EL!Functor)
        /\ Absent(Tail(q), task) <=> Absent(q, task)
        /\ Once(q, task) => Once(Tail(q), task)
    BY <1>1, <1>3, <1>6
  <2>2. /\ Absent(Tail(q) \o fs, task) <=> Absent(q, task)
        /\ Once(q, task) => Once(Tail(q) \o fs, task)
    BY <1>1, <1>2, <2>1
  <2> QED BY <1>6, <2>2 DEF q
<1> QED BY <1>4, <1>5, <1>6 DEF Pushes, q

\* What keeps a connection besides the functors that are queued.
Bound(c) ==
  \/ c \in map
  \/ \E l \in Loops : c \in kept[l] \cup timers[l]
  \/ \E t \in Threads : c \in held[t] \/ doing[t].conn = c

LEMMA ReferencedIs ==
  ASSUME NEW c
  PROVE  Referenced(c) <=> Bound(c) \/ \E l \in Loops : c \in ConnsOf(pending[l])
BY DEF Referenced, Bound

\* The step leaves the other connections as they are.
OthersAlone(c) ==
  \A d \in Conns \ {c} :
     /\ Live(d)' <=> Live(d)
     /\ life[d] = "gone" => life'[d] = "gone"
     /\ loop'[d] = loop[d] /\ conn'[d].state = conn[d].state
     /\ Live(d) => poller'[loop[d]].index[d] = poller[loop[d]].index[d]
     /\ d \in map' <=> d \in map
     /\ d \in dropped' <=> d \in dropped
     /\ Bound(d)' <=> Bound(d)

\* A step that is about connection c, of loop l, keeps the invariant if it does
\* for c itself.
LEMMA OneConnection ==
  ASSUME TypeOK, Core, NEW c \in Conns, NEW l \in Loops, NEW fs, Pushes(c, l, fs),
         OthersAlone(c), Live(c)', loop'[c] = l, Live(c) => loop[c] = l,
         PollersSound', ChannelsInStep', CallsAreQuiet', OneLoop',
         Referenced(c)',
         InOrder(c, conn'[c].state, poller'[l].index[c] # "new", c \in map',
                 c \in dropped', l = Base, Queue(l)'),
         phase' = phase, kept' = kept, dropped' \subseteq Conns,
         dropped' # {} \/ server' # "up" => phase[Base] = "exited",
         server' # "up" => map' = {},
         \A k \in Loops : /\ active'[k] \subseteq active[k]
                          /\ c \in active'[k] => Live(c) /\ conn'[c].state \in OpenState
  PROVE  Core'
<1>1. LoopsInOrder
  BY CoreLoopsInOrder
<1>2. \A k \in Loops : /\ active'[k] # {} => phase'[k] = "events"
                       /\ batch'[k] # <<>> \/ kept'[k] # {} => phase'[k] = "functors"
                       /\ ConnsOf(batch'[k]) \subseteq kept'[k]
  BY <1>1 DEF LoopsInOrder, Pushes
<1>3. ActiveAreOpen'
  <2> SUFFICES ASSUME NEW k \in Loops, NEW d \in active'[k] \cap Conns
               PROVE  Live(d)' /\ loop'[d] = k /\ conn'[d].state \in OpenState
    BY <1>2 DEF ActiveAreOpen
  <2>1. Live(d) /\ loop[d] = k /\ conn[d].state \in OpenState
    BY DEF Core, ActiveAreOpen
  <2> QED BY <2>1 DEF OthersAlone
<1>4. QueuesAreLive'
  <2> SUFFICES ASSUME NEW k \in Loops, NEW i \in DOMAIN Queue(k)'
               PROVE  (LET task == Queue(k)[i].task IN
                       /\ Live(task.conn) /\ loop[task.conn] = k
                       /\ task.fn \notin {"startReadInLoop", "stopReadInLoop"})'
    BY <1>2 DEF QueuesAreLive
  <2>1. ASSUME NEW j \in DOMAIN Queue(k), NEW task, task = Queue(k)[j].task
        PROVE  /\ Live(task.conn)' /\ loop'[task.conn] = k
               /\ task.fn \notin {"startReadInLoop", "stopReadInLoop"}
    <3>1. task \in Task
      BY <2>1, QueuedTask DEF TypeOK
    <3>2. /\ Live(task.conn) /\ loop[task.conn] = k
          /\ task.fn \notin {"startReadInLoop", "stopReadInLoop"}
      BY <2>1 DEF Core, QueuesAreLive
    <3>3. task.conn \in Conns
      BY <3>1 DEF Task
    <3> QED BY <3>2, <3>3 DEF OthersAlone
  <2>2. PICK task : task = (Queue(k)[i].task)'
    OBVIOUS
  <2>3. (\E j \in DOMAIN Queue(k) : task = Queue(k)[j].task)
        \/ (k = l /\ \E j \in DOMAIN fs : task = fs[j].task)
    <3>1. CASE k # l
      <4>1. Queue(k)' = Queue(k)
        BY <3>1 DEF Pushes
      <4> QED BY <2>2, <4>1
    <3>2. CASE k = l
      <4>1. \/ \E j \in DOMAIN Queue(l) : (Queue(l)[i])' = Queue(l)[j]
            \/ \E j \in DOMAIN fs : (Queue(l)[i])' = fs[j]
        BY <3>2, PushedElements DEF TypeOK
      <4> QED BY <2>2, <3>2, <4>1
    <3> QED BY <3>1, <3>2
  <2>4. /\ Live(task.conn)' /\ loop'[task.conn] = k
        /\ task.fn \notin {"startReadInLoop", "stopReadInLoop"}
    BY <2>1, <2>3 DEF Pushes
  <2> QED BY <2>2, <2>4
<1>5. ReferencedAreLive'
  <2> SUFFICES ASSUME NEW d \in Conns, d # c PROVE Referenced(d)' <=> Live(d)'
    BY DEF ReferencedAreLive
  <2>1. \A k \in Loops : d \in ConnsOf(pending'[k]) <=> d \in ConnsOf(pending[k])
    <3>1. pending[l] \in Seq(EL!Functor) /\ fs \in Seq(EL!Functor)
      BY QueueType DEF TypeOK, Pushes
    <3>2. ConnsOf(pending'[l]) = ConnsOf(pending[l]) \cup ConnsOf(fs)
      <4>1. \A s, t \in Seq(EL!Functor) : ConnsOf(s \o t) = ConnsOf(s) \cup ConnsOf(t)
        BY ConnsOfConcat
      <4> QED BY <3>1, <4>1 DEF Pushes
    <3>3. d \notin ConnsOf(fs)
      BY DEF Pushes, ConnsOf
    <3> QED BY <3>2, <3>3 DEF Pushes
  <2>2. Referenced(d) <=> Bound(d) \/ \E k \in Loops : d \in ConnsOf(pending[k])
    BY ReferencedIs
  <2>3. Referenced(d)' <=> Bound(d)' \/ \E k \in Loops : d \in ConnsOf(pending'[k])
    BY DEF Referenced, Bound
  <2>4. Referenced(d) <=> Live(d)
    BY DEF Core, ReferencedAreLive
  <2> QED BY <2>1, <2>2, <2>3, <2>4 DEF OthersAlone
<1>6. ConnsInOrder'
  <2> SUFFICES ASSUME NEW d \in Conns, Live(d)' PROVE ConnInOrder(d)'
    BY DEF ConnsInOrder
  <2>1. CASE d = c
    BY <2>1 DEF ConnInOrder
  <2>2. CASE d # c
    <3> SUFFICES ASSUME NEW k \in Loops, k = loop[d] PROVE ConnInOrder(d)'
      BY StateType
    <3>1. /\ EL!TypeOK /\ loop'[d] = k /\ conn'[d].state = conn[d].state
          /\ poller'[k].index[d] = poller[k].index[d]
          /\ d \in map' <=> d \in map
          /\ d \in dropped' <=> d \in dropped
          /\ Live(d)
      BY <2>2 DEF OthersAlone, TypeOK
    <3>2. ConnInOrder(d)
      BY <3>1 DEF Core, ConnsInOrder
    <3>3. EstablishTask(d).conn = d /\ DestroyTask(d).conn = d
      BY DEF EstablishTask, DestroyTask
    <3>4. /\ Absent(Queue(k)', EstablishTask(d)) <=> Absent(Queue(k), EstablishTask(d))
          /\ Once(Queue(k), EstablishTask(d)) => Once(Queue(k)', EstablishTask(d))
      BY <2>2, <3>1, <3>3, PushedElsewhere
    <3>5. /\ Absent(Queue(k)', DestroyTask(d)) <=> Absent(Queue(k), DestroyTask(d))
          /\ Once(Queue(k), DestroyTask(d)) => Once(Queue(k)', DestroyTask(d))
      BY <2>2, <3>1, <3>3, PushedElsewhere
    <3>6. InOrder(d, conn[d].state, poller[k].index[d] # "new", d \in map, d \in dropped,
                  k = Base, Queue(k))
      BY <3>2 DEF ConnInOrder
    <3>7. InOrder(d, conn'[d].state, poller'[k].index[d] # "new", d \in map', d \in dropped',
                  k = Base, Queue(k)')
      BY <3>1, <3>4, <3>5, <3>6 DEF InOrder
    <3> QED BY <3>1, <3>7 DEF ConnInOrder, Queue
  <2> QED BY <2>1, <2>2
<1>7. EndInOrder'
  <2>1. \A d \in dropped' : d \in Conns /\ (d # c => life[d] \in {"live", "gone"})
    BY DEF Core, EndInOrder, OthersAlone
  <2>2. \A d \in dropped' : life'[d] \in {"live", "gone"}
    BY <2>1 DEF OthersAlone, Live
  <2> QED BY <2>2 DEF EndInOrder
<1> QED BY <1>3, <1>4, <1>5, <1>6, <1>7 DEF Core

-----------------------------------------------------------------------------
(* Code that runs for a connection.                                        *)

\* The world that the code leaves is one that the invariant allows.
Healthy(w, v) ==
  /\ OnlyItsOwn(w, v)
  /\ Sound(v.poller) /\ ChannelInStep(v.conn.state, v.poller, v.c)

LEMMA WorldIsProper ==
  ASSUME TypeOK, Core, NEW c \in Conns, Live(c)
  PROVE  /\ Proper(World(c)) /\ World(c).news \in Seq(SmallTask(World(c).c))
         /\ World(c).c = c /\ World(c).conn = conn[c] /\ World(c).poller = poller[loop[c]]
         /\ World(c).timers = timers[loop[c]] /\ World(c).map = map
         /\ World(c).served = (server = "up") /\ World(c).news = <<>>
<1>1. /\ loop[c] \in Loops /\ conn[c] \in Connection /\ c \in Channel
      /\ timers[loop[c]] \subseteq Channel /\ map \subseteq Channel
  BY StateType DEF TypeOK, Conns
<1>2. /\ Sound(poller[loop[c]]) /\ poller[loop[c]].fd[c] # None
      /\ ChannelInStep(conn[c].state, poller[loop[c]], c)
  BY <1>1 DEF Core, PollersSound, ChannelsInStep
<1>3. poller[loop[c]] \in PollerType
  BY <1>2 DEF Sound
<1>4. \A S : <<>> \in Seq(S)
  BY EmptySeq
<1>5. World(c) \in WorldType
  BY <1>1, <1>3, <1>4 DEF World, WorldType, Failure
<1> QED BY <1>2, <1>4, <1>5 DEF World, Proper

LEMMA HealthyIfMinor ==
  ASSUME NEW w, Proper(w), NEW v, Minor(w, v)
  PROVE  Healthy(w, v)
<1>1. Proper(v)
  BY MinorIsProper
<1>2. OnlyItsOwn(w, v)
  BY DEF Minor, OnlyItsOwn, OnlyChanges, Proper, Sound
<1> QED BY <1>1, <1>2 DEF Minor, Proper, Healthy

LEMMA HealthyOtherwise ==
  ASSUME NEW w, NEW v, Closing(w, v) \/ Opening(w, v) \/ Destroying(w, v)
  PROVE  Healthy(w, v)
BY DEF Closing, Opening, Destroying, Healthy

\* Connection c of loop l is in order, if q are the functors that are to come.
InPlace(c, l, q) ==
  InOrder(c, conn[c].state, poller[l].index[c] # "new", c \in map, c \in dropped, l = Base, q)

\* It is when code has run that left the world v.
LeftInPlace(c, l, v, q) ==
  InOrder(c, v.conn.state, v.poller.index[c] # "new", c \in v.map, c \in dropped, l = Base, q)

\* Code that made v of w ran for connection c on loop l.
Ran(c, l, w, v) ==
  /\ Healthy(w, v) /\ w.c = c /\ w.poller.fd[c] # None
  /\ OnlyChanges(c, poller[l], w.poller) /\ w.timers = timers[l]
  /\ Live(c) => loop[c] = l
  /\ CommitOn(l, v)
  /\ Live(c)' /\ loop' = [loop EXCEPT ![c] = l]
  /\ \A d \in Conns \ {c} : Live(d)' <=> Live(d)

LEMMA RanObjects ==
  ASSUME TypeOK, Core, NEW c \in Conns, NEW l \in Loops, NEW w, NEW v, Ran(c, l, w, v)
  PROVE  /\ conn' \in [Conns -> Connection] /\ conn'[c] = v.conn
         /\ \A d \in Conns \ {c} : conn'[d] = conn[d]
         /\ timers' \in [Loops -> SUBSET Conns]
         /\ \A k \in Loops : timers[k] \subseteq timers'[k] /\ timers'[k] \subseteq timers[k] \cup {c}
         /\ map' = v.map /\ map' \subseteq Conns
         /\ failed' = v.failed
         /\ loop' \in [Conns -> Loops] /\ loop'[c] = l
         /\ \A d \in Conns \ {c} : loop'[d] = loop[d]
         /\ PollersSound' /\ ChannelsInStep' /\ poller' \in [Loops -> PollerType]
         /\ poller'[l].index[c] = v.poller.index[c]
         /\ \A d \in Conns \ {c} : Live(d) =>
               poller'[loop[d]].index[d] = poller[loop[d]].index[d]
<1>1. /\ v \in WorldType /\ v.c = c /\ v.poller.fd = w.poller.fd
      /\ v.timers \in {timers[l], timers[l] \cup {c}}
      /\ OnlyChanges(c, w.poller, v.poller)
      /\ Sound(v.poller) /\ ChannelInStep(v.conn.state, v.poller, c)
  BY DEF Ran, Healthy, OnlyItsOwn
<1>2. /\ conn' = [conn EXCEPT ![c] = v.conn]
      /\ poller' = [poller EXCEPT ![l] = v.poller]
      /\ timers' = [timers EXCEPT ![l] = v.timers]
      /\ map' = v.map
      /\ failed' = FailureOf(v)
      /\ loop' = [loop EXCEPT ![c] = l]
  BY <1>1 DEF Ran, CommitOn
<1>3. /\ conn \in [Conns -> Connection] /\ timers \in [Loops -> SUBSET Conns]
      /\ loop \in [Conns -> Loops]
  BY DEF TypeOK
<1>4. v.conn \in Connection /\ v.timers \subseteq Conns /\ v.map \subseteq Conns
  BY <1>1 DEF WorldType, Conns
<1>5. failed' = v.failed
  BY <1>1, <1>2 DEF FailureOf, Sound
<1>6. /\ conn' \in [Conns -> Connection] /\ conn'[c] = v.conn
      /\ \A d \in Conns \ {c} : conn'[d] = conn[d]
  BY <1>2, <1>3, <1>4
<1>7. /\ loop' \in [Conns -> Loops] /\ loop'[c] = l
      /\ \A d \in Conns \ {c} : loop'[d] = loop[d]
  BY <1>2, <1>3
<1>8. /\ timers' \in [Loops -> SUBSET Conns]
      /\ \A k \in Loops : timers[k] \subseteq timers'[k] /\ timers'[k] \subseteq timers[k] \cup {c}
  BY <1>1, <1>2, <1>3, <1>4
<1>9. /\ poller' \in [Loops -> PollerType] /\ poller'[l] = v.poller
      /\ \A k \in Loops \ {l} : poller'[k] = poller[k]
  <2>1. poller \in [Loops -> PollerType] /\ v.poller \in PollerType
    BY <1>1 DEF TypeOK, Sound
  <2> QED BY <1>2, <2>1
<1>10. \A d \in Conns \ {c} : /\ v.poller.fd[d] = poller[l].fd[d]
                               /\ v.poller.events[d] = poller[l].events[d]
                               /\ v.poller.index[d] = poller[l].index[d]
  BY <1>1 DEF Ran, OnlyChanges, Conns
<1>11. v.poller.fd[c] # None
  BY <1>1 DEF Ran
<1>12. PollersSound'
  <2> SUFFICES ASSUME NEW k \in Loops
               PROVE  /\ Sound(poller'[k])
                      /\ \A d \in Conns : poller'[k].fd[d] # None <=> Live(d)' /\ loop'[d] = k
    BY DEF PollersSound
  <2>1. Sound(poller[k]) /\ \A d \in Conns : poller[k].fd[d] # None <=> Live(d) /\ loop[d] = k
    BY DEF Core, PollersSound
  <2>2. CASE k = l
    BY <1>1, <1>7, <1>9, <1>10, <1>11, <2>1, <2>2 DEF Ran
  <2>3. CASE k # l
    BY <1>7, <1>9, <2>1, <2>3 DEF Ran
  <2> QED BY <2>2, <2>3
<1>13. ASSUME NEW d \in Conns \ {c}, Live(d)
       PROVE  /\ poller'[loop[d]].index[d] = poller[loop[d]].index[d]
              /\ poller'[loop[d]].events[d] = poller[loop[d]].events[d]
  <2>1. loop[d] \in Loops
    BY <1>3
  <2> QED BY <1>9, <1>10, <2>1
<1>14. ChannelsInStep'
  <2> SUFFICES ASSUME NEW d \in Conns, Live(d)'
               PROVE  ChannelInStep(conn'[d].state, poller'[loop'[d]], d)
    BY DEF ChannelsInStep
  <2>1. CASE d = c
    BY <1>1, <1>6, <1>7, <1>9, <2>1
  <2>2. CASE d # c
    <3>1. Live(d)
      BY <2>2 DEF Ran
    <3>2. ChannelInStep(conn[d].state, poller[loop[d]], d)
      BY <3>1 DEF Core, ChannelsInStep
    <3> QED BY <1>6, <1>7, <1>13, <2>2, <3>1, <3>2 DEF ChannelInStep
  <2> QED BY <2>1, <2>2
<1> QED BY <1>2, <1>4, <1>5, <1>6, <1>7, <1>8, <1>9, <1>12, <1>13, <1>14

LEMMA RanOthers ==
  ASSUME TypeOK, Core, NEW c \in Conns, NEW l \in Loops, NEW w, NEW v, Ran(c, l, w, v),
         UNCHANGED <<kept, doing, dropped>>,
         \A d \in Conns \ {c} : d \in v.map <=> d \in map,
         \A d \in Conns : life[d] = "gone" => life'[d] = "gone",
         \A t \in Threads : held'[t] = held[t] \/ held'[t] = held[t] \cup {c}
  PROVE  OthersAlone(c)
<1>1. /\ \A d \in Conns \ {c} : conn'[d] = conn[d] /\ loop'[d] = loop[d]
      /\ \A k \in Loops : timers[k] \subseteq timers'[k] /\ timers'[k] \subseteq timers[k] \cup {c}
      /\ map' = v.map
      /\ \A d \in Conns \ {c} : Live(d) =>
            poller'[loop[d]].index[d] = poller[loop[d]].index[d]
  BY RanObjects
<1>2. \A d \in Conns \ {c} : Live(d)' <=> Live(d)
  BY DEF Ran
<1>3. ASSUME NEW d \in Conns \ {c} PROVE Bound(d)' <=> Bound(d)
  <2>1. \A k \in Loops : d \in kept'[k] \cup timers'[k] <=> d \in kept[k] \cup timers[k]
    BY <1>1
  <2>2. \A t \in Threads : /\ d \in held'[t] <=> d \in held[t]
                           /\ doing'[t].conn = doing[t].conn
    OBVIOUS
  <2>3. d \in map' <=> d \in map
    BY <1>1
  <2> QED BY <2>1, <2>2, <2>3 DEF Bound
<1> QED BY <1>1, <1>2, <1>3 DEF OthersAlone

LEMMA RanCore ==
  ASSUME TypeOK, Core, NEW c \in Conns, NEW l \in Loops, NEW w, NEW v, Ran(c, l, w, v),
         NEW fs, Pushes(c, l, fs),
         UNCHANGED <<phase, kept, doing, server, dropped>>,
         \A d \in Conns \ {c} : d \in v.map <=> d \in map,
         \A d \in Conns : life[d] = "gone" => life'[d] = "gone",
         \A t \in Threads : held'[t] = held[t] \/ held'[t] = held[t] \cup {c},
         Referenced(c)', OneLoop',
         server # "up" => c \notin v.map,
         LeftInPlace(c, l, v, Queue(l)'),
         \A k \in Loops : /\ active'[k] \subseteq active[k]
                          /\ c \in active'[k] => Live(c) /\ v.conn.state \in OpenState
  PROVE  Core'
<1>1. OthersAlone(c)
  BY RanOthers
<1>2. /\ conn'[c] = v.conn /\ loop'[c] = l /\ PollersSound' /\ ChannelsInStep'
      /\ poller'[l].index[c] = v.poller.index[c] /\ map' = v.map /\ map' \subseteq Conns
  BY RanObjects
<1>3. Live(c)' /\ (Live(c) => loop[c] = l)
  BY DEF Ran
<1>4. CallsAreQuiet'
  BY DEF Core, CallsAreQuiet
<1>5. /\ dropped' \subseteq Conns
      /\ dropped' # {} \/ server' # "up" => phase[Base] = "exited"
  BY DEF Core, EndInOrder, TypeOK
<1>6. server' # "up" => map' = {}
  <2> SUFFICES ASSUME server # "up", NEW d \in Conns, d \in v.map PROVE FALSE
    BY <1>2
  <2>1. map = {}
    BY DEF Core, EndInOrder
  <2> QED BY <2>1
<1>7. InOrder(c, conn'[c].state, poller'[l].index[c] # "new", c \in map',
              c \in dropped', l = Base, Queue(l)')
  BY <1>2 DEF LeftInPlace
<1>8. \A k \in Loops : /\ active'[k] \subseteq active[k]
                       /\ c \in active'[k] => Live(c) /\ conn'[c].state \in OpenState
  BY <1>2
<1> QED BY <1>1, <1>2, <1>3, <1>4, <1>5, <1>6, <1>7, <1>8, OneConnection

\* The tasks are of connection c, which they neither start nor stop reading.
AreOwn(c, tasks) ==
  \A i \in DOMAIN tasks : /\ tasks[i].conn = c
                          /\ tasks[i].fn \notin {"startReadInLoop", "stopReadInLoop"}

LEMMA NewsAreOwn ==
  ASSUME NEW c \in Conns, NEW tasks,
         \/ tasks \in Seq(SmallTask(c))
         \/ \E small \in Seq(SmallTask(c)) : tasks = Append(small, DestroyTask(c))
  PROVE  AreOwn(c, tasks)
<1>1. \A task \in SmallTask(c) : /\ task.conn = c
                                 /\ task.fn \notin {"startReadInLoop", "stopReadInLoop"}
  BY DEF SmallTask
<1>2. /\ DestroyTask(c).conn = c
      /\ DestroyTask(c).fn \notin {"startReadInLoop", "stopReadInLoop"}
  BY DEF DestroyTask
<1>3. CASE tasks \in Seq(SmallTask(c))
  <2>1. \A i \in DOMAIN tasks : tasks[i] \in SmallTask(c)
    BY <1>3, LenProperties
  <2> QED BY <1>1, <2>1 DEF AreOwn
<1>4. ASSUME NEW small \in Seq(SmallTask(c)), tasks = Append(small, DestroyTask(c))
      PROVE  \A i \in DOMAIN tasks : tasks[i] \in SmallTask(c) \/ tasks[i] = DestroyTask(c)
  <2> DEFINE n == Len(small)
             more == Append(small, DestroyTask(c))
  <2>1. /\ n \in Nat /\ DOMAIN more = 1 .. n + 1 /\ more[n + 1] = DestroyTask(c)
        /\ \A i \in 1 .. n + 1 : i # n + 1 => more[i] \in SmallTask(c)
    BY LenProperties
  <2>2. tasks = more
    BY <1>4
  <2> HIDE DEF more, n
  <2> QED BY <2>1, <2>2
<1> QED BY <1>1, <1>2, <1>3, <1>4 DEF AreOwn

LEMMA HandlerIsPush ==
  ASSUME EL!TypeOK, NEW c \in Conns, NEW l \in Loops, NEW m \in Loops, NEW ch,
         NEW tasks \in Seq(Task),
         AreOwn(c, tasks),
         EL!HandleEvent(l, ch, NewsFor(l, "handler", m, tasks), {})
  PROVE  /\ \E fs \in Seq(EL!Functor) :
               /\ Pushes(c, m, fs) /\ Wraps(fs, tasks)
               /\ Queue(m)' = Queue(m) \o fs
               /\ pending'[m] = pending[m] \o fs
         /\ EL!TypeOK' /\ UNCHANGED <<phase, looping, batch>>
         /\ phase[l] = "events" /\ ch \in active[l]
         /\ active'[l] = active[l] \ {ch} /\ \A k \in Loops \ {l} : active'[k] = active[k]
<1> DEFINE news == NewsFor(l, "handler", m, tasks)
           fs == news[m]
<1>1. /\ news \in [Loops -> Seq(EL!Functor)]
      /\ \A k \in Loops \ {m} : news[k] = <<>>
      /\ Wraps(news[m], tasks)
  BY NewsForIs
<1> HIDE DEF news
<1>2. /\ EL!TypeOK' /\ phase[l] = "events" /\ ch \in active[l]
      /\ active' = [active EXCEPT ![l] = @ \ {ch}]
      /\ UNCHANGED <<phase, looping, batch>>
      /\ \A k \in Loops : pending'[k] = pending[k] \o news[k]
      /\ \A k \in Loops : Queue(k)' = Queue(k) \o news[k]
  BY <1>1, HandlerPushes DEF news
<1>3. \A k \in Loops \ {m} : pending'[k] = pending[k] /\ Queue(k)' = Queue(k)
  <2>1. \A p \in Seq(EL!Functor) : p \o <<>> = p
    BY ConcatEmptySeq
  <2> QED BY <1>1, <1>2, <2>1, QueueType
<1>4. \A i \in DOMAIN fs : /\ fs[i].task.conn = c
                           /\ fs[i].task.fn \notin {"startReadInLoop", "stopReadInLoop"}
  BY <1>1 DEF Wraps, AreOwn
<1>5. fs \in Seq(EL!Functor)
  BY <1>1
<1>6. Pushes(c, m, fs)
  BY <1>2, <1>3, <1>4, <1>5 DEF Pushes
<1>7. active'[l] = active[l] \ {ch} /\ \A k \in Loops \ {l} : active'[k] = active[k]
  BY <1>2 DEF EL!TypeOK
<1> QED BY <1>1, <1>2, <1>5, <1>6, <1>7

LEMMA FunctorIsPush ==
  ASSUME EL!TypeOK, NEW c \in Conns, NEW l \in Loops, NEW tasks \in Seq(Task),
         AreOwn(c, tasks),
         Head(batch[l]).task.conn = c,
         EL!RunFunctor(l, NewsFor(l, "functor", l, tasks), {})
  PROVE  /\ \E fs \in Seq(EL!Functor) :
               /\ Pushes(c, l, fs) /\ Wraps(fs, tasks)
               /\ Queue(l)' = Tail(Queue(l)) \o fs
               /\ pending'[l] = pending[l] \o fs
         /\ EL!TypeOK' /\ UNCHANGED <<phase, looping, active>>
         /\ phase[l] = "functors" /\ batch[l] # <<>>
         /\ Queue(l) # <<>> /\ Queue(l)[1] = Head(batch[l])
<1> DEFINE news == NewsFor(l, "functor", l, tasks)
           fs == news[l]
<1>1. /\ news \in [Loops -> Seq(EL!Functor)]
      /\ \A k \in Loops \ {l} : news[k] = <<>>
      /\ Wraps(news[l], tasks)
  BY NewsForIs
<1> HIDE DEF news
<1>2. /\ EL!TypeOK' /\ phase[l] = "functors" /\ batch[l] # <<>>
      /\ batch' = [batch EXCEPT ![l] = Tail(@)]
      /\ UNCHANGED <<phase, looping, active>>
      /\ \A k \in Loops : pending'[k] = pending[k] \o news[k]
      /\ \A k \in Loops \ {l} : Queue(k)' = Queue(k) \o news[k]
      /\ Queue(l) # <<>> /\ Queue(l)[1] = Head(batch[l])
      /\ Queue(l)' = Tail(Queue(l)) \o news[l]
  BY <1>1, FunctorPushes DEF news
<1>3. \A k \in Loops \ {l} : pending'[k] = pending[k] /\ Queue(k)' = Queue(k)
  <2>1. \A p \in Seq(EL!Functor) : p \o <<>> = p
    BY ConcatEmptySeq
  <2> SUFFICES ASSUME NEW k \in Loops \ {l}
               PROVE  pending'[k] = pending[k] /\ Queue(k)' = Queue(k)
    OBVIOUS
  <2>2. pending[k] \in Seq(EL!Functor) /\ Queue(k) \in Seq(EL!Functor)
    BY QueueType
  <2>3. pending'[k] = pending[k] \o <<>> /\ Queue(k)' = Queue(k) \o <<>>
    BY <1>1, <1>2
  <2> QED BY <2>1, <2>2, <2>3
<1>4. \A i \in DOMAIN fs : /\ fs[i].task.conn = c
                           /\ fs[i].task.fn \notin {"startReadInLoop", "stopReadInLoop"}
  BY <1>1 DEF Wraps, AreOwn
<1>5. fs \in Seq(EL!Functor)
  BY <1>1
<1>6. \A k \in Loops : /\ batch'[k] # <<>> => batch[k] # <<>>
                       /\ ConnsOf(batch'[k]) \subseteq ConnsOf(batch[k])
  <2>1. /\ batch'[l] = Tail(batch[l])
        /\ \A k \in Loops \ {l} : batch'[k] = batch[k]
    BY <1>2 DEF EL!TypeOK
  <2>2. \A s \in Seq(EL!Functor) : s # <<>> =>
          \A i \in DOMAIN Tail(s) : \E j \in DOMAIN s : Tail(s)[i] = s[j]
    BY ElementOfTail
  <2>3. ConnsOf(Tail(batch[l])) \subseteq ConnsOf(batch[l])
    BY <1>2, <2>2, QueueType DEF ConnsOf
  <2> QED BY <1>2, <2>1, <2>3
<1>7. Queue(l)[1].task.conn = c
  BY <1>2
<1>8. Pushes(c, l, fs)
  BY <1>2, <1>3, <1>4, <1>5, <1>6, <1>7 DEF Pushes
<1> QED BY <1>1, <1>2, <1>5, <1>8

\* handleClose() of a connection whose server is no more: ~TcpServer() had
\* dropped the connection, and left connectDestroyed() to its loop.
LEMMA FailedCloseClaims ==
  ASSUME TypeOK, Core, NEW c \in Conns, NEW l \in Loops, NEW w, NEW v,
         Ran(c, l, w, v), Live(c), w.conn = conn[c], w.map = map,
         w.served <=> server = "up",
         Closing(w, v), v.failed # "none", l # Base,
         TypeOK', UNCHANGED <<dropped, server>>,
         \A k \in Loops : active'[k] \subseteq active[k]
  PROVE  Claims'
<1>1. /\ server # "up" /\ map' = map /\ conn'[c].state = "kDisconnected"
      /\ conn[c].state \in OpenState
  BY RanObjects DEF Closing, IsOpen, OpenState
<1>2. /\ \A d \in Conns \ {c} : conn'[d] = conn[d] /\ loop'[d] = loop[d]
      /\ loop'[c] = l /\ PollersSound' /\ ChannelsInStep'
  BY RanObjects
<1>3. loop[c] = l /\ \A d \in Conns : Live(d)' <=> Live(d)
  BY DEF Ran
<1>4. map = {}
  BY <1>1 DEF Core, EndInOrder
<1>5. c \in dropped
  BY <1>1, <1>4 DEF Core, ConnsInOrder, ConnInOrder, InOrder, OpenState
<1>6. NoDanglingChannel'
  <2>1. \A k \in Loops : \A f \in Fd : PointersOwned(poller'[k], f)
    BY <1>2 DEF PollersSound, Sound
  <2>2. \A k \in Loops : \A d \in active'[k] \cap Conns : Live(d) /\ loop[d] = k
    BY DEF Core, ActiveAreOpen
  <2>3. \A k \in Loops : \A d \in active'[k] \cap Conns : life'[d] = "live" /\ loop'[d] = k
    BY <1>2, <1>3, <2>2 DEF Live
  <2> QED BY <2>1, <2>3 DEF NoDanglingChannel
<1>7. ClosedIsSilent'
  <2>1. (TypeOK /\ PollersSound /\ ChannelsInStep => ClosedIsSilent)'
    BY SoundIsSilent, PTL
  <2> QED BY <1>2, <2>1
<1>8. \A d \in Conns : Live(d) /\ conn'[d].state # "kDisconnected" => d \in dropped
  <2>1. \A d \in Conns : Live(d) /\ conn[d].state # "kDisconnected" => d \in dropped
    BY <1>4 DEF Core, ConnsInOrder, ConnInOrder, InOrder
  <2> QED BY <1>1, <1>2, <2>1
<1>9. \A d \in Conns : Stage(d)' \in {"opening", "up", "closing"} <=>
                          Live(d)' /\ conn'[d].state # "kDisconnected"
  BY NextStageIs
<1>10. MapIsLive'
  BY <1>1, <1>3, <1>4, <1>8, <1>9 DEF MapIsLive
<1>11. NoneLeftOpen'
  <2> SUFFICES ASSUME server = "gone", NEW d \in Conns, loop'[d] = Base,
                      Stage(d)' \in {"opening", "up", "closing"}
               PROVE  FALSE
    BY DEF NoneLeftOpen
  <2>1. Live(d) /\ conn'[d].state # "kDisconnected" /\ d \in dropped
    BY <1>3, <1>8, <1>9
  <2>2. d # c /\ loop[d] = Base /\ conn[d].state # "kDisconnected"
    BY <1>1, <1>2, <2>1
  <2> QED BY <2>1, <2>2 DEF Core, ConnsInOrder, ConnInOrder, InOrder
<1>12. FailsOnlyAtStop'
  BY <1>2, <1>5 DEF FailsOnlyAtStop
<1>13. ~DroppedHere' /\ OneLoop'
  BY <1>2, <1>3, <1>5 DEF DroppedHere, Core, OneLoop
<1> QED BY <1>6, <1>7, <1>10, <1>11, <1>12, <1>13, Zenon DEF Claims

\* What code on the thread of a loop leaves is of the right types.
LEMMA RanTypes ==
  ASSUME TypeOK, Core, NEW c \in Conns, NEW l \in Loops, NEW w, NEW v, Ran(c, l, w, v),
         EL!TypeOK', life' \in [Conns -> {"none", "backlog", "live", "gone"}],
         revents' \in [Conns -> SUBSET {"IN", "OUT", "HUP", "ERR"}],
         next' \in (IF Pool = <<>> THEN {0} ELSE 0 .. Len(Pool) - 1),
         held' \in [Threads -> SUBSET Conns],
         UNCHANGED <<kept, doing, server, dropped>>
  PROVE  TypeOK'
<1>1. /\ conn' \in [Conns -> Connection] /\ timers' \in [Loops -> SUBSET Conns]
      /\ map' \subseteq Conns /\ loop' \in [Conns -> Loops] /\ poller' \in [Loops -> PollerType]
  BY RanObjects
<1> QED BY <1>1 DEF TypeOK

\* Code that runs for a connection that exists.
LEMMA WorldRan ==
  ASSUME TypeOK, Core, NEW c \in Conns, Live(c), NEW v, Healthy(World(c), v), Commit(v),
         life' = life, loop' = loop
  PROVE  Ran(c, loop[c], World(c), v)
<1> DEFINE w == World(c)
<1>1. Proper(w) /\ w.c = c /\ w.poller = poller[loop[c]] /\ w.timers = timers[loop[c]]
  BY WorldIsProper
<1> HIDE DEF w
<1>2. v.c = c
  BY <1>1 DEF Healthy, OnlyItsOwn, w
<1>3. CommitOn(loop[c], v)
  BY <1>2 DEF Commit
<1>4. loop' = [loop EXCEPT ![c] = loop[c]]
  BY DEF TypeOK
<1>5. OnlyChanges(c, poller[loop[c]], w.poller) /\ w.poller.fd[c] # None
  BY <1>1 DEF OnlyChanges, Proper
<1> QED BY <1>1, <1>3, <1>4, <1>5 DEF Ran, Live, w

\* A minor change leaves the connection in order, and referenced.
LEMMA MinorKeeps ==
  ASSUME TypeOK, Core, NEW c \in Conns, NEW l \in Loops, NEW v, Live(c), l = loop[c],
         Minor(World(c), v),
         NEW q \in Seq(EL!Functor), NEW fs \in Seq(EL!Functor), Wraps(fs, v.news),
         InPlace(c, l, q)
  PROVE  /\ LeftInPlace(c, l, v, q \o fs)
         /\ v.map = map
<1> DEFINE w == World(c)
<1>1. /\ w.c = c /\ w.conn = conn[c] /\ w.poller = poller[l] /\ w.map = map
      /\ w.news \in Seq(SmallTask(c))
  BY WorldIsProper
<1>2. /\ v.poller = poller[l] /\ v.map = map /\ v.news \in Seq(SmallTask(c))
      /\ v.conn.state = "kDisconnected" <=> conn[c].state = "kDisconnected"
      /\ v.conn.state = "kConnecting" <=> conn[c].state = "kConnecting"
  BY <1>1 DEF Minor, IsOpen
<1>3. Absent(fs, EstablishTask(c)) /\ Absent(fs, DestroyTask(c))
  BY <1>2, SmallNews
<1> DEFINE est == EstablishTask(c)
           des == DestroyTask(c)
<1>4. \A s, t \in Seq(EL!Functor) : \A task :
        /\ Absent(s \o t, task) <=> Absent(s, task) /\ Absent(t, task)
        /\ Once(s, task) /\ Absent(t, task) => Once(s \o t, task)
  BY ConcatTasks
<1>5. /\ Absent(q \o fs, est) <=> Absent(q, est)
      /\ Once(q, est) => Once(q \o fs, est)
      /\ Absent(q \o fs, des) <=> Absent(q, des)
      /\ Once(q, des) => Once(q \o fs, des)
  BY <1>3, <1>4
<1> HIDE DEF est, des
<1> QED BY <1>2, <1>5 DEF InPlace, LeftInPlace, InOrder, est, des

\* Closing a connection leaves it in order too: its connectDestroyed() is queued.
LEMMA ClosingKeeps ==
  ASSUME TypeOK, Core, NEW c \in Conns, NEW l \in Loops, NEW v, Live(c), l = loop[c],
         Closing(World(c), v), v.failed = "none",
         NEW q \in Seq(EL!Functor), NEW fs \in Seq(EL!Functor), Wraps(fs, v.news),
         InPlace(c, l, q)
  PROVE  /\ LeftInPlace(c, l, v, q \o fs)
         /\ v.map = map \ {c} /\ server = "up"
         /\ c \in ConnsOf(fs)
<1> DEFINE w == World(c)
           est == EstablishTask(c)
           des == DestroyTask(c)
<1>1. /\ w.c = c /\ w.conn = conn[c] /\ w.map = map /\ w.served = (server = "up")
      /\ Closing(w, v)
  BY WorldIsProper
<1> HIDE DEF w
<1>a. /\ w.conn.state \in OpenState /\ v.conn.state = "kDisconnected" /\ v.map = w.map \ {w.c}
      /\ v.poller.index[v.c] # "new" /\ v.c = w.c /\ w.served
  BY <1>1 DEF Closing, OnlyItsOwn, IsOpen, OpenState
<1>b. PICK small \in Seq(SmallTask(w.c)) : v.news = Append(small, DestroyTask(w.c))
  BY <1>1 DEF Closing
<1>2. /\ conn[c].state \in OpenState /\ v.conn.state = "kDisconnected" /\ v.map = map \ {c}
      /\ v.poller.index[c] # "new" /\ server = "up"
  BY <1>1, <1>a
<1>3. Absent(fs, est) /\ Once(fs, des)
  <2>1. small \in Seq(SmallTask(c)) /\ Wraps(fs, Append(small, DestroyTask(c)))
    BY <1>1, <1>b
  <2> QED BY <2>1, ClosingNews
<1>4. \A s, t \in Seq(EL!Functor) : \A task :
        /\ Absent(s \o t, task) <=> Absent(s, task) /\ Absent(t, task)
        /\ Once(s, task) /\ Absent(t, task) => Once(s \o t, task)
        /\ Absent(s, task) /\ Once(t, task) => Once(s \o t, task)
  BY ConcatTasks
<1>5. ~Absent(fs, des)
  BY <1>3 DEF Once, Absent
<1>6. /\ Absent(q \o fs, est) <=> Absent(q, est)
      /\ Once(q, est) => Once(q \o fs, est)
      /\ ~Absent(q \o fs, des)
      /\ Absent(q, des) => Once(q \o fs, des)
  BY <1>3, <1>4, <1>5
<1>7. c \in ConnsOf(fs)
  BY <1>3 DEF Once, ConnsOf, DestroyTask
<1> HIDE DEF est, des
<1> QED BY <1>2, <1>6, <1>7 DEF InPlace, LeftInPlace, InOrder, OpenState, est, des

\* The functor that is called first is no longer to come, and what it queues
\* opens or closes nothing.
LEMMA FunctorKeeps ==
  ASSUME NEW c \in Conns, NEW q \in Seq(EL!Functor), q # <<>>, q[1].task.conn = c,
         NEW fs \in Seq(EL!Functor), NEW news \in Seq(SmallTask(c)), Wraps(fs, news),
         NEW task \in {EstablishTask(c), DestroyTask(c)}
  PROVE  /\ q[1].task = task => ~Absent(q, task)
         /\ q[1].task = task /\ Once(q, task) => Absent(Tail(q) \o fs, task)
         /\ q[1].task # task => /\ Absent(Tail(q) \o fs, task) <=> Absent(q, task)
                                /\ Once(q, task) => Once(Tail(q) \o fs, task)
<1>1. Absent(fs, task)
  BY SmallNews
<1>2. Tail(q) \in Seq(EL!Functor)
  BY HeadTailProperties
<1>3. \A s, t \in Seq(EL!Functor) : \A k :
        /\ Absent(s \o t, k) <=> Absent(s, k) /\ Absent(t, k)
        /\ Once(s, k) /\ Absent(t, k) => Once(s \o t, k)
  BY ConcatTasks
<1>4. /\ Absent(q, task) => Absent(Tail(q), task)
      /\ Once(q, task) /\ q[1].task = task => Absent(Tail(q), task)
      /\ Once(q, task) /\ q[1].task # task => Once(Tail(q), task)
      /\ ~Absent(q, task) /\ q[1].task # task => ~Absent(Tail(q), task)
  BY TailTasks
<1>5. q[1].task = task => ~Absent(q, task)
  BY EmptySeq, LenProperties DEF Absent
<1> QED BY <1>1, <1>2, <1>3, <1>4, <1>5

LEMMA StillReferenced ==
  ASSUME EL!TypeOK, NEW c \in Conns, NEW l \in Loops, Referenced(c), NEW fs, Pushes(c, l, fs),
         map' = map, UNCHANGED <<kept, doing>>, \A k \in Loops : timers[k] \subseteq timers'[k],
         \A t \in Threads : held[t] \subseteq held'[t]
  PROVE  Referenced(c)'
<1>1. pending[l] \in Seq(EL!Functor) /\ fs \in Seq(EL!Functor)
  BY QueueType DEF Pushes
<1>2. ConnsOf(pending[l]) \subseteq ConnsOf(pending'[l])
  <2>1. \A s, t \in Seq(EL!Functor) : ConnsOf(s \o t) = ConnsOf(s) \cup ConnsOf(t)
    BY ConnsOfConcat
  <2> QED BY <1>1, <2>1 DEF Pushes
<1>3. \A k \in Loops : ConnsOf(pending[k]) \subseteq ConnsOf(pending'[k])
  BY <1>2 DEF Pushes
<1> QED BY <1>3 DEF Referenced

-----------------------------------------------------------------------------
(* The steps that run code for a connection.  When an assert fails, the    *)
(* claims are all that is left.                                            *)

\* Channel::handleEvent().
LEMMA HandleConnStep ==
  ASSUME QuietUsers, TypeOK, Core, NEW l \in Loops, NEW c \in Conns, NEW u,
         NEW res \in WriteResult, HandleConn(l, c, u, res)
  PROVE  IF failed' = "none" THEN TypeOK' /\ Core' ELSE Claims'
<1> DEFINE w == World(c)
<1>1. PICK v : v = HandleEvent(w, revents[c], u, res)
  OBVIOUS
<1>2. /\ EL!HandleEvent(l, c, NewsFor(l, "handler", l, v.news), {})
      /\ Commit(v)
      /\ revents' = [revents EXCEPT ![c] = {}]
      /\ UNCHANGED <<life, loop, next, kept, held, doing, server, dropped>>
  BY <1>1 DEF HandleConn, userVars, stopVars
<1>3. phase[l] = "events" /\ c \in active[l]
  BY <1>2 DEF EL!HandleEvent
<1>4. Live(c) /\ loop[c] = l /\ conn[c].state \in OpenState
  BY <1>3 DEF Core, ActiveAreOpen
<1>5. /\ Proper(w) /\ w.news \in Seq(SmallTask(w.c))
      /\ w.c = c /\ w.conn = conn[c] /\ w.poller = poller[l] /\ w.map = map
      /\ w.served = (server = "up") /\ w.failed = "none"
  BY <1>4, WorldIsProper DEF Proper
<1> HIDE DEF w
<1>6. IsOpen(w)
  BY <1>4, <1>5 DEF IsOpen, OpenState
<1>7. Minor(w, v) \/ Closing(w, v)
  BY <1>1, <1>5, <1>6, HandleEventDoes DEF QuietUsers
<1>8. Healthy(w, v) /\ v \in WorldType
  BY <1>5, <1>7, HealthyIfMinor, HealthyOtherwise DEF Healthy, OnlyItsOwn
<1>9. Ran(c, l, w, v)
  BY <1>2, <1>4, <1>8, WorldRan DEF w
<1>10. v.news \in Seq(Task)
  BY <1>8, TaskIs DEF WorldType
<1>11. \/ v.news \in Seq(SmallTask(c))
       \/ \E small \in Seq(SmallTask(c)) : v.news = Append(small, DestroyTask(c))
  BY <1>5, <1>7 DEF Minor, Closing
<1>12. AreOwn(c, v.news)
  BY <1>11, NewsAreOwn
<1>13. EL!TypeOK
  BY DEF TypeOK
<1>14. /\ \E fs \in Seq(EL!Functor) : /\ Pushes(c, l, fs) /\ Wraps(fs, v.news)
                                      /\ Queue(l)' = Queue(l) \o fs
                                      /\ pending'[l] = pending[l] \o fs
       /\ EL!TypeOK' /\ UNCHANGED <<phase, looping, batch>>
       /\ phase[l] = "events" /\ c \in active[l]
       /\ active'[l] = active[l] \ {c} /\ \A k \in Loops \ {l} : active'[k] = active[k]
  <2>1. EL!HandleEvent(l, c, NewsFor(l, "handler", l, v.news), {})
    BY <1>2
  <2> QED BY <1>10, <1>12, <1>13, <2>1, HandlerIsPush, Zenon
<1>15. PICK fs \in Seq(EL!Functor) : /\ Pushes(c, l, fs) /\ Wraps(fs, v.news)
                                     /\ Queue(l)' = Queue(l) \o fs
                                     /\ pending'[l] = pending[l] \o fs
  BY <1>14
<1>16. TypeOK'
  <2>1. /\ life' \in [Conns -> {"none", "backlog", "live", "gone"}]
        /\ revents' \in [Conns -> SUBSET {"IN", "OUT", "HUP", "ERR"}]
        /\ next' \in (IF Pool = <<>> THEN {0} ELSE 0 .. Len(Pool) - 1)
        /\ held' \in [Threads -> SUBSET Conns]
    BY <1>2 DEF TypeOK
  <2>2. EL!TypeOK' /\ UNCHANGED <<kept, doing, server, dropped>>
    BY <1>2, <1>14
  <2> QED BY <1>9, <2>1, <2>2, RanTypes, Zenon
<1>17. ASSUME NEW k \in Loops
       PROVE  active'[k] \subseteq active[k] /\ c \notin active'[k]
  <2>1. k # l => c \notin active[k]
    BY <1>4 DEF Core, ActiveAreOpen
  <2> QED BY <1>14, <2>1
<1>18. failed' = v.failed /\ map' = v.map
       /\ \A k \in Loops : timers[k] \subseteq timers'[k]
  BY <1>9, RanObjects
<1>19. CASE v.failed # "none"
  <2>1. Closing(w, v) /\ ~w.served
    BY <1>5, <1>7, <1>19 DEF Minor, Closing
  <2>2. l # Base
    BY <1>3, <1>5, <2>1 DEF Core, EndInOrder
  <2>3. Claims'
    BY <1>2, <1>4, <1>5, <1>9, <1>16, <1>17, <1>19, <2>1, <2>2, FailedCloseClaims
  <2> QED BY <1>18, <1>19, <2>3
<1>20. CASE v.failed = "none"
  <2>1. Queue(l) \in Seq(EL!Functor)
    BY <1>13, QueueType
  <2>2. InPlace(c, l, Queue(l))
    BY <1>4 DEF Core, ConnsInOrder, ConnInOrder, InPlace
  <2>3. Referenced(c)
    BY <1>4 DEF Core, ReferencedAreLive
  <2>4. /\ LeftInPlace(c, l, v, Queue(l)')
        /\ v.map \in {map, map \ {c}} /\ Referenced(c)'
    <3>1. CASE Minor(w, v)
      <4>1. /\ LeftInPlace(c, l, v, Queue(l) \o fs)
            /\ v.map = map
        BY <1>4, <1>15, <2>1, <2>2, <3>1, MinorKeeps DEF w
      <4>2. Referenced(c)'
        BY <1>2, <1>13, <1>15, <1>18, <2>3, <4>1, StillReferenced
      <4> QED BY <1>15, <4>1, <4>2
    <3>2. CASE Closing(w, v)
      <4>1. /\ LeftInPlace(c, l, v, Queue(l) \o fs)
            /\ v.map = map \ {c} /\ c \in ConnsOf(fs)
        BY <1>4, <1>15, <1>20, <2>1, <2>2, <3>2, ClosingKeeps DEF w
      <4>2. c \in ConnsOf(pending'[l])
        <5>1. \A s, t \in Seq(EL!Functor) : ConnsOf(s \o t) = ConnsOf(s) \cup ConnsOf(t)
          BY ConnsOfConcat
        <5>2. pending[l] \in Seq(EL!Functor)
          BY <1>13, QueueType
        <5> QED BY <1>15, <4>1, <5>1, <5>2
      <4> QED BY <1>15, <4>1, <4>2 DEF Referenced
    <3> QED BY <1>7, <3>1, <3>2
  <2>5. OneLoop'
    BY <1>2 DEF Core, OneLoop
  <2>6. server # "up" => c \notin v.map
    BY <2>4 DEF Core, EndInOrder
  <2>7. Core'
    BY <1>2, <1>9, <1>14, <1>15, <1>17, <2>4, <2>5, <2>6, RanCore
  <2> QED BY <1>16, <1>18, <1>20, <2>7
<1> QED BY <1>19, <1>20

\* The functor that is called next is of a connection of the loop.
LEMMA HeadIsLive ==
  ASSUME TypeOK, Core, NEW l \in Loops, batch[l] # <<>>, NEW task,
         task = Head(batch[l]).task
  PROVE  /\ task \in Task /\ task = [fn |-> task.fn, conn |-> task.conn]
         /\ Live(task.conn) /\ loop[task.conn] = l
         /\ task.fn \notin {"startReadInLoop", "stopReadInLoop"}
         /\ task.conn \in kept[l] /\ phase[l] = "functors" /\ active[l] = {}
         /\ Queue(l) \in Seq(EL!Functor) /\ Queue(l) # <<>> /\ Queue(l)[1].task = task
<1>1. EL!TypeOK
  BY DEF TypeOK
<1>2. /\ batch[l] \in Seq(EL!Functor) /\ pending[l] \in Seq(EL!Functor)
      /\ Queue(l) \in Seq(EL!Functor) /\ DOMAIN Queue(l) = 1 .. Len(Queue(l))
      /\ Len(Queue(l)) \in Nat
  BY <1>1, QueueType
<1>3. Queue(l) # <<>> /\ Queue(l)[1] = Head(batch[l])
  <2>1. \A b, p, n \in Seq(EL!Functor) : b # <<>> => b \o p # <<>> /\ (b \o p)[1] = Head(b)
    BY QueueOfBatch
  <2> QED BY <1>2, <2>1 DEF Queue
<1>4. 1 \in DOMAIN Queue(l)
  BY <1>2, <1>3, EmptySeq
<1>5. /\ task \in Task /\ Live(task.conn) /\ loop[task.conn] = l
      /\ task.fn \notin {"startReadInLoop", "stopReadInLoop"}
  BY <1>1, <1>3, <1>4, QueuedTask DEF Core, QueuesAreLive
<1>6. task.conn \in ConnsOf(batch[l])
  <2>1. 1 \in DOMAIN batch[l] /\ batch[l][1] = Head(batch[l])
    BY <1>2, EmptySeq, LenProperties
  <2> QED BY <2>1 DEF ConnsOf
<1>7. task.conn \in kept[l] /\ phase[l] = "functors"
  BY <1>6 DEF Core, QueuesAreLive
<1>8. active[l] = {}
  BY <1>7 DEF Core, ActiveAreOpen
<1>9. task = [fn |-> task.fn, conn |-> task.conn]
  BY <1>5 DEF Task
<1> QED BY <1>2, <1>3, <1>5, <1>7, <1>8, <1>9

\* The functor leaves its connection in order.
LEMMA FunctorInOrder ==
  ASSUME TypeOK, Core, NEW c \in Conns, NEW l \in Loops, NEW v, NEW fn, Live(c), l = loop[c],
         \/ /\ fn \notin {"connectEstablished", "connectDestroyed"}
            /\ Minor(World(c), v) \/ Closing(World(c), v)
         \/ fn = "connectEstablished" /\ Opening(World(c), v)
         \/ fn = "connectDestroyed" /\ Destroying(World(c), v),
         v.failed = "none",
         NEW q \in Seq(EL!Functor), q # <<>>, q[1].task = [fn |-> fn, conn |-> c],
         NEW fs \in Seq(EL!Functor), Wraps(fs, v.news),
         InPlace(c, l, q)
  PROVE  /\ LeftInPlace(c, l, v, Tail(q) \o fs)
         /\ v.map \in {map, map \ {c}}
<1> DEFINE w == World(c)
           est == EstablishTask(c)
           des == DestroyTask(c)
<1>1. /\ w.c = c /\ w.conn = conn[c] /\ w.map = map /\ w.poller = poller[l]
  BY WorldIsProper
<1> HIDE DEF w
<1>2. Tail(q) \in Seq(EL!Functor)
  BY HeadTailProperties
<1>3. CASE fn \notin {"connectEstablished", "connectDestroyed"}
  <2>1. Minor(World(c), v) \/ Closing(World(c), v)
    BY <1>3
  <2>2. q[1].task # est /\ q[1].task # des
    BY <1>3 DEF EstablishTask, DestroyTask
  <2>3. \A task \in {est, des} : /\ Absent(Tail(q), task) <=> Absent(q, task)
                                 /\ Once(q, task) => Once(Tail(q), task)
    BY <2>2, TailTasks
  <2> HIDE DEF est, des
  <2>4. InPlace(c, l, Tail(q))
    BY <2>3 DEF InPlace, InOrder, est, des
  <2>5. CASE Minor(World(c), v)
    <3>1. /\ LeftInPlace(c, l, v, Tail(q) \o fs)
          /\ v.map = map
      BY <1>2, <2>4, <2>5, MinorKeeps, Zenon
    <3> QED BY <3>1
  <2>6. CASE Closing(World(c), v)
    <3>1. /\ LeftInPlace(c, l, v, Tail(q) \o fs)
          /\ v.map = map \ {c}
      BY <1>2, <2>4, <2>6, ClosingKeeps, Zenon
    <3> QED BY <3>1
  <2> QED BY <2>1, <2>5, <2>6
<1>4. CASE fn = "connectEstablished"
  <2>1. /\ conn[c].state = "kConnecting" /\ v.conn.state \in OpenState
        /\ v.map = map /\ v.news \in Seq(SmallTask(c))
    BY <1>1, <1>4 DEF Opening, OpenState, w
  <2>2. q[1].task.conn = c /\ q[1].task = est /\ est # des
    BY <1>4 DEF EstablishTask, DestroyTask
  <2>3. /\ ~Absent(q, est) /\ (Once(q, est) => Absent(Tail(q) \o fs, est))
        /\ Absent(Tail(q) \o fs, des) <=> Absent(q, des)
        /\ Once(q, des) => Once(Tail(q) \o fs, des)
    BY <2>1, <2>2, FunctorKeeps
  <2> HIDE DEF est, des
  <2> QED BY <2>1, <2>3 DEF InPlace, LeftInPlace, InOrder, OpenState, est, des
<1>5. CASE fn = "connectDestroyed"
  <2>1. /\ conn[c].state \in {"kConnected", "kDisconnected"} /\ v.conn.state = "kDisconnected"
        /\ v.map = map /\ v.news \in Seq(SmallTask(c)) /\ v.poller.index[c] = "new"
    BY <1>1, <1>5 DEF Destroying, OnlyItsOwn, w
  <2>2. q[1].task.conn = c /\ q[1].task = des /\ est # des
    BY <1>5 DEF EstablishTask, DestroyTask
  <2>3. /\ ~Absent(q, des) /\ (Once(q, des) => Absent(Tail(q) \o fs, des))
        /\ Absent(Tail(q) \o fs, est) <=> Absent(q, est)
    BY <2>1, <2>2, FunctorKeeps
  <2> HIDE DEF est, des
  <2> QED BY <2>1, <2>3 DEF InPlace, LeftInPlace, InOrder, est, des
<1> QED BY <1>3, <1>4, <1>5

\* connectDestroyed() of a connection that cannot be removed, on a loop that is
\* not the Acceptor's: the assert of removeChannel() fails.
LEMMA FailedRemovalClaims ==
  ASSUME TypeOK, Core, NEW c \in Conns, NEW l \in Loops, NEW v, Live(c), l = loop[c],
         Failing(World(c), v), CommitOn(l, v), c \in dropped, l # Base,
         EL!TypeOK', held' \in [Threads -> SUBSET Conns],
         UNCHANGED <<life, loop, revents, next, kept, doing, server, dropped>>,
         \A k \in Loops : active'[k] \subseteq active[k]
  PROVE  Claims'
<1> DEFINE w == World(c)
<1>1. /\ w.c = c /\ w.conn = conn[c] /\ w.poller = poller[l] /\ w.map = map
      /\ w.timers = timers[l]
  BY WorldIsProper
<1> HIDE DEF w
<1>2. /\ v \in WorldType /\ v.c = c /\ v.conn = conn[c] /\ v.map = map
      /\ v.poller.events = poller[l].events /\ v.poller.epoll = poller[l].epoll
      /\ v.poller.index = poller[l].index
      /\ \A f \in Fd : PointersOwned(v.poller, f)
  BY <1>1 DEF Failing, OnlyItsOwn, w
<1>3. v.poller \in PollerType /\ v.timers \subseteq Conns
  BY <1>2 DEF WorldType, Conns
<1>4. /\ conn \in [Conns -> Connection] /\ poller \in [Loops -> PollerType]
      /\ timers \in [Loops -> SUBSET Conns]
  BY DEF TypeOK
<1>5. /\ conn' = [conn EXCEPT ![c] = v.conn]
      /\ poller' = [poller EXCEPT ![l] = v.poller]
      /\ timers' = [timers EXCEPT ![l] = v.timers]
      /\ map' = map
  BY <1>2 DEF CommitOn
<1>6. conn' = conn
  BY <1>2, <1>4, <1>5
<1>7. /\ poller' \in [Loops -> PollerType] /\ poller'[l] = v.poller
      /\ \A k \in Loops \ {l} : poller'[k] = poller[k]
      /\ timers' \in [Loops -> SUBSET Conns]
  BY <1>3, <1>4, <1>5
<1>8. TypeOK'
  BY <1>5, <1>6, <1>7 DEF TypeOK
<1>9. /\ NoDanglingChannel /\ ClosedIsSilent /\ MapIsLive /\ NoneLeftOpen
  BY CoreNeverDangles, CoreMapIsLive, CoreNoneLeftOpen, SoundIsSilent DEF Core
<1>10. \A d \in Conns : Stage(d)' = Stage(d)
  BY <1>6 DEF Stage
<1>11. NoDanglingChannel'
  <2>1. \A k \in Loops, f \in Fd : PointersOwned(poller'[k], f)
    BY <1>2, <1>7, <1>9 DEF NoDanglingChannel
  <2> QED BY <1>9, <2>1 DEF NoDanglingChannel
<1>12. ClosedIsSilent'
  <2> SUFFICES ASSUME NEW d \in Conns, Stage(d) = "down"
               PROVE  LET p == poller'[loop[d]] IN
                      p.events[d] = {} /\ \A f \in Fd : p.epoll[f] = None \/ p.epoll[f].ptr # d
    BY <1>10 DEF ClosedIsSilent
  <2>1. loop[d] \in Loops
    BY StateType
  <2>2. poller'[loop[d]].events = poller[loop[d]].events
        /\ poller'[loop[d]].epoll = poller[loop[d]].epoll
    BY <1>2, <1>7, <2>1
  <2> QED BY <1>9, <2>2 DEF ClosedIsSilent
<1>13. MapIsLive' /\ NoneLeftOpen'
  BY <1>5, <1>9, <1>10 DEF MapIsLive, NoneLeftOpen
<1>14. FailsOnlyAtStop'
  BY DEF FailsOnlyAtStop
<1>15. ~DroppedHere' /\ OneLoop'
  BY DEF DroppedHere, Core, OneLoop
<1> QED BY <1>8, <1>11, <1>12, <1>13, <1>14, <1>15, Zenon DEF Claims

\* A functor is called.
LEMMA RunFunctorStep ==
  ASSUME QuietUsers, TypeOK, Core, NEW l \in Loops, NEW u, NEW res \in WriteResult,
         RunFunctor(l, u, res)
  PROVE  IF failed' = "none" THEN TypeOK' /\ Core' ELSE Claims'
<1>1. PICK task : task = Head(batch[l]).task
  OBVIOUS
<1>2. batch[l] # <<>>
  BY DEF RunFunctor
<1>3. PICK c : c = task.conn
  OBVIOUS
<1> DEFINE w == World(c)
<1>4. /\ task \in Task /\ task = [fn |-> task.fn, conn |-> c]
      /\ Live(c) /\ loop[c] = l /\ task.fn \notin {"startReadInLoop", "stopReadInLoop"}
      /\ c \in kept[l] /\ phase[l] = "functors" /\ active[l] = {}
      /\ Queue(l) \in Seq(EL!Functor) /\ Queue(l) # <<>> /\ Queue(l)[1].task = task
  BY <1>1, <1>2, <1>3, HeadIsLive
<1>5. c \in Conns /\ task.fn \in Fn \ {"startReadInLoop", "stopReadInLoop"}
  BY <1>3, <1>4 DEF Task
<1>6. PICK v : v = RunTask(w, task.fn, u, res)
  OBVIOUS
<1>7. /\ EL!RunFunctor(l, NewsFor(l, "functor", l, v.news), {})
      /\ Commit(v)
      /\ held' = held \/ held' = [t \in Threads |-> held[t] \cup {c}]
      /\ UNCHANGED <<life, loop, revents, next, kept, doing, server, dropped>>
  BY <1>1, <1>3, <1>6 DEF RunFunctor, Publish, stopVars
<1>8. /\ Proper(w) /\ w.news \in Seq(SmallTask(w.c))
      /\ w.c = c /\ w.conn = conn[c] /\ w.poller = poller[l] /\ w.map = map
      /\ w.served = (server = "up") /\ w.failed = "none" /\ w.news = <<>>
  BY <1>4, <1>5, WorldIsProper DEF Proper
<1> HIDE DEF w
<1>9. Does(w, task.fn, v)
  BY <1>5, <1>6, <1>8, RunTaskDoes DEF QuietUsers
<1>10. v \in WorldType /\ v.c = c
  BY <1>8, <1>9 DEF Does, Minor, Closing, Opening, Destroying, Failing, OnlyItsOwn
<1>11. v.news \in Seq(Task)
  BY <1>10, TaskIs DEF WorldType
<1>12. \/ v.news \in Seq(SmallTask(c))
       \/ \E small \in Seq(SmallTask(c)) : v.news = Append(small, DestroyTask(c))
  BY <1>8, <1>9 DEF Does, Minor, Closing, Opening, Destroying, Failing
<1>13. AreOwn(c, v.news)
  BY <1>5, <1>12, NewsAreOwn
<1>14. EL!TypeOK
  BY DEF TypeOK
<1>15. /\ \E fs \in Seq(EL!Functor) : /\ Pushes(c, l, fs) /\ Wraps(fs, v.news)
                                      /\ Queue(l)' = Tail(Queue(l)) \o fs
                                      /\ pending'[l] = pending[l] \o fs
       /\ EL!TypeOK' /\ UNCHANGED <<phase, looping, active>>
       /\ phase[l] = "functors" /\ batch[l] # <<>>
       /\ Queue(l) # <<>> /\ Queue(l)[1] = Head(batch[l])
  <2>1. EL!RunFunctor(l, NewsFor(l, "functor", l, v.news), {})
    BY <1>7
  <2>2. Head(batch[l]).task.conn = c
    BY <1>1, <1>3
  <2> QED BY <1>5, <1>11, <1>13, <1>14, <2>1, <2>2, FunctorIsPush, Zenon
<1>16. PICK fs \in Seq(EL!Functor) : /\ Pushes(c, l, fs) /\ Wraps(fs, v.news)
                                     /\ Queue(l)' = Tail(Queue(l)) \o fs
  BY <1>15
<1>17. /\ life' \in [Conns -> {"none", "backlog", "live", "gone"}]
       /\ revents' \in [Conns -> SUBSET {"IN", "OUT", "HUP", "ERR"}]
       /\ next' \in (IF Pool = <<>> THEN {0} ELSE 0 .. Len(Pool) - 1)
       /\ held' \in [Threads -> SUBSET Conns]
       /\ \A t \in Threads : held'[t] = held[t] \/ held'[t] = held[t] \cup {c}
  BY <1>5, <1>7 DEF TypeOK
<1>18. \A k \in Loops : active'[k] \subseteq active[k] /\ c \notin active'[k]
  <2> SUFFICES ASSUME NEW k \in Loops PROVE c \notin active[k]
    BY <1>15
  <2> QED BY <1>4, <1>5 DEF Core, ActiveAreOpen
<1>19. InPlace(c, l, Queue(l))
  BY <1>4, <1>5 DEF Core, ConnsInOrder, ConnInOrder, InPlace
<1>20. CommitOn(l, v)
  BY <1>4, <1>7, <1>10 DEF Commit
<1>21. CASE Failing(w, v)
  <2>1. task.fn = "connectDestroyed" => CannotRemove(w)
    BY <1>8, <1>9, <1>21 DEF Does, Failing, Destroying, Sound
  <2>2. task.fn = "connectEstablished" => w.conn.state # "kConnecting"
    BY <1>9, <1>21 DEF Does, Failing, Opening, Sound
  <2>3. task.fn \in {"connectEstablished", "connectDestroyed"}
    <3>1. ~Minor(w, v)
      BY <1>8, <1>21 DEF Failing, Minor, Sound, Proper
    <3>2. ~Closing(w, v)
      BY <1>21 DEF Failing, Closing, IsOpen
    <3> QED BY <1>9, <3>1, <3>2 DEF Does
  <2>4. 1 \in DOMAIN Queue(l)
    BY <1>4, EmptySeq, LenProperties
  <2>5. task.fn # "connectEstablished"
    <3> SUFFICES ASSUME task.fn = "connectEstablished" PROVE FALSE
      OBVIOUS
    <3>1. task = EstablishTask(c)
      BY <1>4 DEF EstablishTask
    <3>2. ~Absent(Queue(l), EstablishTask(c))
      BY <1>4, <2>4, <3>1 DEF Absent
    <3> QED BY <1>8, <1>19, <2>2, <3>2 DEF InPlace, InOrder
  <2>6. c \in dropped /\ l # Base
    <3>1. task = DestroyTask(c)
      BY <1>4, <2>3, <2>5 DEF DestroyTask
    <3>2. ~Absent(Queue(l), DestroyTask(c))
      BY <1>4, <2>4, <3>1 DEF Absent
    <3> QED BY <1>8, <1>19, <2>1, <2>3, <2>5, <3>2 DEF InPlace, InOrder, CannotRemove
  <2>7. Claims'
    BY <1>4, <1>5, <1>7, <1>15, <1>17, <1>18, <1>20, <1>21, <2>6, FailedRemovalClaims DEF w
  <2>8. failed' # "none"
    BY <1>20, <1>21 DEF CommitOn, FailureOf, Failing
  <2> QED BY <2>7, <2>8
<1>22. CASE ~Failing(w, v)
  <2>1. \/ /\ task.fn \notin {"connectEstablished", "connectDestroyed"}
           /\ Minor(w, v) \/ Closing(w, v)
        \/ task.fn = "connectEstablished" /\ Opening(w, v)
        \/ task.fn = "connectDestroyed" /\ Destroying(w, v)
    BY <1>9, <1>22 DEF Does
  <2>2. Healthy(w, v)
    BY <1>8, <2>1, HealthyIfMinor, HealthyOtherwise
  <2>3. Ran(c, l, w, v)
    BY <1>4, <1>5, <1>7, <2>2, WorldRan DEF w
  <2>4. TypeOK'
    <3>1. EL!TypeOK' /\ UNCHANGED <<kept, doing, server, dropped>>
      BY <1>7, <1>15
    <3> QED BY <1>5, <1>17, <2>3, <3>1, RanTypes, Zenon
  <2>5. failed' = v.failed
    BY <1>5, <2>3, RanObjects
  <2>6. CASE v.failed # "none"
    <3>1. Closing(w, v) /\ ~w.served
      BY <1>8, <2>1, <2>6 DEF Minor, Closing, Opening, Destroying
    <3>2. l # Base
      BY <1>4, <1>8, <3>1 DEF Core, EndInOrder
    <3>3. Claims'
      BY <1>4, <1>5, <1>7, <1>8, <1>18, <2>3, <2>4, <2>6, <3>1, <3>2, FailedCloseClaims
    <3> QED BY <2>5, <2>6, <3>3
  <2>7. CASE v.failed = "none"
    <3>1. LeftInPlace(c, l, v, Tail(Queue(l)) \o fs) /\ v.map \in {map, map \ {c}}
      <4>1. Queue(l)[1].task = [fn |-> task.fn, conn |-> c]
        BY <1>4
      <4>2. l = loop[c] /\ fs \in Seq(EL!Functor) /\ Wraps(fs, v.news)
        BY <1>4, <1>16
      <4> QED BY <1>4, <1>5, <1>19, <2>1, <2>7, <4>1, <4>2, FunctorInOrder DEF w
    <3>2. Referenced(c)'
      BY <1>4, <1>7 DEF Referenced
    <3>3. OneLoop'
      BY <1>7 DEF Core, OneLoop
    <3>4. server # "up" => c \notin v.map
      BY <3>1 DEF Core, EndInOrder
    <3>5. Core'
      <4>1. LeftInPlace(c, l, v, Queue(l)')
        BY <1>16, <3>1
      <4>2. \A d \in Conns \ {c} : d \in v.map <=> d \in map
        BY <3>1
      <4>3. UNCHANGED <<phase, kept, doing, server, dropped>>
        BY <1>7, <1>15
      <4>4. \A d \in Conns : life[d] = "gone" => life'[d] = "gone"
        BY <1>7
      <4> QED BY <1>5, <1>16, <1>17, <1>18, <2>3, <3>2, <3>3, <3>4, <4>1, <4>2, <4>3, <4>4,
                 RanCore
    <3> QED BY <2>4, <2>5, <2>7, <3>5
  <2> QED BY <2>6, <2>7
<1> QED BY <1>21, <1>22

-----------------------------------------------------------------------------
(* TcpServer::newConnection().                                             *)

\* The world of a connection that was just constructed.
IsFreshWorld(w, c, l, f) ==
  w = [c |-> c, conn |-> NewConnection, poller |-> OpenChannel(poller[l], c, f), news |-> <<>>,
       timers |-> timers[l], map |-> map \cup {c}, served |-> TRUE, failed |-> "none"]

LEMMA FreshIsProper ==
  ASSUME TypeOK, Core, NEW c \in Conns, ~Live(c), NEW l \in Loops, NEW f \in Fd, FreeFd(f),
         NEW w, IsFreshWorld(w, c, l, f)
  PROVE  /\ Proper(w) /\ w.news \in Seq(SmallTask(w.c)) /\ w.news = <<>>
         /\ w.c = c /\ w.conn.state = "kConnecting" /\ w.map = map \cup {c}
         /\ w.timers = timers[l] /\ OnlyChanges(c, poller[l], w.poller)
         /\ w.poller.fd[c] # None /\ w.failed = "none"
<1> DEFINE p == OpenChannel(poller[l], c, f)
<1>1. /\ Sound(poller[l]) /\ poller[l].fd[c] = None /\ c \in Channel
      /\ \A d \in Channel : poller[l].fd[d] # f
  BY DEF Core, PollersSound, FreeFd, Conns
<1>2. /\ Sound(p) /\ p.fd = [poller[l].fd EXCEPT ![c] = f] /\ p.events[c] = {}
      /\ p.index[c] = "new" /\ OnlyChanges(c, poller[l], p)
  BY <1>1, OpenSound
<1> HIDE DEF p
<1>3. poller[l].fd \in [Channel -> Fd \cup {None}]
  BY <1>1 DEF Sound, PollerType
<1>4. p.fd[c] # None
  BY <1>1, <1>2, <1>3, NoneAssumption
<1>5. p \in PollerType
  BY <1>2 DEF Sound
<1>6. NewConnection \in Connection /\ NewConnection.state = "kConnecting"
  BY ConnectionAssumption DEF NewConnection, Connection, State, Socket
<1>7. timers[l] \subseteq Channel /\ map \cup {c} \subseteq Channel
  BY <1>1 DEF TypeOK, Conns
<1>8. \A S : <<>> \in Seq(S)
  BY EmptySeq
<1>9. w = [c |-> c, conn |-> NewConnection, poller |-> p, news |-> <<>>,
            timers |-> timers[l], map |-> map \cup {c}, served |-> TRUE, failed |-> "none"]
  BY DEF IsFreshWorld, p
<1> HIDE DEF NewConnection
<1>10. w \in WorldType
  BY <1>1, <1>5, <1>6, <1>7, <1>8, <1>9 DEF WorldType, Failure
<1>11. ChannelInStep("kConnecting", p, c)
  BY <1>2 DEF ChannelInStep
<1>12. Proper(w)
  BY <1>2, <1>4, <1>6, <1>9, <1>10, <1>11 DEF Proper
<1>13. <<>> \in Seq(SmallTask(c))
  BY <1>8
<1> QED BY <1>2, <1>4, <1>6, <1>9, <1>12, <1>13

\* connectEstablished() is called, or queued on the loop of the connection.
FirstTask(w, l, u, res) ==
  IF l = Base THEN ConnectEstablished(w, u, res) ELSE QueueInLoop(w, "connectEstablished")

\* As functors, the tasks establish c on a loop that is not the Acceptor's.
QueuesFirst(c, l, tasks) ==
  \A fs : Wraps(fs, tasks) =>
     /\ IF l = Base THEN Absent(fs, EstablishTask(c)) ELSE Once(fs, EstablishTask(c))
     /\ Absent(fs, DestroyTask(c))

FirstDone(w, v, c, l) ==
  /\ Healthy(w, v) /\ v.failed = "none" /\ v.map = w.map /\ v.c = c
  /\ v.news \in Seq(Task) /\ AreOwn(c, v.news) /\ QueuesFirst(c, l, v.news)
  /\ v.conn.state \in (IF l = Base THEN OpenState ELSE {"kConnecting"})

LEMMA FirstTaskDoes ==
  ASSUME QuietUsers, NEW c \in Conns, NEW l, NEW u, NEW res \in WriteResult,
         NEW w, Proper(w), w.news = <<>>, w.news \in Seq(SmallTask(w.c)),
         w.c = c, w.conn.state = "kConnecting"
  PROVE  FirstDone(w, FirstTask(w, l, u, res), c, l)
<1> SUFFICES ASSUME NEW v, v = FirstTask(w, l, u, res) PROVE FirstDone(w, v, c, l)
  OBVIOUS
<1>1. w \in WorldType /\ w.failed = "none" /\ Sound(w.poller)
      /\ ChannelInStep(w.conn.state, w.poller, w.c)
  BY DEF Proper
<1>2. CASE l = Base
  <2>1. Opening(w, v)
    BY <1>2, ConnectEstablishedOpens DEF FirstTask, QuietUsers
  <2>2. /\ v \in WorldType /\ v.c = c /\ v.failed = "none" /\ v.map = w.map
        /\ v.conn.state \in OpenState /\ v.news \in Seq(SmallTask(c))
    BY <2>1 DEF Opening, OnlyItsOwn, OpenState
  <2>3. v.news \in Seq(Task)
    BY <2>2, TaskIs DEF WorldType
  <2>4. \A fs : Wraps(fs, v.news) => Absent(fs, EstablishTask(c)) /\ Absent(fs, DestroyTask(c))
    BY <2>2, SmallNews
  <2>5. Healthy(w, v) /\ AreOwn(c, v.news)
    BY <2>1, <2>2, HealthyOtherwise, NewsAreOwn
  <2> QED BY <1>2, <2>2, <2>3, <2>4, <2>5 DEF QueuesFirst, FirstDone
<1>3. CASE l # Base
  <2> DEFINE task == [fn |-> "connectEstablished", conn |-> w.c]
             news == Append(w.news, task)
  <2>1. v = [w EXCEPT !.news = news]
    BY <1>3 DEF FirstTask, QueueInLoop
  <2>2. task \in Task /\ task = EstablishTask(c) /\ task # DestroyTask(c)
        /\ task.conn = c /\ task.fn \notin {"startReadInLoop", "stopReadInLoop"}
    BY DEF Task, Fn, EstablishTask, DestroyTask
  <2> HIDE DEF task
  <2>3. news = <<task>> /\ news \in Seq(Task)
    BY <2>2, EmptySeq
  <2> HIDE DEF news
  <2>4. /\ v \in WorldType /\ v.c = c /\ v.failed = "none" /\ v.map = w.map
        /\ v.conn = w.conn /\ v.news = news /\ v.poller = w.poller
        /\ v.served = w.served /\ v.timers = w.timers
    BY <1>1, <2>1, <2>3, TaskIs DEF WorldType
  <2>5. Healthy(w, v)
    BY <1>1, <2>4 DEF Healthy, OnlyItsOwn, OnlyChanges, Sound
  <2>6. DOMAIN v.news = {1} /\ v.news[1] = task
    BY <2>3, <2>4
  <2>7. AreOwn(c, v.news)
    BY <2>2, <2>6 DEF AreOwn
  <2>8. \A fs : Wraps(fs, v.news) => Once(fs, EstablishTask(c)) /\ Absent(fs, DestroyTask(c))
    BY <2>2, <2>6 DEF Wraps, Once, Absent
  <2> QED BY <1>3, <2>3, <2>4, <2>5, <2>7, <2>8 DEF QueuesFirst, FirstDone
<1> QED BY <1>2, <1>3

LEMMA AcceptStep ==
  ASSUME QuietUsers, TypeOK, Core, NEW c \in Conns, life[c] = "backlog", NEW f \in Fd,
         FreeFd(f), NEW u, NEW res \in WriteResult, Accept(c, f, u, res)
  PROVE  failed' = "none" /\ TypeOK' /\ Core'
<1>1. PICK l : l = IF Pool = <<>> THEN Base ELSE Pool[next + 1]
  OBVIOUS
<1>2. PICK w : IsFreshWorld(w, c, l, f)
  BY DEF IsFreshWorld
<1>3. PICK v : v = FirstTask(w, l, u, res)
  OBVIOUS
<1>4. /\ EL!HandleEvent(Base, "listen", NewsFor(Base, "handler", l, v.news), {})
      /\ life' = [life EXCEPT ![c] = "live"]
      /\ loop' = [loop EXCEPT ![c] = l]
      /\ CommitOn(l, v)
      /\ next' = NextOf(next)
      /\ held' = held \/ held' = [t \in Threads |-> held[t] \cup {c}]
      /\ UNCHANGED <<revents, kept, doing, server, dropped>>
  BY <1>1, <1>2, <1>3 DEF Accept, IsFreshWorld, FirstTask, Publish, stopVars
<1>5. l \in Loops /\ Base \in Loops /\ (Pool = <<>> => l = Base)
      /\ next' \in (IF Pool = <<>> THEN {0} ELSE 0 .. Len(Pool) - 1)
  <2>1. CASE Pool = <<>>
    BY <1>1, <1>4, <2>1, ServerAssumption DEF NextOf
  <2>2. CASE Pool # <<>>
    <3>1. Pool \in Seq(Loops) /\ Len(Pool) \in Nat \ {0} /\ next \in 0 .. Len(Pool) - 1
      BY <2>2, ServerAssumption, EmptySeq, LenProperties DEF TypeOK
    <3>2. l = Pool[next + 1] /\ next + 1 \in 1 .. Len(Pool) /\ next' = (next + 1) % Len(Pool)
      BY <1>1, <1>4, <2>2, <3>1 DEF NextOf
    <3>3. l \in Loops
      BY <3>1, <3>2
    <3>4. next' \in 0 .. Len(Pool) - 1
      BY <3>1, <3>2
    <3> QED BY <2>2, <3>3, <3>4, ServerAssumption
  <2> QED BY <2>1, <2>2
<1>6. ~Live(c)
  BY DEF Live
<1>7. /\ Proper(w) /\ w.news \in Seq(SmallTask(w.c)) /\ w.news = <<>>
      /\ w.c = c /\ w.conn.state = "kConnecting" /\ w.map = map \cup {c}
      /\ w.timers = timers[l] /\ OnlyChanges(c, poller[l], w.poller)
      /\ w.poller.fd[c] # None /\ w.failed = "none"
  BY <1>2, <1>5, <1>6, FreshIsProper
<1>8. /\ Healthy(w, v) /\ v.failed = "none" /\ v.map = w.map /\ v.c = c
      /\ v.news \in Seq(Task) /\ AreOwn(c, v.news)
      /\ v.conn.state \in (IF l = Base THEN OpenState ELSE {"kConnecting"})
      /\ QueuesFirst(c, l, v.news)
  <2>1. FirstDone(w, FirstTask(w, l, u, res), c, l)
    BY <1>7, FirstTaskDoes
  <2> QED BY <1>3, <2>1 DEF FirstDone
<1>9. EL!TypeOK
  BY DEF TypeOK
<1>10. /\ \E fs \in Seq(EL!Functor) : /\ Pushes(c, l, fs) /\ Wraps(fs, v.news)
                                      /\ Queue(l)' = Queue(l) \o fs
                                      /\ pending'[l] = pending[l] \o fs
       /\ EL!TypeOK' /\ UNCHANGED <<phase, looping, batch>>
       /\ phase[Base] = "events" /\ "listen" \in active[Base]
       /\ /\ active'[Base] = active[Base] \ {"listen"}
          /\ \A k \in Loops \ {Base} : active'[k] = active[k]
  <2>1. EL!HandleEvent(Base, "listen", NewsFor(Base, "handler", l, v.news), {})
    BY <1>4
  <2>2. l \in Loops /\ Base \in Loops /\ v.news \in Seq(Task) /\ AreOwn(c, v.news)
    BY <1>5, <1>8
  <2> QED BY <1>9, <2>1, <2>2, HandlerIsPush, Zenon
<1>11. PICK fs \in Seq(EL!Functor) : /\ Pushes(c, l, fs) /\ Wraps(fs, v.news)
                                     /\ Queue(l)' = Queue(l) \o fs
  BY <1>10
<1>12. /\ life \in [Conns -> {"none", "backlog", "live", "gone"}]
       /\ held \in [Threads -> SUBSET Conns]
  BY DEF TypeOK
<1>13. /\ life' \in [Conns -> {"none", "backlog", "live", "gone"}]
       /\ revents' \in [Conns -> SUBSET {"IN", "OUT", "HUP", "ERR"}]
       /\ held' \in [Threads -> SUBSET Conns]
       /\ \A t \in Threads : held'[t] = held[t] \/ held'[t] = held[t] \cup {c}
       /\ life'[c] = "live" /\ \A d \in Conns \ {c} : life'[d] = life[d]
  BY <1>4, <1>12 DEF TypeOK
<1>14. Ran(c, l, w, v)
  BY <1>4, <1>6, <1>7, <1>8, <1>13 DEF Ran, Live
<1>15. TypeOK'
  <2>1. EL!TypeOK' /\ UNCHANGED <<kept, doing, server, dropped>>
    BY <1>4, <1>10
  <2> QED BY <1>5, <1>13, <1>14, <2>1, RanTypes, Zenon
<1>16. failed' = v.failed /\ map' = v.map /\ loop'[c] = l
       /\ \A d \in Conns \ {c} : loop'[d] = loop[d]
  BY <1>5, <1>14, RanObjects
<1>17. c \notin dropped /\ server = "up"
  BY <1>10 DEF Core, EndInOrder
<1>18. LeftInPlace(c, l, v, Queue(l)')
  <2> DEFINE est == EstablishTask(c)
             des == DestroyTask(c)
  <2>1. Queue(l) \in Seq(EL!Functor)
    BY <1>5, <1>9, QueueType
  <2>2. Absent(Queue(l), est) /\ Absent(Queue(l), des)
    BY <1>5, <1>6 DEF Core, QueuesAreLive, Absent, EstablishTask, DestroyTask
  <2>3. \A s, t \in Seq(EL!Functor) : \A task :
          /\ Absent(s \o t, task) <=> Absent(s, task) /\ Absent(t, task)
          /\ Absent(s, task) /\ Once(t, task) => Once(s \o t, task)
    BY ConcatTasks
  <2>4. /\ IF l = Base THEN Absent(fs, est) ELSE Once(fs, est)
        /\ Absent(fs, des)
    BY <1>8, <1>11 DEF QueuesFirst
  <2>5. /\ IF l = Base THEN Absent(Queue(l) \o fs, est) ELSE Once(Queue(l) \o fs, est)
        /\ Absent(Queue(l) \o fs, des)
    BY <2>1, <2>2, <2>3, <2>4
  <2> HIDE DEF est, des
  <2>6. LeftInPlace(c, l, v, Queue(l) \o fs)
    BY <1>7, <1>8, <1>17, <2>5 DEF LeftInPlace, InOrder, OpenState, est, des
  <2> QED BY <1>11, <2>6
<1>19. Referenced(c)'
  BY <1>7, <1>8, <1>16 DEF Referenced
<1>20. OneLoop'
  BY <1>5, <1>16 DEF Core, OneLoop
<1>21. \A k \in Loops : active'[k] \subseteq active[k] /\ c \notin active'[k]
  <2> SUFFICES ASSUME NEW k \in Loops PROVE c \notin active[k] /\ active'[k] \subseteq active[k]
    OBVIOUS
  <2> QED BY <1>6, <1>10 DEF Core, ActiveAreOpen
<1>22. Core'
  <2>1. \A d \in Conns \ {c} : d \in v.map <=> d \in map
    BY <1>7, <1>8
  <2>2. UNCHANGED <<phase, kept, doing, server, dropped>>
    BY <1>4, <1>10
  <2>3. \A d \in Conns : life[d] = "gone" => life'[d] = "gone"
    BY <1>13
  <2> QED BY <1>5, <1>11, <1>13, <1>14, <1>17, <1>18, <1>19, <1>20, <1>21, <2>1, <2>2, <2>3,
             RanCore
<1> QED BY <1>8, <1>15, <1>16, <1>22

-----------------------------------------------------------------------------
(* Steps that queue one functor and run nothing.                           *)

\* The queue r is q with the task added.
Gains(r, q, task) ==
  /\ ~Absent(r, task)
  /\ \A other : other # task => /\ Absent(r, other) <=> Absent(q, other)
                                /\ Once(q, other) => Once(r, other)

LEMMA TaskPushed ==
  ASSUME EL!TypeOK, NEW c \in Conns, NEW l \in Loops, NEW t \in Loops \cup Threads,
         NEW task \in Task, task.conn = c,
         task.fn \notin {"startReadInLoop", "stopReadInLoop"},
         EL!QueueInLoop(t, l, task)
  PROVE  /\ EL!TypeOK' /\ UNCHANGED <<phase, looping, batch, active>>
         /\ \E fs : Pushes(c, l, fs)
         /\ c \in ConnsOf(pending'[l])
         /\ \E r : r = Queue(l)' /\ Gains(r, Queue(l), task)
<1>1. /\ EL!TypeOK' /\ UNCHANGED <<phase, looping, batch, active>>
      /\ \E f \in EL!Functor :
            /\ f.task = task
            /\ <<f>> \in Seq(EL!Functor)
            /\ pending'[l] = pending[l] \o <<f>>
            /\ Queue(l)' = Queue(l) \o <<f>>
      /\ \A k \in Loops \ {l} : pending'[k] = pending[k] /\ Queue(k)' = Queue(k)
  BY QueueInLoopPushes
<1>2. PICK f \in EL!Functor : /\ f.task = task
                              /\ <<f>> \in Seq(EL!Functor)
                              /\ pending'[l] = pending[l] \o <<f>>
                              /\ Queue(l)' = Queue(l) \o <<f>>
  BY <1>1
<1> DEFINE fs == <<f>>
           q == Queue(l)
<1>3. DOMAIN fs = {1} /\ fs[1] = f
  OBVIOUS
<1>4. fs \in Seq(EL!Functor) /\ pending'[l] = pending[l] \o fs /\ q' = q \o fs
  BY <1>2
<1>5. q \in Seq(EL!Functor) /\ pending[l] \in Seq(EL!Functor)
  BY QueueType
<1> HIDE DEF fs
<1>6. Pushes(c, l, fs)
  BY <1>1, <1>2, <1>3, <1>4 DEF Pushes
<1>7. c \in ConnsOf(pending'[l])
  <2>1. \A s, u \in Seq(EL!Functor) : ConnsOf(s \o u) = ConnsOf(s) \cup ConnsOf(u)
    BY ConnsOfConcat
  <2>2. c \in ConnsOf(fs)
    BY <1>2, <1>3 DEF ConnsOf
  <2> QED BY <1>4, <1>5, <2>1, <2>2
<1>8. \A s, u \in Seq(EL!Functor) : \A k :
        /\ Absent(s \o u, k) <=> Absent(s, k) /\ Absent(u, k)
        /\ Once(s, k) /\ Absent(u, k) => Once(s \o u, k)
  BY ConcatTasks
<1>9. /\ ~Absent(fs, task)
      /\ \A other : other # task => Absent(fs, other)
  BY <1>2, <1>3 DEF Absent
<1>10. PICK r : r = Queue(l)' /\ r = q \o fs
  BY <1>4
<1>11. ~Absent(r, task)
  BY <1>4, <1>5, <1>8, <1>9, <1>10
<1>12. \A other : other # task => /\ Absent(r, other) <=> Absent(q, other)
                                  /\ Once(q, other) => Once(r, other)
  BY <1>4, <1>5, <1>8, <1>9, <1>10
<1>13. Gains(r, q, task)
  BY <1>11, <1>12 DEF Gains
<1> QED BY <1>1, <1>6, <1>7, <1>10, <1>13

\* A thread of the user queues the functor of its send().
LEMMA FinishCallStep ==
  ASSUME QuietUsers, TypeOK, Core, NEW t \in Threads, FinishCall(t)
  PROVE  failed' = failed /\ TypeOK' /\ Core'
<1>1. PICK c : c = doing[t].conn
  OBVIOUS
<1>2. doing[t] # Idle
  BY DEF FinishCall, Idle
<1>3. c \in Conns /\ doing[t].op = "send"
  BY <1>1, <1>2 DEF Core, CallsAreQuiet, QuietUsers
<1>4. PICK l : l = loop[c]
  OBVIOUS
<1>5. l \in Loops
  BY <1>3, <1>4, StateType
<1> DEFINE task == [fn |-> "sendInLoop", conn |-> c]
<1>6. /\ task \in Task /\ task.conn = c /\ task.fn \notin {"startReadInLoop", "stopReadInLoop"}
      /\ task # EstablishTask(c) /\ task # DestroyTask(c)
  BY <1>3 DEF Task, Fn, EstablishTask, DestroyTask
<1>7. /\ EL!QueueInLoop(t, l, task)
      /\ doing' = [doing EXCEPT ![t] = Idle]
      /\ UNCHANGED <<conn, poller, timers, map, failed, life, loop, revents, next, kept, held,
                     server, dropped>>
  BY <1>1, <1>3, <1>4 DEF FinishCall, FnOf, objVars, stopVars
<1> HIDE DEF task
<1>8. EL!TypeOK
  BY DEF TypeOK
<1>9. /\ EL!TypeOK' /\ UNCHANGED <<phase, looping, batch, active>>
      /\ \E fs : Pushes(c, l, fs)
      /\ c \in ConnsOf(pending'[l])
      /\ \E r : r = Queue(l)' /\ Gains(r, Queue(l), task)
  BY <1>3, <1>5, <1>6, <1>7, <1>8, TaskPushed
<1>10. PICK fs : Pushes(c, l, fs)
  BY <1>9
<1>11. /\ doing'[t] = Idle /\ \A k \in Threads \ {t} : doing'[k] = doing[k]
       /\ doing' \in [Threads -> [op : Op, conn : Conns \cup {None}, stored : BOOLEAN]]
  <2>1. Idle \in [op : Op, conn : Conns \cup {None}, stored : BOOLEAN]
    BY DEF Idle, Op
  <2> QED BY <1>7, <2>1 DEF TypeOK
<1>12. TypeOK'
  BY <1>7, <1>9, <1>11 DEF TypeOK
<1>13. Live(c)
  BY <1>1, <1>3 DEF Core, ReferencedAreLive, Referenced
<1>14. OthersAlone(c)
  <2> SUFFICES ASSUME NEW d \in Conns \ {c} PROVE Bound(d)' <=> Bound(d)
    BY <1>7 DEF OthersAlone, Live
  <2>1. d # None
    BY NoneAssumption DEF Conns
  <2>2. \A k \in Threads : d \in held'[k] \/ doing'[k].conn = d
                           <=> d \in held[k] \/ doing[k].conn = d
    BY <1>1, <1>7, <1>11, <2>1 DEF Idle
  <2> QED BY <1>7, <2>2 DEF Bound
<1>15. PollersSound' /\ ChannelsInStep' /\ OneLoop'
  BY <1>7 DEF Core, PollersSound, ChannelsInStep, OneLoop, Live
<1>16. CallsAreQuiet'
  BY <1>11 DEF Core, CallsAreQuiet
<1>17. Referenced(c)'
  BY <1>5, <1>9 DEF Referenced
<1>18. InOrder(c, conn'[c].state, poller'[l].index[c] # "new", c \in map', c \in dropped',
               l = Base, Queue(l)')
  <2>1. PICK r : r = Queue(l)' /\ Gains(r, Queue(l), task)
    BY <1>9
  <2>2. \A other \in {EstablishTask(c), DestroyTask(c)} :
          /\ Absent(r, other) <=> Absent(Queue(l), other)
          /\ Once(Queue(l), other) => Once(r, other)
    BY <1>6, <2>1 DEF Gains
  <2>3. InPlace(c, l, Queue(l))
    BY <1>3, <1>4, <1>13 DEF Core, ConnsInOrder, ConnInOrder, InPlace
  <2>4. InPlace(c, l, r)
    BY <2>2, <2>3 DEF InPlace, InOrder
  <2> QED BY <1>7, <2>1, <2>4 DEF InPlace
<1>19. /\ dropped' \subseteq Conns
       /\ dropped' # {} \/ server' # "up" => phase[Base] = "exited"
       /\ server' # "up" => map' = {}
  BY <1>7 DEF TypeOK, Core, EndInOrder
<1>20. \A k \in Loops : /\ active'[k] \subseteq active[k]
                        /\ c \in active'[k] => Live(c) /\ conn'[c].state \in OpenState
  BY <1>3, <1>7, <1>9 DEF Core, ActiveAreOpen
<1>21. Live(c)' /\ loop'[c] = l
  BY <1>4, <1>7, <1>13 DEF Live
<1>22. phase' = phase /\ kept' = kept /\ (Live(c) => loop[c] = l)
  BY <1>4, <1>7, <1>9
<1>23. Core'
  BY <1>3, <1>5, <1>10, <1>14, <1>15, <1>16, <1>17, <1>18, <1>19, <1>20, <1>21, <1>22,
     OneConnection
<1> QED BY <1>7, <1>12, <1>23

\* ~TcpServer() leaves connectDestroyed() of a connection to its loop.
LEMMA DropThereStep ==
  ASSUME TypeOK, Core, NEW c \in Conns, c \in map, phase[Base] = "exited", DropThere(c),
         dropped' = dropped \cup {c}, UNCHANGED <<loop, revents, next, server>>
  PROVE  failed' = failed /\ TypeOK' /\ Core'
<1>1. PICK l : l = loop[c]
  OBVIOUS
<1>2. l \in Loops /\ l # Base
  BY <1>1, StateType DEF DropThere
<1> DEFINE task == DestroyTask(c)
<1>3. /\ task \in Task /\ task.conn = c /\ task.fn \notin {"startReadInLoop", "stopReadInLoop"}
      /\ task # EstablishTask(c)
  BY DEF Task, Fn, EstablishTask, DestroyTask
<1>4. /\ EL!QueueInLoop(Base, l, task)
      /\ map' = map \ {c}
      /\ dropped' = dropped \cup {c}
      /\ UNCHANGED <<conn, poller, timers, failed, life, loop, revents, next, kept, held, doing,
                     server>>
  BY <1>1 DEF DropThere, DestroyTask, userVars
<1> HIDE DEF task
<1>5. EL!TypeOK /\ Base \in Loops
  BY ServerAssumption DEF TypeOK
<1>6. /\ EL!TypeOK' /\ UNCHANGED <<phase, looping, batch, active>>
      /\ \E fs : Pushes(c, l, fs)
      /\ c \in ConnsOf(pending'[l])
      /\ \E r : r = Queue(l)' /\ Gains(r, Queue(l), task)
  BY <1>2, <1>3, <1>4, <1>5, TaskPushed
<1>7. PICK fs : Pushes(c, l, fs)
  BY <1>6
<1>8. TypeOK'
  BY <1>4, <1>6 DEF TypeOK
<1>9. Live(c)
  BY DEF Core, ReferencedAreLive, Referenced
<1>10. OthersAlone(c)
  BY <1>4 DEF OthersAlone, Live, Bound
<1>11. PollersSound' /\ ChannelsInStep' /\ OneLoop' /\ CallsAreQuiet'
  BY <1>4 DEF Core, PollersSound, ChannelsInStep, OneLoop, CallsAreQuiet, Live
<1>12. Referenced(c)'
  BY <1>2, <1>6 DEF Referenced
<1>13. InOrder(c, conn'[c].state, poller'[l].index[c] # "new", c \in map', c \in dropped',
               l = Base, Queue(l)')
  <2>1. PICK r : r = Queue(l)' /\ Gains(r, Queue(l), task)
    BY <1>6
  <2>2. /\ Absent(r, EstablishTask(c)) <=> Absent(Queue(l), EstablishTask(c))
        /\ Once(Queue(l), EstablishTask(c)) => Once(r, EstablishTask(c))
        /\ ~Absent(r, DestroyTask(c))
    BY <1>3, <2>1 DEF Gains, task
  <2>3. InPlace(c, l, Queue(l))
    BY <1>1, <1>9 DEF Core, ConnsInOrder, ConnInOrder, InPlace
  <2>4. InOrder(c, conn[c].state, poller[l].index[c] # "new", FALSE, TRUE, FALSE, r)
    BY <1>2, <2>2, <2>3 DEF InPlace, InOrder
  <2>5. InOrder(c, conn[c].state, poller[l].index[c] # "new", c \in map \ {c},
                c \in dropped \cup {c}, l = Base, r)
    BY <1>2, <2>4 DEF InOrder
  <2> QED BY <1>4, <2>1, <2>5
<1>14. /\ dropped' \subseteq Conns
       /\ dropped' # {} \/ server' # "up" => phase[Base] = "exited"
       /\ server' # "up" => map' = {}
  BY <1>4 DEF TypeOK, Core, EndInOrder
<1>15. \A k \in Loops : /\ active'[k] \subseteq active[k]
                        /\ c \in active'[k] => Live(c) /\ conn'[c].state \in OpenState
  BY <1>4, <1>6 DEF Core, ActiveAreOpen
<1>16. /\ Live(c)' /\ loop'[c] = l /\ (Live(c) => loop[c] = l)
       /\ phase' = phase /\ kept' = kept
  BY <1>1, <1>4, <1>6, <1>9 DEF Live
<1>17. Core'
  BY <1>2, <1>7, <1>10, <1>11, <1>12, <1>13, <1>14, <1>15, <1>16, OneConnection
<1> QED BY <1>4, <1>8, <1>17

\* What RemovedOnce says of connection c.
RemovedAs(c, stage, index, queue) ==
  LET coming == {i \in DOMAIN queue : queue[i].task = [fn |-> "connectDestroyed", conn |-> c]}
  IN  IF stage = "down" /\ index # "new" THEN \E i \in DOMAIN queue : coming = {i}
      ELSE coming = {}

\* ~TcpServer() calls connectDestroyed() of a connection of its own loop.
LEMMA DropHereStep ==
  ASSUME QuietUsers, TypeOK, Core, failed = "none", NEW c \in Conns, c \in map,
         phase[Base] = "exited", NEW u, NEW res \in WriteResult, DropHere(c, u, res),
         dropped' = dropped \cup {c}, UNCHANGED <<loop, revents, next, server>>
  PROVE  IF failed' = "none" THEN TypeOK' /\ Core' ELSE Claims'
<1>1. PICK w : w = [World(c) EXCEPT !.map = @ \ {c}]
  OBVIOUS
<1>2. PICK v : v = ConnectDestroyed(w, u, res)
  OBVIOUS
<1>3. /\ loop[c] = Base
      /\ conn' = [conn EXCEPT ![c] = v.conn]
      /\ map' = v.map
      /\ UNCHANGED <<loopVars, timers, kept, userVars>>
      /\ IF FailureOf(v) = "none"
         THEN DestroyUnreferenced([poller EXCEPT ![Base] = v.poller])
         ELSE failed' = FailureOf(v) /\ UNCHANGED <<poller, life>>
  BY <1>1, <1>2 DEF DropHere
<1>4. Live(c)
  BY DEF Core, ReferencedAreLive, Referenced
<1>5. /\ Proper(w) /\ w.news \in Seq(SmallTask(w.c)) /\ w.c = c /\ w.conn = conn[c]
      /\ w.poller = poller[Base] /\ w.map = map \ {c}
  <2>1. PICK x : x = World(c)
    OBVIOUS
  <2>2. /\ Proper(x) /\ x.news \in Seq(SmallTask(x.c)) /\ x.c = c /\ x.conn = conn[c]
        /\ x.poller = poller[Base] /\ x.map = map
    BY <1>3, <1>4, <2>1, WorldIsProper
  <2>3. x \in WorldType
    BY <2>2 DEF Proper
  <2>4. w = [x EXCEPT !.map = @ \ {c}]
    BY <1>1, <2>1
  <2>5. /\ w \in WorldType /\ w.c = c /\ w.conn = x.conn /\ w.poller = x.poller
        /\ w.map = map \ {c} /\ w.news = x.news /\ w.failed = x.failed
    BY <2>2, <2>3, <2>4 DEF WorldType
  <2> QED BY <2>2, <2>5 DEF Proper
<1>6. IF CannotRemove(w) THEN Failing(w, v) ELSE Destroying(w, v)
  <2>1. QuietCallbacks
    BY DEF QuietUsers
  <2> QED BY <1>2, <1>5, <2>1, ConnectDestroyedDestroys
<1>7. InPlace(c, Base, Queue(Base)) /\ Base \in Loops
  BY <1>3, <1>4, ServerAssumption DEF Core, ConnsInOrder, ConnInOrder, InPlace
<1>8. conn[c].state \in OpenState
  BY <1>7, StateType DEF InPlace, InOrder, State, OpenState
<1>9. UNCHANGED <<phase, looping, pending, batch, calling, active, eventfd, toWake, held, doing>>
  BY <1>3 DEF loopVars, userVars
<1>10. EL!TypeOK'
  BY <1>9 DEF TypeOK, EL!TypeOK
<1>11. server = "up"
  BY DEF Core, EndInOrder
<1>12. /\ conn \in [Conns -> Connection] /\ poller \in [Loops -> PollerType]
  BY DEF TypeOK
<1>13. CASE CannotRemove(w)
  <2>1. /\ Failing(w, v) /\ conn[c].state = "kDisconnecting"
    BY <1>5, <1>6, <1>8, <1>13 DEF CannotRemove, OpenState
  <2>2. /\ v.conn = conn[c] /\ v.map = map \ {c} /\ FailureOf(v) # "none"
    BY <1>5, <2>1 DEF Failing, FailureOf
  <2>3. conn' = conn
    BY <1>3, <1>12, <2>2
  <2>4. /\ map' = map \ {c} /\ failed' # "none" /\ UNCHANGED <<poller, life, timers, kept>>
    BY <1>3, <2>2
  <2>5. TypeOK'
    BY <1>9, <1>10, <2>3, <2>4 DEF TypeOK
  <2>6. /\ NoDanglingChannel /\ ClosedIsSilent /\ MapIsLive /\ (DroppedHere => RemovedOnce)
    BY CoreNeverDangles, CoreMapIsLive, SoundIsSilent, CoreRemovedOnce DEF Core
  <2>7. \A d \in Conns : Stage(d)' = Stage(d)
    BY <2>3, <2>4 DEF Stage
  <2>8. NoDanglingChannel' /\ ClosedIsSilent'
    BY <1>9, <2>4, <2>6, <2>7 DEF NoDanglingChannel, ClosedIsSilent
  <2>9. MapIsLive' /\ NoneLeftOpen'
    BY <1>11, <2>4, <2>6, <2>7 DEF MapIsLive, NoneLeftOpen
  <2>10. FailsOnlyAtStop'
    BY <2>1, <2>3 DEF FailsOnlyAtStop
  <2>11. (DroppedHere => RemovedOnce)' /\ OneLoop'
    <3>1. /\ batch' = batch /\ pending' = pending /\ loop' = loop /\ poller' = poller
          /\ \A d \in Conns : Stage(d)' = Stage(d)
      BY <1>9, <2>4, <2>7
    <3>2. RemovedOnce <=> \A d \in Conns : RemovedAs(d, Stage(d), poller[loop[d]].index[d],
                                                   batch[loop[d]] \o pending[loop[d]])
      BY DEF RemovedOnce, RemovedAs
    <3>3. RemovedOnce' <=> \A d \in Conns : RemovedAs(d, Stage(d)', poller'[loop'[d]].index[d],
                                                    batch'[loop'[d]] \o pending'[loop'[d]])
      BY DEF RemovedOnce, RemovedAs
    <3>4. DroppedHere' => DroppedHere
      BY <3>1 DEF DroppedHere
    <3>5. OneLoop'
      BY <3>1 DEF Core, OneLoop
    <3> QED BY <2>6, <3>1, <3>2, <3>3, <3>4, <3>5
  <2> QED BY <2>4, <2>5, <2>8, <2>9, <2>10, <2>11, Zenon DEF Claims
<1>14. CASE ~CannotRemove(w)
  <2> DEFINE pollers == [poller EXCEPT ![Base] = v.poller]
  <2>1. Destroying(w, v)
    BY <1>6, <1>14
  <2>2. /\ v \in WorldType /\ v.poller.fd = poller[Base].fd
        /\ OnlyChanges(c, poller[Base], v.poller) /\ Sound(v.poller)
        /\ ChannelInStep("kDisconnected", v.poller, c)
        /\ v.conn.state = "kDisconnected" /\ v.poller.index[c] = "new"
        /\ v.map = map \ {c} /\ FailureOf(v) = "none"
    BY <1>5, <2>1 DEF Destroying, OnlyItsOwn, FailureOf, Sound
  <2>3. /\ v.conn \in Connection /\ v.poller \in PollerType
    BY <2>2 DEF WorldType
  <2>4. DestroyUnreferenced(pollers) /\ map' = map \ {c}
    BY <1>3, <2>2
  <2>5. /\ conn' \in [Conns -> Connection] /\ conn'[c] = v.conn
        /\ \A d \in Conns \ {c} : conn'[d] = conn[d]
    BY <1>3, <1>12, <2>3
  <2>6. /\ pollers[Base] = v.poller /\ \A l \in Loops \ {Base} : pollers[l] = poller[l]
    BY <1>7, <1>12
  <2> HIDE DEF pollers
  <2>7. \A d \in Conns \ {c} : Live(d) =>
          /\ pollers[loop[d]].events[d] = poller[loop[d]].events[d]
          /\ pollers[loop[d]].index[d] = poller[loop[d]].index[d]
    BY <2>2, <2>6, StateType DEF OnlyChanges, Conns
  <2>8. PollersFit(pollers)
    <3>1. \A l \in Loops : /\ Sound(pollers[l])
                           /\ \A d \in Conns : pollers[l].fd[d] # None <=> Live(d) /\ loop[d] = l
      BY <2>2, <2>6 DEF Core, PollersSound
    <3>2. ASSUME NEW d \in Conns, Live(d)
          PROVE  ChannelInStep(conn'[d].state, pollers[loop[d]], d)
      <4>1. CASE d = c
        BY <1>3, <2>2, <2>5, <2>6, <4>1
      <4>2. CASE d # c
        BY <2>5, <2>7, <3>2, <4>2 DEF Core, ChannelsInStep, ChannelInStep
      <4> QED BY <4>1, <4>2
    <3> QED BY <3>1, <3>2 DEF PollersFit
  <2>9. LoopsInOrder'
    BY <1>3, <1>9, <1>11, CoreLoopsInOrder DEF LoopsInOrder
  <2>10. CallsAreQuiet'
    BY <1>9 DEF Core, CallsAreQuiet
  <2>11. \A d \in Conns \ {c} : Referenced(d)' <=> Referenced(d)
    BY <1>3, <1>9, <2>4 DEF Referenced
  <2>12. \A d \in Conns : Live(d) /\ ~Referenced(d)' =>
            conn'[d].state = "kDisconnected" /\ pollers[loop[d]].index[d] = "new"
    BY <1>3, <2>2, <2>5, <2>6, <2>11 DEF Core, ReferencedAreLive
  <2>13. \A d \in Conns : Referenced(d)' => Live(d)
    BY <1>4, <2>11 DEF Core, ReferencedAreLive
  <2>14. ASSUME NEW d \in Conns, Live(d)
         PROVE  InOrder(d, conn'[d].state, pollers[loop[d]].index[d] # "new", d \in map',
                        d \in dropped', loop[d] = Base, Queue(loop[d]))
    <3>1. CASE d = c
      <4>1. Absent(Queue(Base), EstablishTask(c)) /\ Absent(Queue(Base), DestroyTask(c))
        BY <1>7, <1>8 DEF InPlace, InOrder, OpenState
      <4>2. InOrder(c, conn'[c].state, pollers[Base].index[c] # "new", c \in map',
                    c \in dropped', TRUE, Queue(Base))
        BY <2>2, <2>4, <2>5, <2>6, <4>1 DEF InOrder
      <4> QED BY <1>3, <3>1, <4>2
    <3>2. CASE d # c
      <4>1. ConnInOrder(d)
        BY <2>14 DEF Core, ConnsInOrder
      <4>2. /\ conn'[d].state = conn[d].state
            /\ pollers[loop[d]].index[d] = poller[loop[d]].index[d]
            /\ d \in map' <=> d \in map
            /\ d \in dropped' <=> d \in dropped
        BY <2>4, <2>5, <2>7, <2>14, <3>2
      <4> QED BY <4>1, <4>2 DEF ConnInOrder, InOrder
    <3> QED BY <3>1, <3>2
  <2>15. \A l \in Loops : Queue(l)' = Queue(l)
    BY <1>9 DEF Queue
  <2>16. ASSUME NEW l \in Loops, NEW d \in active'[l] \cap Conns
         PROVE  Live(d) /\ loop[d] = l /\ conn'[d].state \in OpenState
    <3>1. phase[l] = "events" /\ Live(d) /\ loop[d] = l /\ conn[d].state \in OpenState
      BY <1>9, <2>16 DEF Core, ActiveAreOpen
    <3>2. d # c
      BY <1>3, <3>1
    <3> QED BY <2>5, <3>1, <3>2
  <2>17. \A d \in dropped' : d \in Conns /\ life[d] \in {"live", "gone"}
    BY <1>4 DEF TypeOK, Core, EndInOrder, Live
  <2>18. /\ Core' /\ failed' = failed /\ poller' \in [Loops -> PollerType]
         /\ life' \in [Conns -> {"none", "backlog", "live", "gone"}]
    BY <1>10, <2>4, <2>8, <2>9, <2>10, <2>12, <2>13, <2>14, <2>15, <2>16, <2>17, DropCore
  <2>19. TypeOK'
    BY <1>3, <1>9, <1>10, <2>4, <2>5, <2>18 DEF TypeOK
  <2> QED BY <2>18, <2>19
<1> QED BY <1>13, <1>14

-----------------------------------------------------------------------------
(* The invariant.                                                          *)

LEMMA EmptyPollerSound ==
  Sound(EmptyPoller) /\ EmptyPoller \in PollerType /\ \A c \in Conns : EmptyPoller.fd[c] = None
BY NoneAssumption DEF Sound, EmptyPoller, PollerType, Index, Assertion, PointersOwned,
   FdsDistinct, Conns

LEMMA InitKeeps ==
  ASSUME Init
  PROVE  IInv
<1>1. EL!TypeOK
  <2>1. <<>> \in Seq(EL!Functor)
    BY EmptySeq
  <2>2. EL!AllThreads = Loops \cup Threads
    BY DEF EL!AllThreads
  <2> QED BY <2>1, <2>2 DEF Init, EL!TypeOK, EL!Phase
<1>2. /\ \A l \in Loops : /\ poller[l] = EmptyPoller /\ timers[l] = {} /\ kept[l] = {}
                          /\ phase[l] = "while" /\ active[l] = {}
                          /\ batch[l] = <<>> /\ pending[l] = <<>>
      /\ \A c \in Conns : ~Live(c) /\ loop[c] = Base
      /\ \A t \in Threads : held[t] = {} /\ doing[t] = Idle
      /\ map = {} /\ dropped = {} /\ server = "up" /\ failed = "none"
  BY DEF Init, Live
<1>3. TypeOK
  <2>1. NewConnection \in Connection
    BY ConnectionAssumption DEF NewConnection, Connection, State, Socket
  <2>2. Idle \in [op : Op, conn : Conns \cup {None}, stored : BOOLEAN]
    BY DEF Idle, Op
  <2>3. next \in IF Pool = <<>> THEN {0} ELSE 0 .. Len(Pool) - 1
    BY ServerAssumption, EmptySeq, LenProperties DEF Init
  <2>4. Base \in Loops
    BY ServerAssumption
  <2> QED BY <1>1, <2>1, <2>2, <2>3, <2>4, EmptyPollerSound DEF Init, TypeOK
<1>4. PollersSound /\ ChannelsInStep /\ ActiveAreOpen /\ ConnsInOrder /\ EndInOrder /\ OneLoop
  BY <1>2, EmptyPollerSound DEF PollersSound, ChannelsInStep, ActiveAreOpen, ConnsInOrder,
     EndInOrder, OneLoop
<1>5. QueuesAreLive
  <2>1. \A l \in Loops : DOMAIN batch[l] = {} /\ DOMAIN pending[l] = {} /\ DOMAIN Queue(l) = {}
    <3> SUFFICES ASSUME NEW l \in Loops
                 PROVE  DOMAIN batch[l] = {} /\ DOMAIN pending[l] = {} /\ DOMAIN Queue(l) = {}
      OBVIOUS
    <3>1. Queue(l) = <<>>
      BY <1>2, EmptySeq, ConcatEmptySeq DEF Queue
    <3> QED BY <1>2, <3>1
  <2> QED BY <1>2, <2>1 DEF QueuesAreLive, ConnsOf
<1>6. ReferencedAreLive
  <2>1. \A l \in Loops : ConnsOf(pending[l]) = {}
    BY <1>2 DEF ConnsOf
  <2>2. \A c \in Conns : c # None
    BY NoneAssumption DEF Conns
  <2> QED BY <1>2, <2>1, <2>2 DEF ReferencedAreLive, Referenced, Idle
<1>7. CallsAreQuiet
  BY <1>2 DEF CallsAreQuiet
<1> QED BY <1>2, <1>3, <1>4, <1>5, <1>6, <1>7, CoreClaims DEF Core

\* A step after which no assert has failed keeps the invariant if it keeps its
\* core, and one with which an assert fails if the claims still hold.
LEMMA KeepsIfCore ==
  ASSUME IF failed' = "none" THEN TypeOK' /\ Core' ELSE Claims'
  PROVE  IInv'
<1>1. (TypeOK /\ Core /\ failed = "none" => IInv)'
  BY CoreClaims, PTL
<1> QED BY <1>1, Zenon DEF IInv

LEMMA StutterKeeps ==
  ASSUME IInv, UNCHANGED vars
  PROVE  IInv'
<1>1. /\ UNCHANGED <<phase, looping, pending, batch, calling, active, eventfd, toWake>>
      /\ UNCHANGED <<conn, poller, timers, map, failed, life, loop, revents, next, kept, held,
                     doing, server, dropped>>
  BY DEF vars, loopVars, serverVars, objVars, userVars, stopVars
<1>2. UNCHANGED serverVars
  BY DEF vars
<1>3. TypeOK
  BY DEF IInv, Claims
<1>4. EL!TypeOK'
  BY <1>1, <1>3 DEF TypeOK, EL!TypeOK
<1>5. CASE failed = "none"
  <2>1. Core
    BY <1>5 DEF IInv
  <2>2. TypeOK' /\ Core'
    BY <1>1, <1>2, <1>3, <1>4, <2>1, LoopAlone
  <2>3. failed' = "none"
    BY <1>1, <1>5
  <2> QED BY <2>2, <2>3, KeepsIfCore
<1>6. CASE failed # "none"
  <2>1. /\ NoDanglingChannel /\ ClosedIsSilent /\ MapIsLive /\ NoneLeftOpen
        /\ FailsOnlyAtStop /\ (DroppedHere => RemovedOnce) /\ OneLoop
    BY DEF IInv, Claims
  <2>2. \A c \in Conns : Stage(c)' = Stage(c)
    BY <1>1 DEF Stage
  <2>3. TypeOK'
    BY <1>1, <1>3, <1>4 DEF TypeOK
  <2>4. /\ NoDanglingChannel' /\ ClosedIsSilent' /\ MapIsLive' /\ NoneLeftOpen'
        /\ FailsOnlyAtStop'
    BY <1>1, <2>1, <2>2 DEF NoDanglingChannel, ClosedIsSilent, MapIsLive, NoneLeftOpen,
       FailsOnlyAtStop
  <2>5. (DroppedHere => RemovedOnce)' /\ OneLoop'
    <3>1. RemovedOnce <=> \A c \in Conns : RemovedAs(c, Stage(c), poller[loop[c]].index[c],
                                                   batch[loop[c]] \o pending[loop[c]])
      BY DEF RemovedOnce, RemovedAs
    <3>2. RemovedOnce' <=> \A c \in Conns : RemovedAs(c, Stage(c)', poller'[loop'[c]].index[c],
                                                    batch'[loop'[c]] \o pending'[loop'[c]])
      BY DEF RemovedOnce, RemovedAs
    <3> QED BY <1>1, <2>1, <2>2, <3>1, <3>2 DEF DroppedHere, OneLoop
  <2>6. failed' # "none"
    BY <1>1, <1>6
  <2> QED BY <2>3, <2>4, <2>5, <2>6, Zenon DEF IInv, Claims
<1> QED BY <1>5, <1>6

LEMMA DropStep ==
  ASSUME QuietUsers, TypeOK, Core, failed = "none", NEW c \in Conns, NEW u,
         NEW res \in WriteResult, DropConnection(c, u, res)
  PROVE  IF failed' = "none" THEN TypeOK' /\ Core' ELSE Claims'
<1>1. /\ phase[Base] = "exited" /\ c \in map
      /\ DropHere(c, u, res) \/ DropThere(c)
      /\ dropped' = dropped \cup {c} /\ UNCHANGED <<loop, revents, next, server>>
  BY DEF DropConnection
<1>2. CASE DropHere(c, u, res)
  BY <1>1, <1>2, DropHereStep
<1>3. CASE DropThere(c)
  <2>1. failed' = failed /\ TypeOK' /\ Core'
    BY <1>1, <1>3, DropThereStep
  <2> QED BY <2>1
<1> QED BY <1>1, <1>2, <1>3

\* The steps of the thread of a loop.
LEMMA LoopStepKeeps ==
  ASSUME QuietUsers, TypeOK, Core, failed = "none", NEW l \in Loops, LoopStep(l)
  PROVE  IF failed' = "none" THEN TypeOK' /\ Core' ELSE Claims'
<1>1. CASE LoopOnly(l)
  <2>1. TypeOK' /\ Core'
    BY <1>1, LoopOnlyStep
  <2>2. failed' = failed
    BY <1>1 DEF LoopOnly, serverVars, objVars
  <2> QED BY <2>1, <2>2
<1>2. CASE Poll(l)
  <2>1. TypeOK' /\ Core'
    BY <1>2, PollStep
  <2>2. failed' = failed
    BY <1>2, PollFindsValid
  <2> QED BY <2>1, <2>2
<1>3. ASSUME NEW c \in Conns, NEW u, NEW res \in WriteResult, HandleConn(l, c, u, res)
      PROVE  IF failed' = "none" THEN TypeOK' /\ Core' ELSE Claims'
  BY <1>3, HandleConnStep
<1>4. CASE HandleListen
  <2>1. CASE AcceptFailed
    <3>1. TypeOK' /\ Core'
      BY <2>1, AcceptFailedStep
    <3>2. failed' = failed
      BY <2>1 DEF AcceptFailed, serverVars, objVars
    <3> QED BY <3>1, <3>2
  <2>2. ASSUME NEW c \in Conns, life[c] = "backlog", Refuse(c)
        PROVE  failed' = "none" /\ TypeOK' /\ Core'
    <3>1. TypeOK' /\ Core'
      BY <2>2, RefuseStep
    <3>2. failed' = failed
      BY <2>2 DEF Refuse, objVars
    <3> QED BY <3>1, <3>2
  <2>3. ASSUME NEW c \in Conns, life[c] = "backlog", NEW f \in Fd, NEW u,
               NEW res \in WriteResult, FreeFd(f), Accept(c, f, u, res)
        PROVE  failed' = "none" /\ TypeOK' /\ Core'
    BY <2>3, AcceptStep
  <2> QED BY <1>4, <2>1, <2>2, <2>3 DEF HandleListen
<1>5. CASE SwapPending(l)
  <2>1. TypeOK' /\ Core'
    BY <1>5, SwapPendingStep
  <2>2. failed' = failed
    BY <1>5 DEF SwapPending, objVars
  <2> QED BY <2>1, <2>2
<1>6. ASSUME NEW u, NEW res \in WriteResult, RunFunctor(l, u, res)
      PROVE  IF failed' = "none" THEN TypeOK' /\ Core' ELSE Claims'
  BY <1>6, RunFunctorStep
<1>7. CASE EndFunctors(l)
  <2>1. TypeOK' /\ Core' /\ failed' = failed
    BY <1>7, EndFunctorsStep
  <2> QED BY <2>1
<1> QED BY <1>1, <1>2, <1>3, <1>4, <1>5, <1>6, <1>7, Zenon DEF LoopStep

\* The steps of ~TcpServer().
LEMMA StopStepKeeps ==
  ASSUME QuietUsers, TypeOK, Core, failed = "none", StopStep
  PROVE  IF failed' = "none" THEN TypeOK' /\ Core' ELSE Claims'
<1>1. ASSUME NEW c \in Conns, NEW u, NEW res \in WriteResult, DropConnection(c, u, res)
      PROVE  IF failed' = "none" THEN TypeOK' /\ Core' ELSE Claims'
  BY <1>1, DropStep
<1>2. CASE EndBody \/ EndServer
  <2>1. TypeOK' /\ Core'
    BY <1>2, EndStep
  <2>2. failed' = failed
    BY <1>2 DEF EndBody, EndServer, objVars
  <2> QED BY <2>1, <2>2
<1>3. CASE StopThread
  <2>1. TypeOK' /\ Core'
    BY <1>3, StopThreadStep
  <2>2. failed' = failed
    BY <1>3 DEF StopThread, serverVars, objVars
  <2> QED BY <2>1, <2>2
<1> QED BY <1>1, <1>2, <1>3, Zenon DEF StopStep

\* The steps of the clients and of the user's threads, wakeup() and quit().
LEMMA OtherStepKeeps ==
  ASSUME QuietUsers, TypeOK, Core,
         \/ \E c \in Conns : Connect(c) \/ \E op \in PeerOps : Peer(c, op)
         \/ \E t \in Loops \cup Threads : Wakeup(t)
         \/ QuitBase
         \/ \E t \in Threads : StoreState(t) \/ FinishCall(t)
         \/ \E t \in Threads, c \in Conns :
               Release(t, c) \/ \E op \in ThreadOps : EnterCall(t, c, op)
  PROVE  failed' = failed /\ TypeOK' /\ Core'
<1>1. ASSUME NEW c \in Conns, Connect(c) PROVE failed' = failed /\ TypeOK' /\ Core'
  <2>1. failed' = failed
    BY <1>1 DEF Connect, objVars
  <2> QED BY <1>1, <2>1, ConnectStep
<1>2. ASSUME NEW c \in Conns, NEW op \in PeerOps, Peer(c, op)
      PROVE  failed' = failed /\ TypeOK' /\ Core'
  <2>1. failed' = failed
    BY <1>2, Zenon DEF Peer
  <2>2. op \in {"data", "fin", "rst"}
    BY ServerAssumption
  <2> QED BY <1>2, <2>1, <2>2, PeerStep
<1>3. ASSUME NEW t \in Loops \cup Threads, Wakeup(t)
      PROVE  failed' = failed /\ TypeOK' /\ Core'
  <2>1. failed' = failed
    BY <1>3 DEF Wakeup, serverVars, objVars
  <2> QED BY <1>3, <2>1, WakeupStep
<1>4. CASE QuitBase
  <2>1. failed' = failed
    BY <1>4 DEF QuitBase, serverVars, objVars
  <2> QED BY <1>4, <2>1, QuitBaseStep
<1>5. ASSUME NEW t \in Threads, StoreState(t) PROVE failed' = failed /\ TypeOK' /\ Core'
  <2>1. failed' = failed
    BY <1>5 DEF StoreState
  <2> QED BY <1>5, <2>1, StoreStateStep
<1>6. ASSUME NEW t \in Threads, FinishCall(t) PROVE failed' = failed /\ TypeOK' /\ Core'
  BY <1>6, FinishCallStep
<1>7. ASSUME NEW t \in Threads, NEW c \in Conns, Release(t, c)
      PROVE  failed' = failed /\ TypeOK' /\ Core'
  BY <1>7, ReleaseStep
<1>8. ASSUME NEW t \in Threads, NEW c \in Conns, NEW op, EnterCall(t, c, op)
      PROVE  failed' = failed /\ TypeOK' /\ Core'
  <2>1. failed' = failed
    BY <1>8 DEF EnterCall, objVars
  <2> QED BY <1>8, <2>1, EnterCallStep
<1> QED BY <1>1, <1>2, <1>3, <1>4, <1>5, <1>6, <1>7, <1>8, Zenon

LEMMA NextKeeps ==
  ASSUME QuietUsers, IInv, Next
  PROVE  IInv'
<1>1. TypeOK /\ Core /\ failed = "none"
  BY DEF IInv, Claims, Next
<1>2. CASE \E l \in Loops : LoopStep(l)
  <2>1. IF failed' = "none" THEN TypeOK' /\ Core' ELSE Claims'
    BY <1>1, <1>2, LoopStepKeeps
  <2> QED BY <2>1, KeepsIfCore
<1>3. CASE StopStep
  <2>1. IF failed' = "none" THEN TypeOK' /\ Core' ELSE Claims'
    BY <1>1, <1>3, StopStepKeeps
  <2> QED BY <2>1, KeepsIfCore
<1>4. CASE \/ \E c \in Conns : Connect(c) \/ \E op \in PeerOps : Peer(c, op)
           \/ \E t \in Loops \cup Threads : Wakeup(t)
           \/ QuitBase
           \/ \E t \in Threads : StoreState(t) \/ FinishCall(t)
           \/ \E t \in Threads, c \in Conns :
                 Release(t, c) \/ \E op \in ThreadOps : EnterCall(t, c, op)
  <2>1. failed' = failed /\ TypeOK' /\ Core'
    BY <1>1, <1>4, OtherStepKeeps
  <2>2. IF failed' = "none" THEN TypeOK' /\ Core' ELSE Claims'
    BY <1>1, <2>1
  <2> QED BY <2>2, KeepsIfCore
<1> QED BY <1>2, <1>3, <1>4, Zenon DEF Next

LEMMA Invariance == QuietUsers => (SafeSpec => []IInv)
<1> SUFFICES ASSUME QuietUsers PROVE SafeSpec => []IInv
  OBVIOUS
<1>1. Init => IInv
  BY InitKeeps
<1>2. IInv /\ [Next]_vars => IInv'
  BY NextKeeps, StutterKeeps
<1> QED BY <1>1, <1>2, PTL DEF SafeSpec

-----------------------------------------------------------------------------
(* The life of a connection: each step is one of ConnectionLife, or changes *)
(* the stage of no connection.                                             *)

LEMMA StageNames ==
  ASSUME NEW c \in Conns
  PROVE  /\ life[c] = "none" => Stage(c) = "unknown"
         /\ life[c] = "backlog" => Stage(c) = "waiting"
         /\ life[c] = "gone" => Stage(c) = "gone"
         /\ Live(c) => /\ conn[c].state = "kConnecting" => Stage(c) = "opening"
                       /\ conn[c].state = "kConnected" => Stage(c) = "up"
                       /\ conn[c].state = "kDisconnecting" => Stage(c) = "closing"
                       /\ conn[c].state = "kDisconnected" => Stage(c) = "down"
BY DEF Stage, Live

\* The same of the next state.
LEMMA NextStageNames ==
  ASSUME NEW c \in Conns
  PROVE  /\ life'[c] = "backlog" => Stage(c)' = "waiting"
         /\ life'[c] = "gone" => Stage(c)' = "gone"
         /\ Live(c)' => /\ conn'[c].state = "kConnecting" => Stage(c)' = "opening"
                        /\ conn'[c].state = "kConnected" => Stage(c)' = "up"
                        /\ conn'[c].state = "kDisconnecting" => Stage(c)' = "closing"
                        /\ conn'[c].state = "kDisconnected" => Stage(c)' = "down"
BY DEF Stage, Live

SameStage(c) == life'[c] = life[c] /\ conn'[c].state = conn[c].state

LEMMA StageKept ==
  ASSUME NEW c \in Conns, SameStage(c)
  PROVE  Stage(c)' = Stage(c)
BY DEF Stage, SameStage

\* What a step makes of the stages.
Lives == CL!Next \/ \A c \in Conns : Stage(c)' = Stage(c)

LEMMA NothingMoves ==
  ASSUME \A c \in Conns : SameStage(c)
  PROVE  Lives
BY StageKept DEF Lives

LEMMA OneMoves ==
  ASSUME NEW c \in Conns, \A d \in Conns \ {c} : SameStage(d),
         NEW from, NEW to, Stage(c) \in from, Stage(c)' \in to
  PROVE  CL!Move(c, from, to)
<1>1. \A d \in Conns \ {c} : Stage(d)' = Stage(d)
  BY StageKept
<1> QED BY <1>1 DEF CL!Move

\* A connection that is open and that code without a closing ran for may have
\* come to be closed by its user.
LEMMA MinorMoves ==
  ASSUME TypeOK, NEW c \in Conns, Live(c), Live(c)', NEW v, Minor(World(c), v),
         conn'[c] = v.conn, \A d \in Conns \ {c} : SameStage(d)
  PROVE  Lives
<1>1. \/ conn'[c].state = conn[c].state
      \/ conn[c].state \in OpenState /\ conn'[c].state = "kDisconnecting"
  BY DEF Minor, World, IsOpen, OpenState
<1>2. CASE conn'[c].state = conn[c].state
  BY <1>2, NothingMoves DEF SameStage, Live
<1>3. CASE conn[c].state = "kConnected" /\ conn'[c].state = "kDisconnecting"
  <2>1. Stage(c) = "up" /\ Stage(c)' = "closing"
    BY <1>3, StageNames, NextStageNames
  <2>2. CL!Move(c, {"up"}, {"closing"})
    BY <2>1, OneMoves
  <2> QED BY <2>2 DEF Lives, CL!Next, CL!BeginClose
<1> QED BY <1>1, <1>2, <1>3 DEF OpenState

\* A connection that is open is closed.
LEMMA ClosingMoves ==
  ASSUME NEW c \in Conns, Live(c), Live(c)', conn[c].state \in OpenState,
         conn'[c].state = "kDisconnected", \A d \in Conns \ {c} : SameStage(d)
  PROVE  Lives
<1>1. Stage(c) \in {"up", "closing"} /\ Stage(c)' \in {"down"}
  BY StageNames, NextStageNames DEF OpenState
<1>2. CL!Move(c, {"up", "closing"}, {"down"})
  BY <1>1, OneMoves
<1> QED BY <1>2 DEF Lives, CL!Next, CL!Close

\* Connections that nothing refers to are destroyed when they are down.
LEMMA DestroyedAreDown ==
  ASSUME NEW pollers, DestroyUnreferenced(pollers), failed' = "none"
  PROVE  \A c \in Conns : \/ life'[c] = life[c]
                          \/ /\ Live(c) /\ ~Referenced(c)' /\ life'[c] = "gone"
                             /\ conn'[c].state = "kDisconnected"
<1> SUFFICES ASSUME NEW c \in Conns, life'[c] # life[c]
             PROVE  Live(c) /\ ~Referenced(c)' /\ life'[c] = "gone"
                    /\ conn'[c].state = "kDisconnected"
  OBVIOUS
<1>1. life[c] = "live" /\ ~Referenced(c)' /\ life'[c] = "gone"
  BY DEF DestroyUnreferenced
<1>2. conn'[c].state = "kDisconnected"
  BY <1>1 DEF DestroyUnreferenced
<1> QED BY <1>1, <1>2 DEF Live

LEMMA DestroyingMoves ==
  ASSUME DestroyUnreferenced(poller), failed' = "none", conn' = conn
  PROVE  Lives
<1> DEFINE conns == {c \in Conns : life'[c] # life[c]}
<1>1. \A c \in conns : Stage(c) = "down" /\ Stage(c)' = "gone"
  BY DestroyedAreDown, StageNames, NextStageNames
<1>2. \A c \in Conns \ conns : SameStage(c)
  BY DEF SameStage
<1>3. CASE conns = {}
  BY <1>2, <1>3, NothingMoves
<1>4. CASE conns # {}
  <2>1. \A c \in Conns \ conns : Stage(c)' = Stage(c)
    BY <1>2, StageKept
  <2> HIDE DEF conns
  <2>2. [c \in Conns |-> Stage(c)]' =
           [c \in Conns |-> IF c \in conns THEN "gone" ELSE [d \in Conns |-> Stage(d)][c]]
    BY <1>1, <2>1
  <2>3. conns \in SUBSET Conns
    BY DEF conns
  <2>4. CL!Free(conns)
    BY <1>1, <1>4, <2>2, <2>3 DEF CL!Free
  <2> QED BY <2>3, <2>4 DEF Lives, CL!Next
<1> QED BY <1>3, <1>4

LEMMA ConnectMoves ==
  ASSUME NEW c \in Conns, Connect(c), TypeOK
  PROVE  Lives
<1>1. /\ life[c] = "none" /\ life'[c] = "backlog"
      /\ \A d \in Conns \ {c} : SameStage(d)
  BY DEF Connect, objVars, SameStage, TypeOK
<1>2. CL!Move(c, {"unknown"}, {"waiting"})
  BY <1>1, StageNames, NextStageNames, OneMoves
<1> QED BY <1>2 DEF Lives, CL!Next, CL!Arrive

LEMMA RefuseMoves ==
  ASSUME NEW c \in Conns, life[c] = "backlog", Refuse(c), TypeOK
  PROVE  Lives
<1>1. /\ life'[c] = "gone" /\ \A d \in Conns \ {c} : SameStage(d)
  BY DEF Refuse, objVars, SameStage, TypeOK
<1>2. CL!Move(c, {"waiting"}, {"gone"})
  BY <1>1, StageNames, NextStageNames, OneMoves
<1> QED BY <1>2 DEF Lives, CL!Next, CL!Refuse

LEMMA PeerMoves ==
  ASSUME NEW c \in Conns, NEW op \in {"data", "fin", "rst"}, Peer(c, op), TypeOK
  PROVE  Lives
<1>1. life' = life
  BY DEF Peer
<1>2. \A d \in Conns : conn'[d].state = conn[d].state
  BY DEF Peer, TypeOK, Connection
<1> QED BY <1>1, <1>2, NothingMoves DEF SameStage

LEMMA HandleConnMoves ==
  ASSUME QuietUsers, TypeOK, Core, NEW l \in Loops, NEW c \in Conns, NEW u,
         NEW res \in WriteResult, HandleConn(l, c, u, res)
  PROVE  Lives
<1> DEFINE w == World(c)
<1>1. PICK v : v = HandleEvent(w, revents[c], u, res)
  OBVIOUS
<1>2. Commit(v) /\ life' = life /\ phase[l] = "events" /\ c \in active[l]
  BY <1>1 DEF HandleConn, EL!HandleEvent
<1>3. Live(c) /\ Live(c)' /\ conn[c].state \in OpenState
  BY <1>2 DEF Core, ActiveAreOpen, Live
<1>4. /\ Proper(w) /\ w.news \in Seq(SmallTask(w.c)) /\ w.c = c /\ w.conn = conn[c]
  BY <1>3, WorldIsProper
<1> HIDE DEF w
<1>5. IsOpen(w)
  BY <1>3, <1>4 DEF IsOpen, OpenState
<1>6. Minor(w, v) \/ Closing(w, v)
  BY <1>1, <1>4, <1>5, HandleEventDoes DEF QuietUsers
<1>7. v.c = c
  BY <1>4, <1>6 DEF Minor, Closing, OnlyItsOwn
<1>8. conn'[c] = v.conn /\ \A d \in Conns \ {c} : SameStage(d)
  BY <1>2, <1>7 DEF Commit, CommitOn, TypeOK, SameStage
<1>9. CASE Minor(w, v)
  BY <1>3, <1>8, <1>9, MinorMoves DEF w
<1>10. CASE Closing(w, v)
  BY <1>3, <1>8, <1>10, ClosingMoves DEF Closing
<1> QED BY <1>6, <1>9, <1>10

LEMMA AcceptMoves ==
  ASSUME QuietUsers, TypeOK, Core, NEW c \in Conns, life[c] = "backlog", NEW f \in Fd,
         FreeFd(f), NEW u, NEW res \in WriteResult, Accept(c, f, u, res)
  PROVE  Lives
<1>1. PICK l : l = IF Pool = <<>> THEN Base ELSE Pool[next + 1]
  OBVIOUS
<1>2. PICK w : IsFreshWorld(w, c, l, f)
  BY DEF IsFreshWorld
<1>3. PICK v : v = FirstTask(w, l, u, res)
  OBVIOUS
<1>4. life' = [life EXCEPT ![c] = "live"] /\ CommitOn(l, v)
  BY <1>1, <1>2, <1>3 DEF Accept, IsFreshWorld, FirstTask
<1>5. l \in Loops
  <2>1. CASE Pool = <<>>
    BY <1>1, <2>1, ServerAssumption
  <2>2. CASE Pool # <<>>
    <3>1. Pool \in Seq(Loops) /\ Len(Pool) \in Nat \ {0} /\ next \in 0 .. Len(Pool) - 1
      BY <2>2, ServerAssumption, EmptySeq, LenProperties DEF TypeOK
    <3> QED BY <1>1, <2>2, <3>1
  <2> QED BY <2>1, <2>2
<1>6. /\ Proper(w) /\ w.news \in Seq(SmallTask(w.c)) /\ w.news = <<>>
      /\ w.c = c /\ w.conn.state = "kConnecting"
  BY <1>2, <1>5, FreshIsProper DEF Live
<1>7. v.c = c /\ v.conn.state \in {"kConnecting", "kConnected", "kDisconnecting"}
  <2>1. FirstDone(w, FirstTask(w, l, u, res), c, l)
    BY <1>6, FirstTaskDoes
  <2> QED BY <1>3, <2>1 DEF FirstDone, OpenState
<1>8. Live(c)' /\ conn'[c] = v.conn /\ \A d \in Conns \ {c} : SameStage(d)
  BY <1>4, <1>7 DEF CommitOn, TypeOK, SameStage, Live
<1>9. Stage(c) = "waiting" /\ Stage(c)' \in {"opening", "up", "closing"}
  BY <1>7, <1>8, StageNames, NextStageNames
<1>10. CL!Move(c, {"waiting"}, {"opening", "up", "closing"})
  BY <1>8, <1>9, OneMoves
<1> QED BY <1>10 DEF Lives, CL!Next, CL!Accept

LEMMA RunFunctorMoves ==
  ASSUME QuietUsers, TypeOK, Core, NEW l \in Loops, NEW u, NEW res \in WriteResult,
         RunFunctor(l, u, res)
  PROVE  Lives
<1>1. PICK task : task = Head(batch[l]).task
  OBVIOUS
<1>2. batch[l] # <<>>
  BY DEF RunFunctor
<1>3. PICK c : c = task.conn
  OBVIOUS
<1> DEFINE w == World(c)
<1>4. /\ task \in Task /\ Live(c) /\ task.fn \notin {"startReadInLoop", "stopReadInLoop"}
  BY <1>1, <1>2, <1>3, HeadIsLive
<1>5. c \in Conns /\ task.fn \in Fn \ {"startReadInLoop", "stopReadInLoop"}
  BY <1>3, <1>4 DEF Task
<1>6. PICK v : v = RunTask(w, task.fn, u, res)
  OBVIOUS
<1>7. Commit(v) /\ life' = life
  BY <1>1, <1>3, <1>6 DEF RunFunctor
<1>8. /\ Proper(w) /\ w.news \in Seq(SmallTask(w.c)) /\ w.c = c /\ w.conn = conn[c]
  BY <1>4, <1>5, WorldIsProper
<1> HIDE DEF w
<1>9. Does(w, task.fn, v)
  BY <1>5, <1>6, <1>8, RunTaskDoes DEF QuietUsers
<1>10. Minor(w, v) \/ Closing(w, v) \/ Opening(w, v) \/ Destroying(w, v) \/ Failing(w, v)
  BY <1>9 DEF Does
<1>11. v.c = c
  BY <1>8, <1>10 DEF Minor, Closing, Opening, Destroying, Failing, OnlyItsOwn
<1>12. Live(c)' /\ conn'[c] = v.conn /\ \A d \in Conns \ {c} : SameStage(d)
  BY <1>4, <1>5, <1>7, <1>11 DEF Commit, CommitOn, TypeOK, SameStage, Live
<1>13. CASE Minor(w, v)
  BY <1>4, <1>5, <1>12, <1>13, MinorMoves DEF w
<1>14. CASE Closing(w, v) \/ (Destroying(w, v) /\ conn[c].state = "kConnected")
  BY <1>4, <1>5, <1>8, <1>12, <1>14, ClosingMoves DEF Closing, Destroying, IsOpen, OpenState
<1>15. CASE (Destroying(w, v) /\ conn[c].state = "kDisconnected") \/ Failing(w, v)
  <2>1. conn'[c].state = conn[c].state
    BY <1>8, <1>12, <1>15 DEF Destroying, Failing
  <2> QED BY <1>7, <1>12, <2>1, NothingMoves DEF SameStage
<1>16. CASE Opening(w, v)
  <2>1. Stage(c) = "opening" /\ Stage(c)' \in {"up", "closing"}
    BY <1>4, <1>5, <1>8, <1>12, <1>16, StageNames, NextStageNames DEF Opening
  <2>2. CL!Move(c, {"opening"}, {"up", "closing"})
    BY <1>5, <1>12, <2>1, OneMoves
  <2> QED BY <1>5, <2>2 DEF Lives, CL!Next, CL!Open
<1>17. Destroying(w, v) => conn[c].state = "kConnected" \/ conn[c].state = "kDisconnected"
  BY <1>8 DEF Destroying
<1> QED BY <1>10, <1>13, <1>14, <1>15, <1>16, <1>17

\* ~TcpServer() drops a connection.
LEMMA DropMoves ==
  ASSUME QuietUsers, TypeOK, Core, failed = "none", NEW c \in Conns, NEW u,
         NEW res \in WriteResult, DropConnection(c, u, res)
  PROVE  Lives
<1>1. c \in map /\ (DropHere(c, u, res) \/ DropThere(c))
  BY DEF DropConnection
<1>2. CASE DropThere(c)
  BY <1>2, NothingMoves DEF DropThere, SameStage
<1>3. CASE DropHere(c, u, res)
  <2>1. PICK w : w = [World(c) EXCEPT !.map = @ \ {c}]
    OBVIOUS
  <2>2. PICK v : v = ConnectDestroyed(w, u, res)
    OBVIOUS
  <2>3. /\ conn' = [conn EXCEPT ![c] = v.conn] /\ map' = v.map
        /\ UNCHANGED <<pending, timers, kept, held, doing>>
        /\ IF FailureOf(v) = "none"
           THEN DestroyUnreferenced([poller EXCEPT ![Base] = v.poller])
           ELSE UNCHANGED life
    BY <1>3, <2>1, <2>2 DEF DropHere, loopVars, userVars
  <2>4. Live(c)
    BY <1>1 DEF Core, ReferencedAreLive, Referenced
  <2>5. /\ Proper(w) /\ w.news \in Seq(SmallTask(w.c)) /\ w.c = c /\ w.conn = conn[c]
        /\ w.map = map \ {c}
    <3>1. PICK x : x = World(c)
      OBVIOUS
    <3>2. /\ Proper(x) /\ x.news \in Seq(SmallTask(x.c)) /\ x.c = c /\ x.conn = conn[c]
          /\ x.map = map /\ x \in WorldType
      BY <2>4, <3>1, WorldIsProper DEF Proper
    <3>3. w = [x EXCEPT !.map = @ \ {c}]
      BY <2>1, <3>1
    <3>4. /\ w \in WorldType /\ w.c = c /\ w.conn = x.conn /\ w.poller = x.poller
          /\ w.map = map \ {c} /\ w.news = x.news /\ w.failed = x.failed
      BY <3>2, <3>3 DEF WorldType
    <3> QED BY <3>2, <3>4 DEF Proper
  <2>6. IF CannotRemove(w) THEN Failing(w, v) ELSE Destroying(w, v)
    <3>1. QuietCallbacks
      BY DEF QuietUsers
    <3> QED BY <2>2, <2>5, <3>1, ConnectDestroyedDestroys
  <2>7. conn'[c] = v.conn /\ \A d \in Conns \ {c} : conn'[d] = conn[d]
    BY <2>3 DEF TypeOK
  <2>8. CASE CannotRemove(w)
    <3>1. v.conn = conn[c] /\ FailureOf(v) # "none"
      BY <2>5, <2>6, <2>8 DEF Failing, FailureOf
    <3> QED BY <2>3, <2>7, <3>1, NothingMoves DEF SameStage
  <2>9. CASE ~CannotRemove(w)
    <3>1. /\ FailureOf(v) = "none" /\ v.map = map \ {c}
          /\ conn'[c].state = "kDisconnected"
      BY <2>5, <2>6, <2>7, <2>9 DEF Destroying, FailureOf, Sound
    <3>2. conn[c].state = "kConnected"
      <4>1. conn[c].state # "kDisconnected"
        BY <1>1, <2>4 DEF Core, ConnsInOrder, ConnInOrder, InOrder
      <4> QED BY <2>5, <2>9, <4>1, StateType DEF CannotRemove, State
    <3>3. DestroyUnreferenced([poller EXCEPT ![Base] = v.poller])
      BY <2>3, <3>1
    <3>4. \A d \in Conns \ {c} : Referenced(d)' <=> Referenced(d)
      BY <2>3, <3>1 DEF Referenced
    <3>5. \A d \in Conns \ {c} : life'[d] = life[d]
      BY <3>3, <3>4 DEF Core, ReferencedAreLive, DestroyUnreferenced, Live
    <3>6. life'[c] \in {"live", "gone"}
      BY <2>4, <3>3 DEF DestroyUnreferenced, Live
    <3>7. \A d \in Conns \ {c} : SameStage(d)
      BY <2>7, <3>5 DEF SameStage
    <3>8. Stage(c) = "up" /\ Stage(c)' \in {"down", "gone"}
      BY <2>4, <3>1, <3>2, <3>6, StageNames, NextStageNames DEF Live
    <3>9. CL!Move(c, {"up"}, {"down", "gone"})
      BY <3>7, <3>8, OneMoves
    <3> QED BY <3>9 DEF Lives, CL!Next, CL!Drop
  <2> QED BY <2>8, <2>9
<1> QED BY <1>1, <1>2, <1>3


LEMMA LoopStepMoves ==
  ASSUME QuietUsers, TypeOK, Core, failed = "none", NEW l \in Loops, LoopStep(l)
  PROVE  Lives
<1>1. CASE LoopOnly(l)
  BY <1>1, NothingMoves DEF LoopOnly, serverVars, objVars, SameStage
<1>2. CASE Poll(l)
  BY <1>2, NothingMoves DEF Poll, SameStage
<1>3. ASSUME NEW c \in Conns, NEW u, NEW res \in WriteResult, HandleConn(l, c, u, res)
      PROVE  Lives
  BY <1>3, HandleConnMoves
<1>4. CASE HandleListen
  <2>1. CASE AcceptFailed
    BY <2>1, NothingMoves DEF AcceptFailed, serverVars, objVars, SameStage
  <2>2. ASSUME NEW c \in Conns, life[c] = "backlog", Refuse(c)
        PROVE  Lives
    BY <2>2, RefuseMoves
  <2>3. ASSUME NEW c \in Conns, life[c] = "backlog", NEW f \in Fd, NEW u,
               NEW res \in WriteResult, FreeFd(f), Accept(c, f, u, res)
        PROVE  Lives
    BY <2>3, AcceptMoves
  <2> QED BY <1>4, <2>1, <2>2, <2>3 DEF HandleListen
<1>5. CASE SwapPending(l)
  BY <1>5, NothingMoves DEF SwapPending, objVars, SameStage
<1>6. ASSUME NEW u, NEW res \in WriteResult, RunFunctor(l, u, res) PROVE Lives
  BY <1>6, RunFunctorMoves
<1>7. CASE EndFunctors(l)
  <2>1. failed' = "none"
    BY <1>7, EndFunctorsStep
  <2>2. DestroyUnreferenced(poller) /\ conn' = conn
    BY <1>7 DEF EndFunctors
  <2> QED BY <2>1, <2>2, DestroyingMoves
<1> QED BY <1>1, <1>2, <1>3, <1>4, <1>5, <1>6, <1>7, Zenon DEF LoopStep

LEMMA StopStepMoves ==
  ASSUME QuietUsers, TypeOK, Core, failed = "none", StopStep
  PROVE  Lives
<1>1. ASSUME NEW c \in Conns, NEW u, NEW res \in WriteResult, DropConnection(c, u, res)
      PROVE  Lives
  BY <1>1, DropMoves
<1>2. CASE EndBody \/ EndServer
  BY <1>2, NothingMoves DEF EndBody, EndServer, objVars, SameStage
<1>3. CASE StopThread
  BY <1>3, NothingMoves DEF StopThread, serverVars, objVars, SameStage
<1> QED BY <1>1, <1>2, <1>3, Zenon DEF StopStep

LEMMA OtherStepMoves ==
  ASSUME QuietUsers, TypeOK, Core, failed = "none",
         \/ \E c \in Conns : Connect(c) \/ \E op \in PeerOps : Peer(c, op)
         \/ \E t \in Loops \cup Threads : Wakeup(t)
         \/ QuitBase
         \/ \E t \in Threads : StoreState(t) \/ FinishCall(t)
         \/ \E t \in Threads, c \in Conns :
               Release(t, c) \/ \E op \in ThreadOps : EnterCall(t, c, op)
  PROVE  Lives
<1>1. ASSUME NEW c \in Conns, Connect(c) PROVE Lives
  BY <1>1, ConnectMoves
<1>2. ASSUME NEW c \in Conns, NEW op \in PeerOps, Peer(c, op) PROVE Lives
  <2>1. op \in {"data", "fin", "rst"}
    BY ServerAssumption
  <2> QED BY <1>2, <2>1, PeerMoves
<1>3. CASE QuitBase \/ \E t \in Loops \cup Threads : Wakeup(t)
  BY <1>3, NothingMoves DEF QuitBase, Wakeup, serverVars, objVars, SameStage
<1>4. ASSUME NEW t \in Threads, StoreState(t) PROVE Lives
  <2>1. doing[t].op = "send"
    BY <1>4 DEF StoreState, Core, CallsAreQuiet, QuietUsers
  <2>2. conn' = conn /\ life' = life
    BY <1>4, <2>1 DEF StoreState
  <2> QED BY <2>2, NothingMoves DEF SameStage
<1>5. ASSUME NEW t \in Threads, FinishCall(t) PROVE Lives
  BY <1>5, NothingMoves DEF FinishCall, objVars, SameStage
<1>6. ASSUME NEW t \in Threads, NEW c \in Conns, Release(t, c) PROVE Lives
  <2>1. failed' = "none"
    BY <1>6, ReleaseStep
  <2>2. DestroyUnreferenced(poller) /\ conn' = conn
    BY <1>6 DEF Release
  <2> QED BY <2>1, <2>2, DestroyingMoves
<1>7. ASSUME NEW t \in Threads, NEW c \in Conns, NEW op, EnterCall(t, c, op) PROVE Lives
  BY <1>7, NothingMoves DEF EnterCall, objVars, SameStage
<1> QED BY <1>1, <1>2, <1>3, <1>4, <1>5, <1>6, <1>7, Zenon

LEMMA NextMoves ==
  ASSUME QuietUsers, IInv, Next
  PROVE  Lives
<1>1. TypeOK /\ Core /\ failed = "none"
  BY DEF IInv, Claims, Next
<1>2. CASE \E l \in Loops : LoopStep(l)
  BY <1>1, <1>2, LoopStepMoves
<1>3. CASE StopStep
  BY <1>1, <1>3, StopStepMoves
<1>4. CASE \/ \E c \in Conns : Connect(c) \/ \E op \in PeerOps : Peer(c, op)
           \/ \E t \in Loops \cup Threads : Wakeup(t)
           \/ QuitBase
           \/ \E t \in Threads : StoreState(t) \/ FinishCall(t)
           \/ \E t \in Threads, c \in Conns :
                 Release(t, c) \/ \E op \in ThreadOps : EnterCall(t, c, op)
  BY <1>1, <1>4, OtherStepMoves
<1> QED BY <1>2, <1>3, <1>4, Zenon DEF Next

-----------------------------------------------------------------------------
(* The theorems.                                                           *)

\* Every variable keeps its type.
THEOREM TypeCorrect == QuietUsers => (SafeSpec => []TypeOK)
<1>1. IInv => TypeOK
  BY DEF IInv, Claims
<1> QED BY <1>1, Invariance, PTL

\* The raw Channel pointers of the kernel, of the pollers and of the loops' lists
\* of active channels are of connections that exist and belong to the loop.
THEOREM ChannelsNeverDangle == QuietUsers => (SafeSpec => []NoDanglingChannel)
<1>1. IInv => NoDanglingChannel
  BY DEF IInv, Claims
<1> QED BY <1>1, Invariance, PTL

\* A closed connection is not registered with the kernel, and gets no event.
THEOREM ClosedConnectionsAreSilent == QuietUsers => (SafeSpec => []ClosedIsSilent)
<1>1. IInv => ClosedIsSilent
  BY DEF IInv, Claims
<1> QED BY <1>1, Invariance, PTL

\* m_connections holds the connections that are not closed yet, and no other.
THEOREM MapHoldsTheLive == QuietUsers => (SafeSpec => []MapIsLive)
<1>1. IInv => MapIsLive
  BY DEF IInv, Claims
<1> QED BY <1>1, Invariance, PTL

\* An assert fails only if ~TcpServer() met a connection of another loop, or one
\* that its user had begun to close.
THEOREM AssertsFailOnlyAtStop == QuietUsers => (SafeSpec => []FailsOnlyAtStop)
<1>1. IInv => FailsOnlyAtStop
  BY DEF IInv, Claims
<1> QED BY <1>1, Invariance, PTL

\* A server that is gone left no connection of its own loop open.
THEOREM ServerLeavesNoneOpen == QuietUsers => (SafeSpec => []NoneLeftOpen)
<1>1. IInv => NoneLeftOpen
  BY DEF IInv, Claims
<1> QED BY <1>1, Invariance, PTL

\* The channel of each connection is removed from its poller once, by one
\* connectDestroyed(), as long as ~TcpServer() meets no connection of another
\* loop.
THEOREM ChannelsAreRemovedOnce == QuietUsers => (SafeSpec => [](DroppedHere => RemovedOnce))
<1>1. IInv => (DroppedHere => RemovedOnce)
  BY DEF IInv, Claims
<1> QED BY <1>1, Invariance, PTL

\* It is always removed once by a server without a pool of threads.
THEOREM RemovedOnceWithoutPool == QuietUsers /\ Pool = <<>> => (SafeSpec => []RemovedOnce)
<1> SUFFICES ASSUME QuietUsers, Pool = <<>> PROVE SafeSpec => []RemovedOnce
  OBVIOUS
<1>1. IInv => TypeOK /\ OneLoop /\ (DroppedHere => RemovedOnce)
  BY DEF IInv, Claims
<1>2. TypeOK /\ OneLoop => DroppedHere
  BY DEF TypeOK, OneLoop, DroppedHere
<1> QED BY <1>1, <1>2, Invariance, PTL

\* Each connection goes through the stages of ConnectionLife: it is opened once,
\* closed once, its user told of both, and freed after that.
THEOREM ConnectionsLiveOnce == QuietUsers => (SafeSpec => LifeCycle)
<1> SUFFICES ASSUME QuietUsers PROVE SafeSpec => LifeCycle
  OBVIOUS
<1>1. Init => CL!Init
  BY DEF Init, Stage, CL!Init
<1>2. IInv /\ [Next]_vars => [CL!Next]_([c \in Conns |-> Stage(c)])
  <2> SUFFICES ASSUME IInv, [Next]_vars PROVE [CL!Next]_([c \in Conns |-> Stage(c)])
    OBVIOUS
  <2>1. Lives
    <3>1. CASE Next
      BY <3>1, NextMoves
    <3>2. CASE UNCHANGED vars
      BY <3>2, NothingMoves DEF vars, serverVars, objVars, SameStage
    <3> QED BY <3>1, <3>2
  <2> QED BY <2>1 DEF Lives
<1> QED BY <1>1, <1>2, Invariance, PTL DEF SafeSpec, LifeCycle, CL!Spec

=============================================================================
