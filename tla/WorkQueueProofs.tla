-------------------------- MODULE WorkQueueProofs --------------------------
(***************************************************************************)
(* Proofs about WorkQueue, for any number of keys, producers, workers and  *)
(* timers, with or without debounce.                                       *)
(***************************************************************************)
EXTENDS WorkQueue, TLAPS

-----------------------------------------------------------------------------
(* Type correctness                                                        *)

\* A new debounce task keeps the timers well typed.
LEMMA CreateTimerType ==
    ASSUME TypeOK, NEW k \in Keys, NEW v \in Nat, CreateTimer(k, v)
    PROVE  /\ timers' \in [Keys -> Maybe(Timers)]
           /\ task' \in [Timers -> Tasks]
           /\ removed' \subseteq Timers
           /\ \A t \in Timers : task'[t].st # "free" => task'[t].key \in Keys
  BY DEF TypeOK, CreateTimer, Tasks, Maybe, TaskStates

\* A cancelled task keeps its key.
LEMMA CancelTaskType ==
    ASSUME TypeOK, NEW t \in Timers, CancelTask(t)
    PROVE  /\ task' \in [Timers -> Tasks]
           /\ \A u \in Timers : task'[u].st # "free" => task'[u].key \in Keys
  BY DEF TypeOK, CancelTask, TaskIn, Tasks, Maybe, TaskStates

\* put_key keeps the queue well typed.
LEMMA PutKeyType ==
    ASSUME TypeOK, NEW k \in Keys, NEW v \in Nat, PutKey(k, v)
    PROVE  /\ dirty' \in [Keys -> Maybe(Nat)]
           /\ active' \subseteq Keys
           /\ queue' \in Seq(Keys)
  <1>1. dirty' \in [Keys -> Maybe(Nat)]
    BY DEF TypeOK, PutKey, Maybe
  <1>2. queue \in Seq(Keys) /\ Append(queue, k) \in Seq(Keys)
    BY DEF TypeOK
  <1> QED BY <1>1, <1>2 DEF TypeOK, PutKey, AddKeyToQueue

\* put, by any caller, keeps everything well typed that it changes.
LEMMA PutType ==
    ASSUME TypeOK, NEW c \in Callers, NEW k \in Keys, NEW v \in Nat,
           NEW d \in BOOLEAN, Put(c, k, v, d)
    PROVE  /\ dirty' \in [Keys -> Maybe(Nat)]
           /\ active' \subseteq Keys
           /\ queue' \in Seq(Keys)
           /\ timers' \in [Keys -> Maybe(Timers)]
           /\ task' \in [Timers -> Tasks]
           /\ removed' \subseteq Timers
           /\ call' \in [Callers -> Maybe(Calls)]
           /\ \A t \in Timers : task'[t].st # "free" => task'[t].key \in Keys
  <1>1. CASE ~d
    BY <1>1, PutKeyType DEF Put, TypeOK, timerVars
  <1>2. CASE d /\ timers[k] = None
    BY <1>2, CreateTimerType DEF Put, TypeOK, queueVars
  <1>3. CASE d /\ timers[k] # None
    <2>1. timers[k] \in Timers
      BY <1>3 DEF TypeOK, Maybe
    <2>2. CancelTask(timers[k])
      BY <1>3 DEF Put
    <2>3. call' \in [Callers -> Maybe(Calls)]
      <3>1. [op |-> "put", key |-> k, val |-> v, on |-> timers[k]] \in Calls
        BY <2>1 DEF Calls
      <3> QED BY <1>3, <3>1 DEF Put, TypeOK, Maybe
    <2> QED BY <1>3, <2>1, <2>2, <2>3, CancelTaskType DEF Put, TypeOK, queueVars
  <1> QED BY <1>1, <1>2, <1>3

\* Every step of the queue keeps TypeOK, provided that the inner queue only
\* holds dirty keys: get would otherwise hand out no value.
LEMMA TypeStep ==
    ASSUME TypeOK, DirtyIsActive, [Next]_vars
    PROVE  TypeOK'
  <1> USE WQAssumption
  <1>1. ASSUME NEW p \in Producers, NEW k \in Keys, Receive(p, k)
        PROVE  TypeOK'
    <2>1. p \in Callers /\ version[k] + 1 \in Nat
      BY DEF TypeOK, Callers
    <2>2. PICK delayed \in BOOLEAN : Put(p, k, version[k] + 1, delayed)
      BY <1>1 DEF Receive
    <2>3. newest' \in [Keys -> Nat] /\ version' \in [Keys -> Nat]
      BY <1>1, <2>1 DEF Receive, TypeOK
    <2>4. /\ work' = work /\ phase' = phase /\ handled' = handled
      BY <1>1 DEF Receive
    <2> QED BY <2>1, <2>2, <2>3, <2>4, PutType DEF TypeOK
  <1>2. ASSUME NEW p \in Producers, NEW k \in Keys, Cancel(p, k)
        PROVE  TypeOK'
    <2>1. CASE timers[k] = None
      BY <1>2, <2>1 DEF Cancel, TypeOK, queueVars
    <2>2. CASE timers[k] # None
      <3>1. timers[k] \in Timers /\ p \in Callers
        BY <2>2 DEF TypeOK, Maybe, Callers
      <3>2. CancelTask(timers[k])
        BY <1>2, <2>2 DEF Cancel
      <3>3. call' \in [Callers -> Maybe(Calls)]
        <4>1. [op |-> "cancel", key |-> k, val |-> 0, on |-> timers[k]] \in Calls
          BY <3>1 DEF Calls
        <4> QED BY <1>2, <2>2, <4>1 DEF Cancel, TypeOK, Maybe
      <3> QED BY <1>2, <3>1, <3>2, <3>3, CancelTaskType DEF Cancel, TypeOK, queueVars
    <2> QED BY <2>1, <2>2
  <1>3. ASSUME NEW c \in Callers, Resume(c)
        PROVE  TypeOK'
    <2>1. call[c] \in Calls
      BY <1>3 DEF Resume, TypeOK, Maybe
    <2>2. call[c].key \in Keys /\ call[c].val \in Nat
      BY <2>1 DEF Calls
    <2>3. call' \in [Callers -> Maybe(Calls)]
      BY <1>3 DEF Resume, TypeOK, Maybe
    <2>4. CASE call[c].op = "put"
      <3>1. CreateTimer(call[c].key, call[c].val)
        BY <1>3, <2>4 DEF Resume
      <3> QED BY <1>3, <2>2, <2>3, <3>1, CreateTimerType DEF Resume, TypeOK, queueVars, history
    <2>5. CASE call[c].op # "put"
      BY <1>3, <2>3, <2>5 DEF Resume, TypeOK, queueVars, timerVars, history
    <2> QED BY <2>4, <2>5
  <1>4. ASSUME NEW c \in Callers, Abandon(c)
        PROVE  TypeOK'
    BY <1>4 DEF Abandon, TypeOK, Maybe, queueVars, timerVars, history
  <1>5. ASSUME NEW t \in Timers, Fire(t)
        PROVE  TypeOK'
    <2>1. task[t].key \in Keys /\ task[t].val \in Nat
      BY <1>5 DEF Fire, TypeOK, Tasks
    <2>2. PutKey(task[t].key, task[t].val)
      BY <1>5 DEF Fire
    <2>3. /\ task' \in [Timers -> Tasks]
          /\ \A u \in Timers : task'[u].st # "free" => task'[u].key \in Keys
      BY <1>5, <2>1 DEF Fire, TypeOK, TaskIn, Tasks, TaskStates, Maybe
    <2> QED BY <1>5, <2>1, <2>2, <2>3, PutKeyType DEF Fire, TypeOK, history
  <1>6. ASSUME NEW t \in Timers, RemoveTimer(t)
        PROVE  TypeOK'
    <2>1. /\ task' \in [Timers -> Tasks]
          /\ \A u \in Timers : task'[u].st # "free" => task'[u].key \in Keys
      BY <1>6 DEF RemoveTimer, TypeOK, Tasks, TaskStates, Maybe
    <2>2. task[t].key \in Keys
      BY <1>6 DEF RemoveTimer, TypeOK
    <2>3. timers' \in [Keys -> Maybe(Timers)] /\ removed' \subseteq Timers
      BY <1>6, <2>2 DEF RemoveTimer, TypeOK, Maybe
    <2> QED BY <1>6, <2>1, <2>3 DEF RemoveTimer, TypeOK, queueVars, history
  <1>7. ASSUME NEW w \in Workers, Get(w)
        PROVE  TypeOK'
    <2>1. Head(queue) \in Keys /\ Tail(queue) \in Seq(Keys) /\ dirty[Head(queue)] \in Nat
      BY <1>7 DEF Get, TypeOK, DirtyIsActive, Maybe
    <2>2. work' \in [Workers -> Maybe(Works)]
      BY <1>7, <2>1 DEF Get, TypeOK, Maybe, Works
    <2> QED BY <1>7, <2>1, <2>2 DEF Get, TypeOK, Maybe, timerVars
  <1>8. ASSUME NEW w \in Workers, Requeue(w)
        PROVE  TypeOK'
    <2>1. work[w] \in Works /\ w \in Callers
      BY <1>8 DEF Requeue, TypeOK, Maybe, Callers
    <2>2. work[w].key \in Keys /\ work[w].val \in Nat
      BY <2>1 DEF Works
    <2>3. Put(w, work[w].key, work[w].val, TRUE)
      BY <1>8 DEF Requeue
    <2>4. work' \in [Workers -> Maybe(Works)]
      <3>1. [key |-> work[w].key, val |-> work[w].val, again |-> TRUE] \in Works
        BY <2>2 DEF Works
      <3> QED BY <1>8, <3>1 DEF Requeue, TypeOK, Maybe
    <2> QED BY <1>8, <2>1, <2>2, <2>3, <2>4, PutType DEF Requeue, TypeOK, history
  <1>9. ASSUME NEW w \in Workers, Done(w)
        PROVE  TypeOK'
    <2>1. work[w].key \in Keys
      BY <1>9 DEF Done, TypeOK, Maybe, Works
    <2>2. active' \subseteq Keys /\ queue' \in Seq(Keys)
      <3>1. queue \in Seq(Keys) /\ Append(queue, work[w].key) \in Seq(Keys)
        BY <2>1 DEF TypeOK
      <3> QED BY <1>9, <2>1, <3>1 DEF Done, TypeOK, AddKeyToQueue
    <2>3. work' \in [Workers -> Maybe(Works)]
      BY <1>9 DEF Done, TypeOK, Maybe
    <2> QED BY <1>9, <2>2, <2>3 DEF Done, TypeOK, timerVars, history
  <1>10. CASE Stop
    BY <1>10 DEF Stop, TypeOK, Phases, queueVars, timerVars, history
  <1>11. CASE Close
    <2>1. /\ task' \in [Timers -> Tasks]
          /\ \A u \in Timers : task'[u].st # "free" => task'[u].key \in Keys
      BY <1>11 DEF Close, TypeOK, TaskIn, Tasks, TaskStates, Maybe
    <2> QED BY <1>11, <2>1 DEF Close, TypeOK, Phases, queueVars, history
  <1>12. CASE Closed
    BY <1>12 DEF Closed, TypeOK, Phases, Maybe, queueVars, history
  <1>13. CASE UNCHANGED vars
    BY <1>13 DEF vars, TypeOK, queueVars, timerVars, history
  <1> QED BY <1>1, <1>2, <1>3, <1>4, <1>5, <1>6, <1>7, <1>8, <1>9, <1>10,
             <1>11, <1>12, <1>13 DEF Next, Terminated

-----------------------------------------------------------------------------
(* The queue, active, dirty and the workers agree                          *)

\* QInv speaks of nothing but the queue and the keys held.
LEMMA QSame ==
    ASSUME QInv, UNCHANGED queueVars, Holding' = Holding
    PROVE  QInv'
  BY DEF QInv, ActiveAccounted, DirtyIsActive, StrictSequential, queueVars

\* A key that is not active can be appended to the inner queue.
LEMMA QAppend ==
    ASSUME TypeOK, QInv, NEW k \in Keys, k \notin active,
           AddKeyToQueue(k), Holding' = Holding,
           \A j \in Keys : dirty[j] # None => dirty'[j] # None,
           \A j \in Keys : dirty'[j] # None => dirty[j] # None \/ j = k,
           dirty'[k] # None
    PROVE  QInv'
  <1>1. /\ queue \in Seq(Keys) /\ queue' = Append(queue, k)
        /\ DOMAIN queue' = DOMAIN queue \cup {Len(queue) + 1}
        /\ DOMAIN queue = 1..Len(queue) /\ Len(queue) \in Nat
        /\ queue'[Len(queue) + 1] = k
        /\ \A i \in DOMAIN queue : queue'[i] = queue[i] /\ queue[i] \in Keys
    BY DEF TypeOK, AddKeyToQueue
  <1>2. \A i \in DOMAIN queue : queue[i] # k
    BY <1>1 DEF QInv, ActiveAccounted
  <1>3. \A w \in Workers : Holding[w] # k
    BY DEF QInv, ActiveAccounted
  <1>4. \A i, j \in DOMAIN queue' : queue'[i] = queue'[j] => i = j
    BY <1>1, <1>2 DEF QInv, ActiveAccounted
  <1>5. \A i \in DOMAIN queue' : \A w \in Workers : Holding[w] # queue'[i]
    BY <1>1, <1>3 DEF QInv, ActiveAccounted
  <1>6. \A j \in Keys : j \in active' <=>
           \/ \E i \in DOMAIN queue' : queue'[i] = j
           \/ \E w \in Workers : Holding[w] = j
    <2> TAKE j \in Keys
    <2>1. CASE j = k
      BY <1>1, <2>1 DEF AddKeyToQueue
    <2>2. CASE j # k
      <3>1. j \in active' <=> j \in active
        BY <2>2 DEF AddKeyToQueue
      <3>2. (\E i \in DOMAIN queue' : queue'[i] = j) <=> (\E i \in DOMAIN queue : queue[i] = j)
        BY <1>1, <2>2
      <3> QED BY <3>1, <3>2 DEF QInv, ActiveAccounted
    <2> QED BY <2>1, <2>2
  <1>7. ActiveAccounted'
    BY <1>4, <1>5, <1>6 DEF ActiveAccounted
  <1>8. DirtyIsActive'
    <2>1. \A j \in Keys : dirty'[j] # None => j \in active'
      BY DEF QInv, DirtyIsActive, AddKeyToQueue
    <2>2. \A i \in DOMAIN queue' : dirty'[queue'[i]] # None
      BY <1>1 DEF QInv, DirtyIsActive
    <2> QED BY <2>1, <2>2 DEF DirtyIsActive
  <1>9. StrictSequential'
    BY DEF QInv, StrictSequential
  <1> QED BY <1>7, <1>8, <1>9 DEF QInv

\* put_key, by a put without delay or by a timer.
LEMMA QPutKey ==
    ASSUME TypeOK, QInv, NEW k \in Keys, NEW v \in Nat, PutKey(k, v),
           Holding' = Holding
    PROVE  QInv'
  <1>1. dirty \in [Keys -> Maybe(Nat)] /\ v # None
    BY WQAssumption DEF TypeOK
  <1>2. \A j \in Keys : dirty'[j] = IF j = k THEN v ELSE dirty[j]
    BY <1>1 DEF PutKey
  <1>3. CASE k \in active
    <2>1. active' = active /\ queue' = queue
      BY <1>3 DEF PutKey
    <2>2. ActiveAccounted' /\ StrictSequential'
      BY <2>1 DEF QInv, ActiveAccounted, StrictSequential
    <2>3. \A i \in DOMAIN queue : queue[i] \in Keys
      BY DEF TypeOK
    <2>4. DirtyIsActive'
      BY <1>1, <1>2, <1>3, <2>1, <2>3 DEF QInv, DirtyIsActive
    <2> QED BY <2>2, <2>4 DEF QInv
  <1>4. CASE k \notin active
    <2>1. AddKeyToQueue(k)
      BY <1>4 DEF PutKey
    <2> QED BY <1>1, <1>2, <1>4, <2>1, QAppend
  <1> QED BY <1>3, <1>4

\* put, with or without delay, by any caller.
LEMMA QPut ==
    ASSUME TypeOK, QInv, NEW c \in Callers, NEW k \in Keys, NEW v \in Nat,
           NEW d \in BOOLEAN, Put(c, k, v, d), Holding' = Holding
    PROVE  QInv'
  <1>1. CASE ~d
    BY <1>1, QPutKey DEF Put
  <1>2. CASE d
    BY <1>2, QSame DEF Put
  <1> QED BY <1>1, <1>2

\* get takes the first key of the inner queue, which no worker holds.
LEMMA QGet ==
    ASSUME TypeOK, QInv, NEW w \in Workers, Get(w)
    PROVE  QInv'
  <1> DEFINE k == Head(queue)
  <1>1. /\ queue \in Seq(Keys) /\ queue # <<>>
        /\ k = queue[1] /\ k \in Keys /\ 1 \in DOMAIN queue
        /\ DOMAIN queue = 1..Len(queue) /\ Len(queue) \in Nat
        /\ queue' = Tail(queue) /\ DOMAIN queue' = 1..(Len(queue) - 1)
        /\ \A i \in DOMAIN queue' : i + 1 \in DOMAIN queue /\ queue'[i] = queue[i + 1]
    BY DEF TypeOK, Get
  <1>2. \A i \in DOMAIN queue' : queue'[i] # k /\ queue'[i] \in Keys
    BY <1>1 DEF QInv, ActiveAccounted
  <1>3. \A i \in DOMAIN queue : i # 1 => i - 1 \in DOMAIN queue' /\ queue'[i - 1] = queue[i]
    BY <1>1
  <1>4. \A v \in Workers : Holding[v] # k
    BY <1>1 DEF QInv, ActiveAccounted
  <1>5. Holding[w] = None /\ k # None
    BY <1>1, WQAssumption DEF Get, Holding
  <1>6. Holding' = [Holding EXCEPT ![w] = k]
    <2> DEFINE item == [key |-> k, val |-> dirty[k], again |-> FALSE]
    <2>1. item \in Works
      BY <1>1 DEF TypeOK, QInv, DirtyIsActive, Maybe, Works
    <2>2. item # None /\ item.key = k
      BY <2>1, WQAssumption
    <2>3. work' = [work EXCEPT ![w] = item] /\ work \in [Workers -> Maybe(Works)]
      BY DEF Get, TypeOK
    <2> QED BY <2>2, <2>3 DEF Holding
  <1>7. dirty' = [dirty EXCEPT ![k] = None] /\ active' = active
        /\ dirty \in [Keys -> Maybe(Nat)]
    BY DEF Get, TypeOK
  <1>8. \A v \in Workers : Holding'[v] = IF v = w THEN k ELSE Holding[v]
    BY <1>6 DEF Holding
  <1> HIDE DEF k
  <1>9. StrictSequential'
    BY <1>4, <1>5, <1>8 DEF QInv, StrictSequential
  <1>10. ActiveAccounted'
    <2>1. \A i, j \in DOMAIN queue' : queue'[i] = queue'[j] => i = j
      BY <1>1 DEF QInv, ActiveAccounted
    <2>2. \A i \in DOMAIN queue' : \A v \in Workers : Holding'[v] # queue'[i]
      BY <1>1, <1>2, <1>8 DEF QInv, ActiveAccounted
    <2>3. ASSUME NEW j \in Keys
          PROVE  j \in active' <=>
                   \/ \E i \in DOMAIN queue' : queue'[i] = j
                   \/ \E v \in Workers : Holding'[v] = j
      <3>1. CASE j = k
        <4>1. j \in active'
          BY <1>1, <1>7, <3>1 DEF QInv, ActiveAccounted
        <4> QED BY <1>8, <3>1, <4>1
      <3>2. CASE j # k
        <4>1. (\E i \in DOMAIN queue' : queue'[i] = j) <=> (\E i \in DOMAIN queue : queue[i] = j)
          BY <1>1, <1>3, <3>2
        <4>2. j # None
          BY WQAssumption
        <4>3. (\E v \in Workers : Holding'[v] = j) <=> (\E v \in Workers : Holding[v] = j)
          BY <1>5, <1>8, <3>2, <4>2
        <4> QED BY <1>7, <4>1, <4>3 DEF QInv, ActiveAccounted
      <3> QED BY <3>1, <3>2
    <2> QED BY <2>1, <2>2, <2>3 DEF ActiveAccounted
  <1>11. DirtyIsActive'
    BY <1>1, <1>2, <1>7 DEF QInv, DirtyIsActive
  <1> QED BY <1>9, <1>10, <1>11 DEF QInv

\* done releases the key and queues it again if a value arrived meanwhile.
LEMMA QDone ==
    ASSUME TypeOK, QInv, NEW w \in Workers, Done(w)
    PROVE  QInv'
  <1> DEFINE k == work[w].key
  <1>1. k \in Keys /\ k # None /\ Holding[w] = k
    <2>1. work[w] \in Works
      BY DEF Done, TypeOK, Maybe
    <2> QED BY <2>1, WQAssumption DEF Done, Works, Holding
  <1>2. \A v \in Workers : Holding'[v] = IF v = w THEN None ELSE Holding[v]
    BY DEF Done, TypeOK, Holding
  <1>3. dirty' = dirty /\ queue \in Seq(Keys)
        /\ (dirty[k] = None => active' = active \ {k} /\ queue' = queue)
        /\ (dirty[k] # None => active' = active \cup {k} /\ queue' = Append(queue, k))
    BY DEF Done, AddKeyToQueue, TypeOK
  <1> HIDE DEF k
  <1>4. \A i \in DOMAIN queue : queue[i] # k /\ queue[i] \in Keys /\ queue[i] # None
    BY <1>1, <1>3, WQAssumption DEF QInv, ActiveAccounted
  <1>5. \A v \in Workers : Holding'[v] # k
    BY <1>1, <1>2 DEF QInv, StrictSequential
  <1>6. StrictSequential'
    BY <1>2 DEF QInv, StrictSequential
  <1>7. ASSUME NEW j \in Keys, j # k
        PROVE  (\E v \in Workers : Holding'[v] = j) <=> (\E v \in Workers : Holding[v] = j)
    <2>1. j # None
      BY WQAssumption
    <2> QED BY <1>1, <1>2, <1>7, <2>1
  <1>8. CASE dirty[k] = None
    <2>1. \A i \in DOMAIN queue : \A v \in Workers : Holding'[v] # queue[i]
      BY <1>2, <1>4 DEF QInv, ActiveAccounted
    <2>2. ASSUME NEW j \in Keys
          PROVE  j \in active' <=>
                   \/ \E i \in DOMAIN queue : queue[i] = j
                   \/ \E v \in Workers : Holding'[v] = j
      <3>1. CASE j = k
        BY <1>3, <1>4, <1>5, <1>8, <3>1
      <3>2. CASE j # k
        BY <1>3, <1>7, <1>8, <3>2 DEF QInv, ActiveAccounted
      <3> QED BY <3>1, <3>2
    <2>3. ActiveAccounted'
      BY <1>3, <1>8, <2>1, <2>2 DEF QInv, ActiveAccounted
    <2>4. DirtyIsActive'
      BY <1>3, <1>8 DEF QInv, DirtyIsActive
    <2> QED BY <1>6, <2>3, <2>4 DEF QInv
  <1>9. CASE dirty[k] # None
    <2>1. /\ queue' = Append(queue, k) /\ Len(queue) \in Nat
          /\ DOMAIN queue' = DOMAIN queue \cup {Len(queue) + 1}
          /\ DOMAIN queue = 1..Len(queue)
          /\ queue'[Len(queue) + 1] = k
          /\ \A i \in DOMAIN queue : queue'[i] = queue[i]
      <3>1. queue \in Seq(Keys) /\ queue' = Append(queue, k)
        BY <1>3, <1>9
      <3> QED BY <1>1, <3>1
    <2>2. \A i, j \in DOMAIN queue' : queue'[i] = queue'[j] => i = j
      BY <1>4, <2>1 DEF QInv, ActiveAccounted
    <2>3. \A i \in DOMAIN queue' : \A v \in Workers : Holding'[v] # queue'[i]
      BY <1>2, <1>4, <1>5, <2>1 DEF QInv, ActiveAccounted
    <2>4. ASSUME NEW j \in Keys
          PROVE  j \in active' <=>
                   \/ \E i \in DOMAIN queue' : queue'[i] = j
                   \/ \E v \in Workers : Holding'[v] = j
      <3>1. CASE j = k
        BY <1>3, <1>9, <2>1, <3>1
      <3>2. CASE j # k
        <4>1. (\E i \in DOMAIN queue' : queue'[i] = j) <=> (\E i \in DOMAIN queue : queue[i] = j)
          BY <2>1, <3>2
        <4> QED BY <1>3, <1>7, <1>9, <3>2, <4>1 DEF QInv, ActiveAccounted
      <3> QED BY <3>1, <3>2
    <2>5. ActiveAccounted'
      BY <2>2, <2>3, <2>4 DEF ActiveAccounted
    <2>6. DirtyIsActive'
      BY <1>3, <1>9, <2>1 DEF QInv, DirtyIsActive
    <2> QED BY <1>6, <2>5, <2>6 DEF QInv
  <1> QED BY <1>8, <1>9

\* Putting an item back does not change which key its worker holds.
LEMMA RequeueHolds ==
    ASSUME TypeOK, NEW w \in Workers, Requeue(w)
    PROVE  Holding' = Holding
  <1> DEFINE item == [key |-> work[w].key, val |-> work[w].val, again |-> TRUE]
  <1>1. work[w] \in Works
    BY DEF Requeue, TypeOK, Maybe
  <1>2. item \in Works /\ item.key = work[w].key
    BY <1>1 DEF Works
  <1>3. item # None
    BY <1>2, WQAssumption
  <1>4. work' = [work EXCEPT ![w] = item] /\ work \in [Workers -> Maybe(Works)]
    BY DEF Requeue, TypeOK
  <1>5. work[w] # None
    BY DEF Requeue
  <1> HIDE DEF item
  <1> QED BY <1>2, <1>3, <1>4, <1>5 DEF Holding

\* Every step of the queue and of the coroutines around it keeps QInv.
LEMMA QStep ==
    ASSUME TypeOK, QInv, [Next]_vars
    PROVE  QInv'
  <1>1. ASSUME NEW p \in Producers, NEW k \in Keys, Receive(p, k)
        PROVE  QInv'
    <2>1. p \in Callers /\ version[k] + 1 \in Nat /\ Holding' = Holding
      BY <1>1 DEF TypeOK, Callers, Receive, Holding
    <2>2. PICK delayed \in BOOLEAN : Put(p, k, version[k] + 1, delayed)
      BY <1>1 DEF Receive
    <2> QED BY <2>1, <2>2, QPut
  <1>2. ASSUME NEW p \in Producers, NEW k \in Keys, Cancel(p, k)
        PROVE  QInv'
    BY <1>2, QSame DEF Cancel, Holding
  <1>3. ASSUME NEW c \in Callers, Resume(c) \/ Abandon(c)
        PROVE  QInv'
    BY <1>3, QSame DEF Resume, Abandon, Holding
  <1>4. ASSUME NEW t \in Timers, Fire(t)
        PROVE  QInv'
    <2>1. task[t].key \in Keys /\ task[t].val \in Nat
      BY <1>4 DEF Fire, TypeOK, Tasks
    <2>2. PutKey(task[t].key, task[t].val) /\ Holding' = Holding
      BY <1>4 DEF Fire, Holding
    <2> QED BY <2>1, <2>2, QPutKey
  <1>5. ASSUME NEW t \in Timers, RemoveTimer(t)
        PROVE  QInv'
    BY <1>5, QSame DEF RemoveTimer, Holding
  <1>6. ASSUME NEW w \in Workers, Requeue(w)
        PROVE  QInv'
    <2>1. work[w] \in Works /\ w \in Callers
      BY <1>6 DEF Requeue, TypeOK, Maybe, Callers
    <2>2. work[w].key \in Keys /\ work[w].val \in Nat
      BY <2>1 DEF Works
    <2>3. Put(w, work[w].key, work[w].val, TRUE)
      BY <1>6 DEF Requeue
    <2> QED BY <1>6, <2>1, <2>2, <2>3, RequeueHolds, QPut
  <1>7. CASE Stop \/ Close \/ Closed
    BY <1>7, QSame DEF Stop, Close, Closed, Holding
  <1>8. CASE UNCHANGED vars
    BY <1>8, QSame DEF vars, Holding
  <1> QED BY <1>1, <1>2, <1>3, <1>4, <1>5, <1>6, <1>7, <1>8, QGet, QDone
          DEF Next, Terminated

-----------------------------------------------------------------------------
(* Theorems                                                                *)

\* The initial queue satisfies the inductive invariant.
LEMMA InitIInv ==
    ASSUME Init
    PROVE  IInv
  <1>1. TypeOK
    BY DEF Init, TypeOK, Maybe, Tasks, TaskStates, Phases
  <1>2. QInv
    BY WQAssumption DEF Init, QInv, ActiveAccounted, DirtyIsActive, StrictSequential, Holding
  <1> QED BY <1>1, <1>2 DEF IInv

\* Every run of the queue keeps the inductive invariant: each action of the
\* coroutines that use WorkQueue preserves it.
THEOREM InvariantHolds == Spec => []IInv
  <1>1. Init => IInv
    BY InitIInv
  <1>2. IInv /\ [Next]_vars => IInv'
    BY TypeStep, QStep DEF IInv, QInv
  <1> QED BY <1>1, <1>2, PTL DEF Spec

\* The variables keep their types; in particular get never finds a key of
\* the inner queue without a value in dirty (no KeyError in dirty.pop).
THEOREM TypeCorrect == Spec => []TypeOK
  <1>1. IInv => TypeOK
    BY DEF IInv
  <1> QED BY <1>1, InvariantHolds, PTL

\* A resource is handled by at most one worker at a time, whatever the
\* debounce time, the interleaving of puts and the number of workers.
THEOREM SequentialProcessing == Spec => []StrictSequential
  <1>1. IInv => StrictSequential
    BY DEF IInv, QInv
  <1> QED BY <1>1, InvariantHolds, PTL

\* No key is queued twice, and none stays active that neither the inner
\* queue nor a worker will release.
THEOREM ActiveIsAccounted == Spec => []ActiveAccounted
  <1>1. IInv => ActiveAccounted
    BY DEF IInv, QInv
  <1> QED BY <1>1, InvariantHolds, PTL

\* A value in dirty always belongs to a key that get or done will meet.
THEOREM DirtyStaysActive == Spec => []DirtyIsActive
  <1>1. IInv => DirtyIsActive
    BY DEF IInv, QInv
  <1> QED BY <1>1, InvariantHolds, PTL

-----------------------------------------------------------------------------
(* The queue implements KeyedQueue                                         *)

\* put_key offers a value.
LEMMA OfferStep ==
    ASSUME TypeOK, NEW k \in Keys, NEW v \in Nat, PutKey(k, v), Holding' = Holding
    PROVE  Abs!Offer(k, dirty'[k])
  <1>1. dirty' = [dirty EXCEPT ![k] = v] /\ dirty \in [Keys -> Maybe(Nat)]
    BY DEF PutKey, TypeOK
  <1>2. dirty'[k] = v
    BY <1>1
  <1> QED BY <1>1, <1>2 DEF Abs!Offer

\* put offers its value at once or leaves it to a timer.
LEMMA PutOffers ==
    ASSUME TypeOK, NEW c \in Callers, NEW k \in Keys, NEW v \in Nat,
           NEW d \in BOOLEAN, Put(c, k, v, d), Holding' = Holding
    PROVE  Abs!Offer(k, dirty'[k]) \/ UNCHANGED Abs!absVars
  <1>1. CASE ~d
    BY <1>1, OfferStep DEF Put
  <1>2. CASE d
    BY <1>2 DEF Put, queueVars, Abs!absVars
  <1> QED BY <1>1, <1>2

\* get takes the first queued key, which no worker holds.
LEMMA GetTakes ==
    ASSUME TypeOK, QInv, NEW w \in Workers, Get(w)
    PROVE  Head(queue) \in Keys /\ Abs!Take(w, Head(queue))
  <1> DEFINE k == Head(queue)
             item == [key |-> k, val |-> dirty[k], again |-> FALSE]
  <1>1. k \in Keys /\ 1 \in DOMAIN queue /\ queue[1] = k
    BY DEF TypeOK, Get
  <1>2. dirty[k] # None /\ \A v \in Workers : Holding[v] # k
    BY <1>1 DEF QInv, ActiveAccounted, DirtyIsActive
  <1>3. item \in Works
    BY <1>1, <1>2 DEF TypeOK, Maybe, Works
  <1>4. item # None /\ item.key = k
    BY <1>3, WQAssumption
  <1>5. work' = [work EXCEPT ![w] = item] /\ work \in [Workers -> Maybe(Works)]
        /\ dirty' = [dirty EXCEPT ![k] = None] /\ work[w] = None
    BY DEF Get, TypeOK
  <1> HIDE DEF item, k
  <1>6. Holding' = [Holding EXCEPT ![w] = k] /\ Holding[w] = None
    BY <1>4, <1>5 DEF Holding
  <1>7. Abs!Take(w, k)
    BY <1>2, <1>5, <1>6 DEF Abs!Take
  <1> QED BY <1>1, <1>7 DEF k

\* done releases the key.
LEMMA DoneReleases ==
    ASSUME TypeOK, NEW w \in Workers, Done(w)
    PROVE  Abs!Release(w)
  <1>1. work[w] \in Works /\ work[w] # None
    BY DEF Done, TypeOK, Maybe
  <1>2. Holding[w] # None
    BY <1>1, WQAssumption DEF Works, Holding
  <1>3. Holding' = [Holding EXCEPT ![w] = None]
    BY DEF Done, TypeOK, Holding
  <1> QED BY <1>2, <1>3 DEF Done, Abs!Release

\* Every behaviour of WorkQueue and of the coroutines around it is, seen
\* through dirty and the keys held, a behaviour of KeyedQueue.
THEOREM QueueRefinement == Spec => ImplementsKeyedQueue
  <1>1. Init => Abs!AbsInit
    BY DEF Init, Holding, Abs!AbsInit
  <1>2. TypeOK /\ QInv /\ [Next]_vars => [Abs!AbsNext]_(Abs!absVars)
    <2> SUFFICES ASSUME TypeOK, QInv, [Next]_vars
                 PROVE  Abs!AbsNext \/ UNCHANGED Abs!absVars
      BY DEF Abs!absVars
    <2>1. ASSUME NEW p \in Producers, NEW k \in Keys, Receive(p, k)
          PROVE  Abs!AbsNext \/ UNCHANGED Abs!absVars
      <3>1. p \in Callers /\ version[k] + 1 \in Nat /\ Holding' = Holding
        BY <2>1 DEF TypeOK, Callers, Receive, Holding
      <3>2. PICK delayed \in BOOLEAN : Put(p, k, version[k] + 1, delayed)
        BY <2>1 DEF Receive
      <3> QED BY <3>1, <3>2, PutOffers DEF Abs!AbsNext
    <2>2. ASSUME NEW t \in Timers, Fire(t)
          PROVE  Abs!AbsNext
      <3>1. task[t].key \in Keys /\ task[t].val \in Nat
        BY <2>2 DEF Fire, TypeOK, Tasks
      <3>2. PutKey(task[t].key, task[t].val) /\ Holding' = Holding
        BY <2>2 DEF Fire, Holding
      <3> QED BY <3>1, <3>2, OfferStep DEF Abs!AbsNext
    <2>3. ASSUME NEW w \in Workers, Get(w)
          PROVE  Abs!AbsNext
      BY <2>3, GetTakes DEF Abs!AbsNext
    <2>4. ASSUME NEW w \in Workers, Requeue(w)
          PROVE  Abs!AbsNext \/ UNCHANGED Abs!absVars
      <3>1. work[w] \in Works /\ w \in Callers
        BY <2>4 DEF Requeue, TypeOK, Maybe, Callers
      <3>2. work[w].key \in Keys /\ work[w].val \in Nat
        BY <3>1 DEF Works
      <3>3. Put(w, work[w].key, work[w].val, TRUE)
        BY <2>4 DEF Requeue
      <3> QED BY <2>4, <3>1, <3>2, <3>3, RequeueHolds, PutOffers DEF Abs!AbsNext
    <2>5. ASSUME NEW w \in Workers, Done(w)
          PROVE  Abs!AbsNext
      BY <2>5, DoneReleases DEF Abs!AbsNext
    <2>6. ASSUME NEW p \in Producers, NEW k \in Keys, Cancel(p, k)
          PROVE  UNCHANGED Abs!absVars
      BY <2>6 DEF Cancel, queueVars, Holding, Abs!absVars
    <2>7. ASSUME NEW c \in Callers, Resume(c) \/ Abandon(c)
          PROVE  UNCHANGED Abs!absVars
      BY <2>7 DEF Resume, Abandon, queueVars, Holding, Abs!absVars
    <2>8. ASSUME NEW t \in Timers, RemoveTimer(t)
          PROVE  UNCHANGED Abs!absVars
      BY <2>8 DEF RemoveTimer, queueVars, Holding, Abs!absVars
    <2>9. CASE Stop \/ Close \/ Closed
      BY <2>9 DEF Stop, Close, Closed, queueVars, Holding, Abs!absVars
    <2>10. CASE UNCHANGED vars
      BY <2>10 DEF vars, queueVars, Holding, Abs!absVars
    <2> QED BY <2>1, <2>2, <2>3, <2>4, <2>5, <2>6, <2>7, <2>8, <2>9, <2>10
            DEF Next, Terminated
  <1>3. IInv => TypeOK /\ QInv
    BY DEF IInv
  <1> QED BY <1>1, <1>2, <1>3, InvariantHolds, PTL DEF Spec, ImplementsKeyedQueue, Abs!AbsSpec
-----------------------------------------------------------------------------
(* A queue with a single caller                                            *)

\* A put of the only caller creates its timer.
LEMMA NewTimer ==
    ASSUME TypeOK, TimersNamed, VersionsInOrder, Debounce, phase = "running",
           NEW k \in Keys, NEW v \in Nat, CreateTimer(k, v), timers[k] = None,
           \A c \in Callers : call'[c] = None,
           v = version'[k], version[k] <= v,
           \A j \in Keys : j # k => version'[j] = version[j],
           UNCHANGED <<dirty, handled, phase>>
    PROVE  TimersNamed' /\ VersionsInOrder'
  <1>1. PICK t \in Timers :
          /\ Free(t)
          /\ task' = [task EXCEPT ![t] = [st |-> "sleeping", key |-> k, val |-> v]]
          /\ removed' = removed \ {t} /\ timers' = [timers EXCEPT ![k] = t]
    BY DEF CreateTimer
  <1>2. /\ task \in [Timers -> Tasks] /\ timers \in [Keys -> Maybe(Timers)] /\ t # None
        /\ \A u \in Timers : task[u].st # "free" => task[u].key \in Keys
    BY WQAssumption DEF TypeOK
  <1>3. /\ task'[t] = [st |-> "sleeping", key |-> k, val |-> v]
        /\ \A u \in Timers : u # t => task'[u] = task[u]
        /\ \A j \in Keys : timers'[j] = IF j = k THEN t ELSE timers[j]
    BY <1>1, <1>2
  <1>4. task[t].st = "free" /\ \A j \in Keys : timers[j] # t
    BY <1>1 DEF Free
  <1>5. \A u \in Timers : u # t /\ task'[u].st # "free" => task[u].key \in Keys /\ task[u].key # k
    BY <1>2, <1>3, WQAssumption DEF TimersNamed
  <1>6. \A u \in Timers : task'[u].st # "free" => timers'[task'[u].key] = u
    BY <1>3, <1>5 DEF TimersNamed
  <1>7. ASSUME NEW j \in Keys, timers'[j] # None
        PROVE  /\ task'[timers'[j]].st # "free" /\ task'[timers'[j]].key = j
               /\ timers'[j] \notin removed'
    <2>1. CASE j = k
      BY <1>1, <1>3, <2>1
    <2>2. CASE j # k
      <3>1. timers'[j] = timers[j] /\ timers[j] \in Timers /\ timers[j] # t
        BY <1>2, <1>3, <1>4, <1>7, <2>2 DEF Maybe
      <3>2. task'[timers[j]] = task[timers[j]]
        BY <1>3, <3>1
      <3> QED BY <1>1, <1>7, <3>1, <3>2 DEF TimersNamed
    <2> QED BY <2>1, <2>2
  <1>8. TimersNamed'
    BY <1>6, <1>7 DEF TimersNamed
  <1>9. ASSUME NEW j \in Keys
        PROVE  /\ version[j] <= version'[j] /\ version[j] \in Nat /\ version'[j] \in Nat
               /\ handled[j] \in Nat /\ dirty[j] \in Maybe(Nat)
    <2>1. version[j] \in Nat /\ handled[j] \in Nat /\ dirty[j] \in Maybe(Nat)
      BY DEF TypeOK
    <2>2. CASE j = k
      BY <2>1, <2>2
    <2>3. CASE j # k
      BY <2>1, <2>3
    <2> QED BY <2>2, <2>3
  <1>10. ASSUME NEW j \in Keys
         PROVE  /\ handled[j] <= version'[j]
                /\ dirty[j] # None => handled[j] <= dirty[j] /\ dirty[j] <= version'[j]
    BY <1>9 DEF VersionsInOrder, Maybe
  <1>11. ASSUME NEW u \in Timers, task'[u].st = "sleeping"
         PROVE  LET j == task'[u].key IN
                /\ handled[j] <= task'[u].val /\ task'[u].val <= version'[j]
                /\ dirty[j] # None => dirty[j] <= task'[u].val
    <2>1. CASE u = t
      BY <1>3, <1>9, <1>10, <2>1
    <2>2. CASE u # t
      <3>1. task'[u] = task[u] /\ task[u].key \in Keys /\ task[u].key # k
        BY <1>3, <1>5, <1>11, <2>2
      <3>2. version'[task[u].key] = version[task[u].key]
        BY <3>1
      <3> QED BY <1>11, <3>1, <3>2 DEF VersionsInOrder
    <2> QED BY <2>1, <2>2
  <1>12. VersionsInOrder'
    BY <1>10, <1>11 DEF VersionsInOrder
  <1> QED BY <1>8, <1>12

\* put or cancel of the only caller awaits the timer of its key, which it cancelled.
LEMMA AwaitTimer ==
    ASSUME TypeOK, TimersNamed, VersionsInOrder, phase = "running",
           NEW p \in Producers, NEW k \in Keys, timers[k] # None, CancelTask(timers[k]),
           \A c \in Callers : c # p => call[c] = None,
           NEW r \in Calls, call' = [call EXCEPT ![p] = r], r.key = k, r.on = timers[k],
           r.op = "put" => r.val = version'[k],
           version[k] <= version'[k], version'[k] \in Nat,
           \A j \in Keys : j # k => version'[j] = version[j],
           UNCHANGED <<dirty, handled, phase, timers, removed>>
    PROVE  TimersNamed' /\ VersionsInOrder'
  <1> DEFINE t == timers[k]
  <1>1. /\ t \in Timers /\ task \in [Timers -> Tasks]
        /\ \A u \in Timers : task[u].st # "free" => task[u].key \in Keys
        /\ call \in [Callers -> Maybe(Calls)] /\ p \in Callers
    BY DEF TypeOK, Maybe, Callers
  <1>2. /\ task[t].st # "free" /\ task[t].key = k /\ t \notin removed
    BY DEF TimersNamed
  <1>3. /\ task'[t].st # "sleeping" /\ task'[t].st # "free" /\ task'[t].key = k
        /\ \A u \in Timers : u # t => task'[u] = task[u]
    BY <1>1, <1>2 DEF CancelTask, TaskIn, Tasks
  <1> HIDE DEF t
  <1>4. \A u \in Timers : task'[u].st # "free" => timers[task'[u].key] = u
    BY <1>1, <1>2, <1>3 DEF TimersNamed, t
  <1>5. ASSUME NEW j \in Keys, timers[j] # None
        PROVE  /\ task'[timers[j]].st # "free" /\ task'[timers[j]].key = j
               /\ timers[j] \notin removed
    <2>1. timers[j] \in Timers
      BY <1>5 DEF TypeOK, Maybe
    <2> QED BY <1>2, <1>3, <1>5, <2>1 DEF TimersNamed, t
  <1>6. \A c \in Callers : call'[c] # None => c = p /\ call'[c] = r
    BY <1>1
  <1>7. Debounce
    BY <1>1, <1>2 DEF TimersNamed
  <1>8. TimersNamed'
    BY <1>2, <1>3, <1>4, <1>5, <1>6, <1>7 DEF TimersNamed, t
  <1>9. ASSUME NEW j \in Keys
        PROVE  /\ version[j] <= version'[j] /\ version[j] \in Nat /\ version'[j] \in Nat
               /\ handled[j] \in Nat /\ dirty[j] \in Maybe(Nat)
    <2>1. version[j] \in Nat /\ handled[j] \in Nat /\ dirty[j] \in Maybe(Nat)
      BY DEF TypeOK
    <2>2. CASE j = k
      BY <2>1, <2>2
    <2>3. CASE j # k
      BY <2>1, <2>3
    <2> QED BY <2>2, <2>3
  <1>10. ASSUME NEW j \in Keys
         PROVE  /\ handled[j] <= version'[j]
                /\ dirty[j] # None => handled[j] <= dirty[j] /\ dirty[j] <= version'[j]
    BY <1>9 DEF VersionsInOrder, Maybe
  <1>11. ASSUME NEW u \in Timers, task'[u].st = "sleeping"
         PROVE  LET j == task'[u].key IN
                /\ handled[j] <= task'[u].val /\ task'[u].val <= version'[j]
                /\ dirty[j] # None => dirty[j] <= task'[u].val
    <2>1. task'[u] = task[u] /\ task[u].key \in Keys /\ task[u].val \in Nat
      BY <1>1, <1>3, <1>11 DEF Tasks
    <2>2. version[task[u].key] <= version'[task[u].key]
      BY <1>9, <2>1
    <2> QED BY <1>9, <1>11, <2>1, <2>2 DEF VersionsInOrder
  <1>12. VersionsInOrder'
    BY <1>10, <1>11 DEF VersionsInOrder
  <1> QED BY <1>8, <1>12

\* Nobody else is in a call.
LEMMA OnlyCaller ==
    ASSUME OneCaller, TimersNamed, NEW p \in Producers
    PROVE  \A c \in Callers : c # p => call[c] = None
  BY DEF OneCaller, TimersNamed

\* A reflector puts a version, at once or with the debounce time.
LEMMA SingleReceive ==
    ASSUME OneCaller, TypeOK, TimersNamed, VersionsInOrder,
           NEW p \in Producers, NEW k \in Keys, Receive(p, k)
    PROVE  TimersNamed' /\ VersionsInOrder'
  <1> DEFINE v == version[k] + 1
  <1>1. /\ v \in Nat /\ p \in Callers /\ phase = "running" /\ call[p] = None
        /\ version' = [version EXCEPT ![k] = v]
        /\ UNCHANGED <<phase, handled>>
    BY DEF Receive, Ready, TypeOK, Callers
  <1>2. Put(p, k, v, Debounce)
    BY WQAssumption DEF Receive, OneCaller
  <1>3. \A c \in Callers : call[c] = None
    BY <1>1, OnlyCaller
  <1>4. /\ version'[k] = v /\ version[k] <= v /\ version[k] \in Nat
        /\ \A j \in Keys : j # k => version'[j] = version[j]
    BY <1>1 DEF TypeOK
  <1> HIDE DEF v
  <1>5. CASE ~Debounce
    <2>1. /\ dirty' = [dirty EXCEPT ![k] = v] /\ UNCHANGED <<timers, task, removed, call>>
      BY <1>2, <1>5 DEF Put, PutKey, timerVars
    <2>2. \A t \in Timers : task'[t].st = "free"
      BY <1>5, <2>1 DEF TimersNamed
    <2>3. TimersNamed'
      BY <1>1, <1>3, <2>1, <2>2 DEF TimersNamed
    <2>4. ASSUME NEW j \in Keys
          PROVE  /\ handled'[j] <= version'[j]
                 /\ dirty'[j] # None => handled'[j] <= dirty'[j] /\ dirty'[j] <= version'[j]
      <3>1. handled[k] \in Nat /\ handled[k] <= version[k]
        BY DEF TypeOK, VersionsInOrder
      <3>2. dirty'[j] = IF j = k THEN v ELSE dirty[j]
        BY <2>1 DEF TypeOK
      <3> QED BY <1>1, <1>4, <3>1, <3>2 DEF VersionsInOrder
    <2>5. VersionsInOrder'
      BY <2>2, <2>4 DEF VersionsInOrder
    <2> QED BY <2>3, <2>5
  <1>6. CASE Debounce /\ timers[k] = None
    <2>1. CreateTimer(k, v) /\ UNCHANGED <<dirty, call>>
      BY <1>2, <1>6 DEF Put, queueVars
    <2> QED BY <1>1, <1>3, <1>4, <1>6, <2>1, NewTimer
  <1>7. CASE Debounce /\ timers[k] # None
    <2> DEFINE r == [op |-> "put", key |-> k, val |-> v, on |-> timers[k]]
    <2>1. /\ CancelTask(timers[k]) /\ call' = [call EXCEPT ![p] = r]
          /\ UNCHANGED <<dirty, timers, removed>>
      BY <1>2, <1>7 DEF Put, queueVars
    <2>2. r \in Calls /\ r.key = k /\ r.on = timers[k] /\ r.val = v
      BY <1>1, <1>7 DEF Calls, TypeOK, Maybe
    <2> HIDE DEF r
    <2> QED BY <1>1, <1>3, <1>4, <1>7, <2>1, <2>2, AwaitTimer
  <1> QED BY <1>5, <1>6, <1>7, WQAssumption

\* A reflector cancels the timer of a deleted resource.
LEMMA SingleCancel ==
    ASSUME OneCaller, TypeOK, TimersNamed, VersionsInOrder,
           NEW p \in Producers, NEW k \in Keys, Cancel(p, k)
    PROVE  TimersNamed' /\ VersionsInOrder'
  <1>1. /\ phase = "running" /\ UNCHANGED <<dirty, timers, removed, phase, version, handled>>
    BY DEF Cancel, Ready, queueVars
  <1>2. CASE timers[k] = None
    <2>1. UNCHANGED <<task, call>>
      BY <1>2 DEF Cancel
    <2> QED BY <1>1, <2>1 DEF TimersNamed, VersionsInOrder
  <1>3. CASE timers[k] # None
    <2> DEFINE r == [op |-> "cancel", key |-> k, val |-> 0, on |-> timers[k]]
    <2>1. CancelTask(timers[k]) /\ call' = [call EXCEPT ![p] = r]
      BY <1>3 DEF Cancel
    <2>2. r \in Calls /\ r.key = k /\ r.on = timers[k] /\ r.op # "put"
      BY <1>3 DEF Calls, TypeOK, Maybe
    <2>3. version[k] <= version'[k] /\ version'[k] \in Nat
      BY <1>1 DEF TypeOK
    <2> HIDE DEF r
    <2> QED BY <1>1, <1>3, <2>1, <2>2, <2>3, OnlyCaller, AwaitTimer
  <1> QED BY <1>2, <1>3

\* The awaited timer is gone: put creates the next one.
LEMMA SingleResume ==
    ASSUME OneCaller, TypeOK, TimersNamed, VersionsInOrder, NEW c \in Callers, Resume(c)
    PROVE  TimersNamed' /\ VersionsInOrder'
  <1>1. /\ phase = "running" /\ call[c] # None /\ call[c].on \in removed
        /\ call' = [call EXCEPT ![c] = None]
        /\ UNCHANGED <<dirty, phase, version, handled>>
    BY DEF Resume, queueVars, history
  <1>2. /\ call[c] \in Calls /\ call \in [Callers -> Maybe(Calls)]
    BY <1>1 DEF TypeOK, Maybe
  <1>3. /\ call[c].key \in Keys /\ call[c].val \in Nat /\ call[c].on \in Timers
    BY <1>2 DEF Calls
  <1>4. c \in Producers /\ timers[call[c].key] = None
    BY <1>1 DEF TimersNamed
  <1>5. \A d \in Callers : call'[d] = None
    BY <1>1, <1>2, <1>4, OnlyCaller
  <1>6. CASE call[c].op = "put"
    <2>1. CreateTimer(call[c].key, call[c].val) /\ call[c].val = version[call[c].key]
      BY <1>1, <1>6 DEF Resume, TimersNamed
    <2>2. Debounce /\ version[call[c].key] <= version[call[c].key]
      BY <1>1, <1>3 DEF TimersNamed, TypeOK
    <2> QED BY <1>1, <1>3, <1>4, <1>5, <2>1, <2>2, NewTimer
  <1>7. CASE call[c].op # "put"
    <2>1. UNCHANGED <<timers, task, removed>>
      BY <1>7 DEF Resume, timerVars
    <2> QED BY <1>1, <1>5, <2>1 DEF TimersNamed, VersionsInOrder
  <1> QED BY <1>6, <1>7

\* The sleep of a debounce task is over.
LEMMA SingleFire ==
    ASSUME TypeOK, TimersNamed, VersionsInOrder, NEW t \in Timers, Fire(t)
    PROVE  TimersNamed' /\ VersionsInOrder'
  <1> DEFINE k == task[t].key
             v == task[t].val
  <1>1. /\ task[t].st = "sleeping" /\ dirty' = [dirty EXCEPT ![k] = v]
        /\ task' = [task EXCEPT ![t] = TaskIn(t, "fired")]
        /\ UNCHANGED <<timers, removed, call, phase, version, handled>>
    BY DEF Fire, PutKey, history
  <1>2. /\ task \in [Timers -> Tasks] /\ dirty \in [Keys -> Maybe(Nat)]
        /\ \A u \in Timers : task[u].st # "free" => task[u].key \in Keys
    BY DEF TypeOK
  <1>3. k \in Keys /\ v \in Nat /\ timers[k] = t
    BY <1>1, <1>2 DEF Tasks, TimersNamed
  <1>4. /\ task'[t].st = "fired" /\ task'[t].key = k
        /\ \A u \in Timers : u # t => task'[u] = task[u]
        /\ \A j \in Keys : dirty'[j] = IF j = k THEN v ELSE dirty[j]
    BY <1>1, <1>2, <1>3 DEF TaskIn
  <1>5. TimersNamed'
    <2>1. \A u \in Timers : task'[u].st # "free" => timers[task'[u].key] = u
      BY <1>3, <1>4 DEF TimersNamed
    <2>2. ASSUME NEW j \in Keys, timers[j] # None
          PROVE  /\ task'[timers[j]].st # "free" /\ task'[timers[j]].key = j
                 /\ timers[j] \notin removed
      <3>1. timers[j] \in Timers
        BY <2>2 DEF TypeOK, Maybe
      <3> QED BY <1>4, <2>2, <3>1 DEF TimersNamed
    <2>3. ASSUME NEW c \in Callers, call[c] # None
          PROVE  task'[call[c].on].st # "sleeping"
      <3>1. call[c].on \in Timers
        BY <2>3 DEF TypeOK, Maybe, Calls
      <3> QED BY <1>4, <2>3, <3>1 DEF TimersNamed
    <2>4. ~(phase = "closed" \/ ~Debounce)
      BY <1>1 DEF TimersNamed
    <2> QED BY <1>1, <2>1, <2>2, <2>3, <2>4 DEF TimersNamed
  <1>6. handled[k] <= v /\ v <= version[k]
    BY <1>1 DEF VersionsInOrder
  <1>7. \A u \in Timers : task'[u].st = "sleeping" => u # t /\ task[u].key \in Keys /\ task[u].key # k
    BY <1>2, <1>3, <1>4 DEF TimersNamed
  <1>8. \A j \in Keys :
          /\ handled[j] <= version[j]
          /\ dirty'[j] # None => handled[j] <= dirty'[j] /\ dirty'[j] <= version[j]
    BY <1>4, <1>6 DEF VersionsInOrder
  <1>9. ASSUME NEW u \in Timers, task'[u].st = "sleeping"
        PROVE  LET j == task'[u].key IN
               /\ handled[j] <= task'[u].val /\ task'[u].val <= version[j]
               /\ dirty'[j] # None => dirty'[j] <= task'[u].val
    BY <1>4, <1>7, <1>9 DEF VersionsInOrder
  <1>10. VersionsInOrder'
    BY <1>1, <1>8, <1>9 DEF VersionsInOrder
  <1> QED BY <1>5, <1>10

\* remove_timer pops the entry that names the task itself.
LEMMA SingleRemove ==
    ASSUME TypeOK, TimersNamed, VersionsInOrder, NEW t \in Timers, RemoveTimer(t)
    PROVE  TimersNamed' /\ VersionsInOrder'
  <1> DEFINE k == task[t].key
  <1>1. /\ task[t].st \in {"cancelled", "fired"}
        /\ timers' = [timers EXCEPT ![k] = None]
        /\ removed' = IF timers[k] = None THEN removed ELSE removed \cup {timers[k]}
        /\ task' = [task EXCEPT ![t] = [st |-> "free", key |-> None, val |-> 0]]
        /\ UNCHANGED <<dirty, call, phase, version, handled>>
    BY DEF RemoveTimer, queueVars, history
  <1>2. /\ task \in [Timers -> Tasks] /\ timers \in [Keys -> Maybe(Timers)] /\ t # None
        /\ \A u \in Timers : task[u].st # "free" => task[u].key \in Keys
    BY WQAssumption DEF TypeOK
  <1>3. k \in Keys /\ timers[k] = t
    BY <1>1, <1>2 DEF TimersNamed
  <1>4. /\ task'[t].st = "free" /\ removed' = removed \cup {t}
        /\ \A u \in Timers : u # t => task'[u] = task[u]
        /\ \A j \in Keys : timers'[j] = IF j = k THEN None ELSE timers[j]
    BY <1>1, <1>2, <1>3
  <1>5. \A j \in Keys : j # k => timers[j] # t
    BY <1>2, <1>3 DEF TimersNamed
  <1> HIDE DEF k
  <1>6. ASSUME NEW u \in Timers, task'[u].st # "free"
        PROVE  timers'[task'[u].key] = u
    <2>1. u # t /\ task'[u] = task[u] /\ task[u].key \in Keys /\ timers[task[u].key] = u
      BY <1>2, <1>4, <1>6 DEF TimersNamed
    <2> QED BY <1>3, <1>4, <2>1
  <1>7. ASSUME NEW j \in Keys, timers'[j] # None
        PROVE  /\ task'[timers'[j]].st # "free" /\ task'[timers'[j]].key = j
               /\ timers'[j] \notin removed'
    <2>1. j # k /\ timers'[j] = timers[j] /\ timers[j] \in Timers /\ timers[j] # t
      BY <1>2, <1>4, <1>5, <1>7 DEF Maybe
    <2> QED BY <1>4, <1>7, <2>1 DEF TimersNamed
  <1>8. ASSUME NEW c \in Callers, call[c] # None
        PROVE  /\ task'[call[c].on].st # "sleeping"
               /\ timers'[call[c].key] = IF call[c].on \in removed' THEN None ELSE call[c].on
    <2>1. call[c].on \in Timers /\ call[c].key \in Keys
      BY <1>8 DEF TypeOK, Maybe, Calls
    <2>2. /\ task[call[c].on].st # "sleeping"
          /\ timers[call[c].key] = IF call[c].on \in removed THEN None ELSE call[c].on
      BY <1>8 DEF TimersNamed
    <2>3. task'[call[c].on].st # "sleeping"
      BY <1>4, <2>1, <2>2
    <2> QED BY <1>3, <1>4, <1>5, <2>1, <2>2, <2>3
  <1>9. phase = "closed" \/ ~Debounce => \A u \in Timers : task'[u].st = "free"
    BY <1>4 DEF TimersNamed
  <1>10. TimersNamed'
    BY <1>1, <1>6, <1>7, <1>8, <1>9 DEF TimersNamed
  <1>11. \A u \in Timers : task'[u].st = "sleeping" => task'[u] = task[u]
    BY <1>4
  <1>12. VersionsInOrder'
    BY <1>1, <1>11 DEF VersionsInOrder
  <1> QED BY <1>10, <1>12

\* get hands out what is dirty, which is not older than what was handled.
LEMMA SingleGet ==
    ASSUME TypeOK, DirtyIsActive, TimersNamed, VersionsInOrder, NEW w \in Workers, Get(w)
    PROVE  /\ TimersNamed' /\ VersionsInOrder'
           /\ \A k \in Keys : handled'[k] >= handled[k]
  <1> DEFINE k == Head(queue)
  <1>1. /\ handled' = [handled EXCEPT ![k] = dirty[k]] /\ dirty' = [dirty EXCEPT ![k] = None]
        /\ UNCHANGED <<timers, task, removed, call, phase, version>>
    BY DEF Get, timerVars
  <1>2. k \in Keys /\ 1 \in DOMAIN queue /\ queue[1] = k
    BY DEF TypeOK, Get
  <1>3. dirty[k] # None /\ dirty[k] \in Nat
    BY <1>2 DEF DirtyIsActive, TypeOK, Maybe
  <1> HIDE DEF k
  <1>4. /\ \A j \in Keys : handled'[j] = IF j = k THEN dirty[k] ELSE handled[j]
        /\ \A j \in Keys : dirty'[j] = IF j = k THEN None ELSE dirty[j]
        /\ \A j \in Keys : handled[j] \in Nat
    BY <1>1, <1>2 DEF TypeOK
  <1>5. TimersNamed'
    BY <1>1 DEF TimersNamed
  <1>6. handled[k] <= dirty[k] /\ dirty[k] <= version[k]
    BY <1>2, <1>3 DEF VersionsInOrder
  <1>7. ASSUME NEW t \in Timers, task[t].st = "sleeping"
        PROVE  LET j == task[t].key IN
               /\ handled'[j] <= task[t].val /\ task[t].val <= version[j]
               /\ dirty'[j] # None => dirty'[j] <= task[t].val
    <2>1. task[t].key \in Keys
      BY <1>7 DEF TypeOK
    <2> QED BY <1>3, <1>4, <1>7, <2>1 DEF VersionsInOrder
  <1>8. VersionsInOrder'
    BY <1>1, <1>3, <1>4, <1>6, <1>7 DEF VersionsInOrder
  <1>9. \A j \in Keys : handled'[j] >= handled[j]
    BY <1>3, <1>4, <1>6
  <1> QED BY <1>5, <1>8, <1>9

\* close cancels what the dictionary names, and that is all there is.
LEMMA SingleClose ==
    ASSUME TypeOK, TimersNamed, VersionsInOrder, Close \/ Closed
    PROVE  TimersNamed' /\ VersionsInOrder'
  <1>1. UNCHANGED <<dirty, removed, call, version, handled>>
    BY DEF Close, Closed, queueVars, history
  <1>2. \A c \in Callers : call[c] = None
    BY DEF Close, Closed, TimersNamed
  <1>3. CASE Close
    <2>1. /\ phase' = "closing" /\ timers' = timers
          /\ \A t \in Timers : task'[t] = IF task[t].st = "sleeping" /\ timers[task[t].key] = t
                                            THEN TaskIn(t, "cancelled") ELSE task[t]
      BY <1>3 DEF Close
    <2>2. \A t \in Timers : /\ task'[t].key = task[t].key
                            /\ task'[t].st # "free" <=> task[t].st # "free"
                            /\ task'[t].st # "sleeping"
      <3> SUFFICES ASSUME NEW t \in Timers
                   PROVE  /\ task'[t].key = task[t].key
                          /\ task'[t].st # "free" <=> task[t].st # "free"
                          /\ task'[t].st # "sleeping"
        OBVIOUS
      <3>1. task[t].st = "sleeping" => timers[task[t].key] = t
        BY DEF TimersNamed
      <3>2. CASE task[t].st = "sleeping"
        <4>1. task'[t] = TaskIn(t, "cancelled")
          BY <2>1, <3>1, <3>2
        <4>2. task'[t].key = task[t].key /\ task'[t].st = "cancelled"
          BY <4>1 DEF TaskIn
        <4> QED BY <3>2, <4>2
      <3>3. CASE task[t].st # "sleeping"
        <4>1. task'[t] = task[t]
          BY <2>1, <3>3
        <4> QED BY <3>3, <4>1
      <3> QED BY <3>2, <3>3
    <2>3. \A k \in Keys : timers[k] # None => timers[k] \in Timers
      BY DEF TypeOK, Maybe
    <2>4. TimersNamed'
      BY <1>1, <1>2, <2>1, <2>2, <2>3 DEF TimersNamed
    <2>5. VersionsInOrder'
      BY <1>1, <2>2 DEF VersionsInOrder
    <2> QED BY <2>4, <2>5
  <1>4. CASE Closed
    <2>1. /\ \A k \in Keys : timers[k] # None => task[timers[k]].st = "free"
          /\ timers' = [k \in Keys |-> None] /\ task' = task
      BY <1>4 DEF Closed
    <2>2. \A k \in Keys : timers[k] = None
      BY <2>1 DEF TimersNamed
    <2>3. \A t \in Timers : task[t].st = "free"
      <3> SUFFICES ASSUME NEW t \in Timers, task[t].st # "free"
                   PROVE  FALSE
        OBVIOUS
      <3>1. task[t].key \in Keys /\ timers[task[t].key] = t
        BY DEF TimersNamed, TypeOK
      <3> QED BY <2>2, <3>1, WQAssumption
    <2>4. TimersNamed' /\ VersionsInOrder'
      BY <1>1, <1>2, <2>1, <2>3 DEF TimersNamed, VersionsInOrder
    <2> QED BY <2>4
  <1> QED BY <1>3, <1>4

\* Every step of a queue with a single caller
LEMMA SingleStep ==
    ASSUME OneCaller, SingleInv, [Next]_vars
    PROVE  /\ TimersNamed' /\ VersionsInOrder'
           /\ \A k \in Keys : handled'[k] >= handled[k]
  <1>1. TypeOK /\ DirtyIsActive /\ TimersNamed /\ VersionsInOrder
    BY DEF SingleInv, IInv, QInv
  <1>2. UNCHANGED handled => \A k \in Keys : handled'[k] >= handled[k]
    BY <1>1 DEF TypeOK
  <1>3. ASSUME NEW p \in Producers, NEW k \in Keys, Receive(p, k) \/ Cancel(p, k)
        PROVE  TimersNamed' /\ VersionsInOrder' /\ UNCHANGED handled
    <2>1. UNCHANGED handled
      BY <1>3 DEF Receive, Cancel
    <2> QED BY <1>1, <1>3, <2>1, SingleReceive, SingleCancel
  <1>4. ASSUME NEW c \in Callers, Resume(c)
        PROVE  TimersNamed' /\ VersionsInOrder' /\ UNCHANGED handled
    <2>1. UNCHANGED handled
      BY <1>4 DEF Resume, history
    <2> QED BY <1>1, <1>4, <2>1, SingleResume
  <1>5. ASSUME NEW c \in Callers, Abandon(c)
        PROVE  TimersNamed' /\ VersionsInOrder' /\ UNCHANGED handled
    <2>1. /\ call' = [call EXCEPT ![c] = None] /\ call \in [Callers -> Maybe(Calls)]
          /\ UNCHANGED <<dirty, timers, task, removed, phase, version, handled>>
      BY <1>1, <1>5 DEF Abandon, queueVars, timerVars, history, TypeOK
    <2>2. \A d \in Callers : call'[d] # None => call'[d] = call[d]
      BY <2>1
    <2> QED BY <1>1, <2>1, <2>2 DEF TimersNamed, VersionsInOrder
  <1>6. ASSUME NEW t \in Timers, Fire(t) \/ RemoveTimer(t)
        PROVE  TimersNamed' /\ VersionsInOrder' /\ UNCHANGED handled
    <2>1. UNCHANGED handled
      BY <1>6 DEF Fire, RemoveTimer, history
    <2> QED BY <1>1, <1>6, <2>1, SingleFire, SingleRemove
  <1>7. ASSUME NEW w \in Workers, Done(w)
        PROVE  TimersNamed' /\ VersionsInOrder' /\ UNCHANGED handled
    BY <1>1, <1>7 DEF Done, timerVars, history, TimersNamed, VersionsInOrder
  <1>8. ASSUME NEW w \in Workers, Requeue(w)
        PROVE  FALSE
    BY <1>8 DEF Requeue, OneCaller
  <1>9. CASE Stop
    BY <1>1, <1>2, <1>9 DEF Stop, queueVars, timerVars, history, TimersNamed, VersionsInOrder
  <1>10. CASE Close \/ Closed
    <2>1. UNCHANGED handled
      BY <1>10 DEF Close, Closed, history
    <2> QED BY <1>1, <1>2, <1>10, <2>1, SingleClose
  <1>11. CASE UNCHANGED vars
    BY <1>1, <1>2, <1>11
       DEF vars, queueVars, timerVars, history, TimersNamed, VersionsInOrder
  <1> QED BY <1>1, <1>2, <1>3, <1>4, <1>5, <1>6, <1>7, <1>8, <1>9, <1>10, <1>11, SingleGet
          DEF Next, Terminated

\* The timers of a queue with a single caller are the ones the dictionary names, and
\* versions are in order.
THEOREM SingleInvariant ==
    ASSUME OneCaller
    PROVE  Spec => []SingleInv
  <1>1. Init => TimersNamed /\ VersionsInOrder
    BY DEF Init, TimersNamed, VersionsInOrder
  <1>2. IInv /\ IInv' /\ TimersNamed /\ VersionsInOrder /\ [Next]_vars
          => TimersNamed' /\ VersionsInOrder'
    BY SingleStep DEF SingleInv
  <1>3. SingleInv <=> IInv /\ TimersNamed /\ VersionsInOrder
    BY DEF SingleInv
  <1> QED BY <1>1, <1>2, <1>3, InvariantHolds, PTL DEF Spec

\* If one reflector feeds the queue and handlers put nothing back, no debounce task is
\* asleep that cancel and close would miss, and close leaves none behind.
THEOREM TimersAreNamed ==
    ASSUME OneCaller
    PROVE  Spec => []OneTimerPerKey
  <1>1. SingleInv => OneTimerPerKey
    BY DEF SingleInv, TimersNamed, OneTimerPerKey
  <1> QED BY <1>1, SingleInvariant, PTL

\* In the same setting, no version of a resource is handled after a newer one.
THEOREM VersionsDelivered ==
    ASSUME OneCaller
    PROVE  Spec => DeliveryInOrder
  <1>1. SingleInv /\ [Next]_vars => [\A k \in Keys : handled'[k] >= handled[k]]_handled
    BY SingleStep
  <1> QED BY <1>1, SingleInvariant, PTL DEF Spec, DeliveryInOrder
=============================================================================
