----------------------------- MODULE WorkQueue -----------------------------
(***************************************************************************)
(* The asynchronous work queue of every Krake controller                   *)
(* (krake/controller/__init__.py, class WorkQueue), together with the      *)
(* coroutines that use it: the producers (reflectors) that put a newly     *)
(* received version of a resource, and the workers that get a resource,    *)
(* handle it, possibly put it back with a delay and call done.             *)
(*                                                                         *)
(* A coroutine runs until its next await, so an action is the code between *)
(* two awaits that can suspend.  The inner asyncio.Queue is unbounded      *)
(* (maxsize = 0 in every controller), hence its put never suspends.        *)
(*                                                                         *)
(* A value is the number of the version of the resource: the n-th version  *)
(* a producer puts for a key is n.  A timer stands for the debounce task   *)
(* and for the future "removed" created with it.                           *)
(***************************************************************************)
EXTENDS Naturals, Sequences

CONSTANTS
    Keys,        \* uids of resources
    Producers,   \* reflector coroutines
    Workers,     \* handle_resource coroutines
    Timers,      \* identities of debounce tasks, reused once forgotten
    None,        \* absence of a dictionary entry, of work or of a call
    Debounce,    \* is the debounce time of the queue greater than 0?
    Requeues,    \* why resources are put with a delay, a subset of RequeueKinds
    Cancels,     \* do producers cancel the timer of a deleted resource?
    MaxVersion   \* bound: versions put per key

RequeueKinds == {"reschedule", "waiting"}
Callers == Producers \cup Workers
TaskStates == {"free", "sleeping", "cancelled", "fired"}
Phases == {"running", "stopping", "closing", "closed"}
Maybe(S) == S \cup {None}

\* A put or cancel suspended on the "removed" future of a timer
Calls == [op: {"put", "cancel"}, key: Keys, val: Nat, on: Timers]
\* An item being handled, and whether its handler put it back
Works == [key: Keys, val: Nat, again: BOOLEAN]
\* A debounce task
Tasks == [st: TaskStates, key: Maybe(Keys), val: Nat]

ASSUME WQAssumption ==
    /\ None \notin Nat /\ None \notin Timers /\ None \notin Keys
    /\ None \notin Calls /\ None \notin Works
    /\ Debounce \in BOOLEAN /\ Cancels \in BOOLEAN
    /\ Requeues \subseteq RequeueKinds
    /\ MaxVersion \in Nat
    /\ Producers \cap Workers = {}

VARIABLES
    dirty,    \* [Keys -> version or None]  the dictionary dirty
    active,   \* the set active
    queue,    \* the inner asyncio.Queue of keys
    timers,   \* [Keys -> timer or None]    the dictionary timers
    task,     \* [Timers -> state, key and value of the debounce task]
    removed,  \* the timers whose "removed" future is resolved
    call,     \* [Callers -> the put or cancel that awaits "removed", or None]
    work,     \* [Workers -> the item being handled, or None]
    phase,    \* progress of Controller.run: running, stopping, closing, closed
    newest,   \* history: newest version put for a key and not cancelled
    version,  \* history: versions put for a key
    handled   \* history: version that get returned last for a key

queueVars == <<dirty, active, queue>>
timerVars == <<timers, task, removed>>
history   == <<newest, version, handled>>
vars == <<queueVars, timerVars, call, work, phase, history>>

Init ==
    /\ dirty = [k \in Keys |-> None]
    /\ active = {}
    /\ queue = <<>>
    /\ timers = [k \in Keys |-> None]
    /\ task \in [Timers -> [st: {"free"}, key: {None}, val: {0}]]
    /\ removed = {}
    /\ call = [c \in Callers |-> None]
    /\ work = [w \in Workers |-> None]
    /\ phase = "running"
    /\ newest = [k \in Keys |-> 0]
    /\ version = [k \in Keys |-> 0]
    /\ handled = [k \in Keys |-> 0]

-----------------------------------------------------------------------------
(* The methods of WorkQueue, up to their first suspension.                 *)

\* _add_key_to_queue
AddKeyToQueue(k) ==
    /\ active' = active \cup {k}
    /\ queue' = Append(queue, k)

\* Faulty variant of PutKey: the key is queued even if it is active
PutKeyAlways(k, v) ==
    /\ dirty' = [dirty EXCEPT ![k] = v]
    /\ AddKeyToQueue(k)

\* put_key: the closure of put that makes a value visible to get
PutKey(k, v) ==
    /\ dirty' = [dirty EXCEPT ![k] = v]
    /\ IF k \in active THEN UNCHANGED <<active, queue>> ELSE AddKeyToQueue(k)

\* The task t in another state
TaskIn(t, s) == [st |-> s, key |-> task[t].key, val |-> task[t].val]

\* timer.cancel(): without effect on a task that is already done
CancelTask(t) ==
    task' = IF task[t].st = "sleeping"
              THEN [task EXCEPT ![t] = TaskIn(t, "cancelled")] ELSE task

\* An identity that no task, dictionary entry or suspended caller refers to
Free(t) ==
    /\ task[t].st = "free"
    /\ \A k \in Keys : timers[k] # t
    /\ \A c \in Callers : call[c] # None => call[c].on # t

\* The end of put: a new debounce task becomes the timer of the key
CreateTimer(k, v) ==
    \E t \in Timers :
        /\ Free(t)
        /\ task' = [task EXCEPT ![t] = [st |-> "sleeping", key |-> k, val |-> v]]
        /\ removed' = removed \ {t}
        /\ timers' = [timers EXCEPT ![k] = t]

\* Faulty variant of Put: the debounce task of the key is not cancelled
PutNoCancel(c, k, v, delayed) ==
    \/ ~delayed /\ PutKey(k, v) /\ UNCHANGED <<timerVars, call>>
    \/ delayed /\ CreateTimer(k, v) /\ UNCHANGED <<queueVars, call>>

\* put(k, v) called by c, with a delay or without
Put(c, k, v, delayed) ==
    \/ /\ ~delayed
       /\ PutKey(k, v)
       /\ UNCHANGED <<timerVars, call>>
    \/ /\ delayed
       /\ timers[k] = None
       /\ CreateTimer(k, v)
       /\ UNCHANGED <<queueVars, call>>
    \/ /\ delayed
       /\ timers[k] # None
       /\ CancelTask(timers[k])
       /\ call' = [call EXCEPT ![c] =
                     [op |-> "put", key |-> k, val |-> v, on |-> timers[k]]]
       /\ UNCHANGED <<queueVars, timers, removed>>

-----------------------------------------------------------------------------
(* Producers                                                               *)

Ready(c) == phase = "running" /\ call[c] = None

\* A reflector receives the next version of a resource and puts it; a version
\* that needs no work is put with a delay, unless a version is dirty
Receive(p, k) ==
    /\ Ready(p)
    /\ version[k] < MaxVersion
    /\ version' = [version EXCEPT ![k] = @ + 1]
    /\ newest' = [newest EXCEPT ![k] = version[k] + 1]
    /\ \E delayed \in BOOLEAN :
         /\ \/ delayed = Debounce
            \/ delayed /\ "reschedule" \in Requeues /\ dirty[k] = None
         /\ Put(p, k, version[k] + 1, delayed)
    /\ UNCHANGED <<work, phase, handled>>

\* A reflector receives a deleted resource: cancel(k)
Cancel(p, k) ==
    /\ Cancels
    /\ Ready(p)
    /\ newest' = [newest EXCEPT ![k] = 0]
    /\ IF timers[k] = None
         THEN UNCHANGED <<task, call>>
         ELSE /\ CancelTask(timers[k])
              /\ call' = [call EXCEPT ![p] =
                            [op |-> "cancel", key |-> k, val |-> 0, on |-> timers[k]]]
    /\ UNCHANGED <<queueVars, timers, removed, work, phase, version, handled>>

\* Faulty variant of Resume: a put returns once the old timer is removed
ResumeForgets(c) ==
    /\ phase = "running"
    /\ call[c] # None
    /\ call[c].on \in removed
    /\ call' = [call EXCEPT ![c] = None]
    /\ UNCHANGED <<timerVars, queueVars, work, phase, history>>

\* "removed" is resolved: the suspended put creates its timer without looking
\* at the dictionary again, the suspended cancel returns
Resume(c) ==
    /\ phase = "running"
    /\ call[c] # None
    /\ call[c].on \in removed
    /\ call' = [call EXCEPT ![c] = None]
    /\ IF call[c].op = "put"
         THEN CreateTimer(call[c].key, call[c].val)
         ELSE UNCHANGED timerVars
    /\ UNCHANGED <<queueVars, work, phase, history>>

-----------------------------------------------------------------------------
(* Debounce tasks                                                          *)

\* The sleep of the debounce coroutine is over
Fire(t) ==
    /\ task[t].st = "sleeping"
    /\ PutKey(task[t].key, task[t].val)
    /\ task' = [task EXCEPT ![t] = TaskIn(t, "fired")]
    /\ UNCHANGED <<timers, removed, call, work, phase, history>>

\* Faulty variant of RemoveTimer: the future is not resolved
RemoveTimerSilent(t) ==
    /\ task[t].st \in {"cancelled", "fired"}
    /\ timers' = [timers EXCEPT ![task[t].key] = None]
    /\ task' = [task EXCEPT ![t] = [st |-> "free", key |-> None, val |-> 0]]
    /\ UNCHANGED <<removed, queueVars, call, work, phase, history>>

\* remove_timer: pops the entry of the key, whichever timer it names, and
\* resolves that timer's future; a missing entry is a KeyError the loop logs
RemoveTimer(t) ==
    /\ task[t].st \in {"cancelled", "fired"}
    /\ LET k == task[t].key IN
         /\ timers' = [timers EXCEPT ![k] = None]
         /\ removed' = IF timers[k] = None THEN removed ELSE removed \cup {timers[k]}
    /\ task' = [task EXCEPT ![t] = [st |-> "free", key |-> None, val |-> 0]]
    /\ UNCHANGED <<queueVars, call, work, phase, history>>

-----------------------------------------------------------------------------
(* Workers                                                                 *)

\* Faulty variants of Get: the value stays dirty; the key stops being active
GetKeeps(w) ==
    /\ Ready(w) /\ work[w] = None /\ queue # <<>>
    /\ LET k == Head(queue) IN
         /\ work' = [work EXCEPT ![w] = [key |-> k, val |-> dirty[k], again |-> FALSE]]
         /\ handled' = [handled EXCEPT ![k] = dirty[k]]
    /\ queue' = Tail(queue)
    /\ UNCHANGED <<dirty, active, timerVars, call, phase, newest, version>>
GetReleases(w) ==
    /\ Ready(w) /\ work[w] = None /\ queue # <<>>
    /\ LET k == Head(queue) IN
         /\ work' = [work EXCEPT ![w] = [key |-> k, val |-> dirty[k], again |-> FALSE]]
         /\ handled' = [handled EXCEPT ![k] = dirty[k]]
         /\ dirty' = [dirty EXCEPT ![k] = None]
         /\ active' = active \ {k}
    /\ queue' = Tail(queue)
    /\ UNCHANGED <<timerVars, call, phase, newest, version>>

\* get
Get(w) ==
    /\ Ready(w)
    /\ work[w] = None
    /\ queue # <<>>
    /\ LET k == Head(queue) IN
         /\ work' = [work EXCEPT ![w] = [key |-> k, val |-> dirty[k], again |-> FALSE]]
         /\ handled' = [handled EXCEPT ![k] = dirty[k]]
         /\ dirty' = [dirty EXCEPT ![k] = None]
    /\ queue' = Tail(queue)
    /\ UNCHANGED <<active, timerVars, call, phase, newest, version>>

\* The handler puts its own copy of the resource back with a delay: to
\* reschedule it, unless a version is dirty, or to wait for a cluster
Requeue(w) ==
    /\ Ready(w)
    /\ work[w] # None
    /\ ~work[w].again
    /\ \/ "reschedule" \in Requeues /\ dirty[work[w].key] = None
       \/ "waiting" \in Requeues
    /\ work' = [work EXCEPT ![w] =
                  [key |-> work[w].key, val |-> work[w].val, again |-> TRUE]]
    /\ Put(w, work[w].key, work[w].val, TRUE)
    /\ UNCHANGED <<phase, history>>

\* Faulty variants of Done: a dirty key is forgotten; a clean key stays active
DoneForgets(w) ==
    /\ work[w] # None /\ call[w] = None
    /\ active' = active \ {work[w].key}
    /\ work' = [work EXCEPT ![w] = None]
    /\ UNCHANGED <<queue, dirty, timerVars, call, phase, history>>
DoneKeepsActive(w) ==
    /\ work[w] # None /\ call[w] = None
    /\ IF dirty[work[w].key] = None THEN UNCHANGED <<active, queue>>
       ELSE AddKeyToQueue(work[w].key)
    /\ work' = [work EXCEPT ![w] = None]
    /\ UNCHANGED <<dirty, timerVars, call, phase, history>>

\* done: in the "finally" of every handler, also when it is cancelled
Done(w) ==
    /\ work[w] # None
    /\ call[w] = None
    /\ LET k == work[w].key IN
         IF dirty[k] = None
           THEN active' = active \ {k} /\ UNCHANGED queue
           ELSE AddKeyToQueue(k)
    /\ work' = [work EXCEPT ![w] = None]
    /\ UNCHANGED <<dirty, timerVars, call, phase, history>>

-----------------------------------------------------------------------------
(* Shutdown: Controller.run leaves joint, which cancels the background     *)
(* tasks, and then closes the queue.                                       *)

\* The first background task failed for good
Stop ==
    /\ phase = "running"
    /\ phase' = "stopping"
    /\ UNCHANGED <<queueVars, timerVars, call, work, history>>

\* A background task suspended in put or cancel is cancelled
Abandon(c) ==
    /\ phase = "stopping"
    /\ call[c] # None
    /\ call' = [call EXCEPT ![c] = None]
    /\ UNCHANGED <<queueVars, timerVars, work, phase, history>>

\* Faulty variant of Close: the dictionary is cleared, no timer is cancelled
CloseAtOnce ==
    /\ phase = "stopping"
    /\ \A c \in Callers : call[c] = None
    /\ \A w \in Workers : work[w] = None
    /\ phase' = "closed"
    /\ timers' = [k \in Keys |-> None]
    /\ UNCHANGED <<queueVars, task, removed, call, work, history>>

\* close, up to its first await: cancel the timers of the dictionary
Close ==
    /\ phase = "stopping"
    /\ \A c \in Callers : call[c] = None
    /\ \A w \in Workers : work[w] = None
    /\ phase' = "closing"
    /\ task' = [t \in Timers |->
                  IF task[t].st = "sleeping" /\ timers[task[t].key] = t
                    THEN TaskIn(t, "cancelled") ELSE task[t]]
    /\ UNCHANGED <<queueVars, timers, removed, call, work, history>>

\* close, after it awaited them
Closed ==
    /\ phase = "closing"
    /\ \A k \in Keys : timers[k] # None => task[timers[k]].st = "free"
    /\ phase' = "closed"
    /\ timers' = [k \in Keys |-> None]
    /\ UNCHANGED <<queueVars, task, removed, call, work, history>>

\* The process has nothing left to do
Terminated == phase = "closed" /\ UNCHANGED vars

-----------------------------------------------------------------------------
Next ==
    \/ \E p \in Producers, k \in Keys : Receive(p, k) \/ Cancel(p, k)
    \/ \E c \in Callers : Resume(c) \/ Abandon(c)
    \/ \E t \in Timers : Fire(t) \/ RemoveTimer(t)
    \/ \E w \in Workers : Get(w) \/ Requeue(w) \/ Done(w)
    \/ Stop \/ Close \/ Closed \/ Terminated

Spec == Init /\ [][Next]_vars

\* The event loop runs every callback that is ready and every sleep ends;
\* handlers return, by a result or by an exception.
Fairness ==
    /\ \A c \in Callers : WF_vars(Resume(c)) /\ WF_vars(Abandon(c))
    /\ \A t \in Timers : WF_vars(Fire(t)) /\ WF_vars(RemoveTimer(t))
    /\ \A w \in Workers : WF_vars(Get(w)) /\ WF_vars(Done(w))
    /\ WF_vars(Close) /\ WF_vars(Closed)

FairSpec == Spec /\ Fairness

-----------------------------------------------------------------------------
(* Properties                                                              *)

\* Every variable has the shape the code gives it; in particular get always
\* finds a value in dirty for the key it takes from the inner queue.
TypeOK ==
    /\ dirty \in [Keys -> Maybe(Nat)]
    /\ active \subseteq Keys
    /\ queue \in Seq(Keys)
    /\ timers \in [Keys -> Maybe(Timers)]
    /\ task \in [Timers -> Tasks]
    /\ removed \subseteq Timers
    /\ call \in [Callers -> Maybe(Calls)]
    /\ work \in [Workers -> Maybe(Works)]
    /\ phase \in Phases
    /\ newest \in [Keys -> Nat]
    /\ version \in [Keys -> Nat]
    /\ handled \in [Keys -> Nat]
    /\ \A t \in Timers : task[t].st # "free" => task[t].key \in Keys

\* The key a worker holds
Holding == [w \in Workers |-> IF work[w] = None THEN None ELSE work[w].key]

\* The guarantee of the class: a key that get returned is not returned again
\* before done was called with it, so no two workers handle the same resource.
StrictSequential ==
    \A w1, w2 \in Workers :
        w1 # w2 /\ Holding[w1] # None => Holding[w1] # Holding[w2]

\* active accounts for its keys: each is either in the inner queue, once, or
\* with a worker, so no key is blocked for ever and none is queued twice.
ActiveAccounted ==
    /\ \A i, j \in DOMAIN queue : queue[i] = queue[j] => i = j
    /\ \A i \in DOMAIN queue : \A w \in Workers : Holding[w] # queue[i]
    /\ \A k \in Keys : k \in active <=>
           \/ \E i \in DOMAIN queue : queue[i] = k
           \/ \E w \in Workers : Holding[w] = k

\* A dirty key is never forgotten: it is active, so done or get will meet it;
\* and the inner queue only holds dirty keys.
DirtyIsActive ==
    /\ \A k \in Keys : dirty[k] # None => k \in active
    /\ \A i \in DOMAIN queue : dirty[queue[i]] # None

\* What get and done rely on: the inner queue, active, dirty and the keys held
\* by workers agree with each other.  With the type it is inductive.
QInv == ActiveAccounted /\ DirtyIsActive /\ StrictSequential

\* The inductive invariant of the work queue: the type, and the agreement of put, get,
\* done and close on which key is queued, dirty or held by a worker.
IInv == TypeOK /\ QInv

\* The newest version put for a key was handled or is still on its way to a
\* worker: no older version replaced it.
InFlight(k, v) ==
    \/ dirty[k] = v
    \/ \E t \in Timers : task[t] = [st |-> "sleeping", key |-> k, val |-> v]
    \/ \E c \in Callers : call[c] # None /\ call[c].op = "put"
                            /\ call[c].key = k /\ call[c].val = v

NewestNotLost ==
    phase = "running" =>
        \A k \in Keys : newest[k] > 0 => handled[k] >= newest[k] \/ InFlight(k, newest[k])

\* A key is never handled with an older version after a newer one.
DeliveryInOrder ==
    [][\A k \in Keys : handled'[k] >= handled[k]]_handled

\* At most one debounce task of a key is asleep, and it is the one the
\* dictionary names: otherwise cancel and close miss it.  close leaves none
\* behind that would still put a key.
OneTimerPerKey ==
    \A t \in Timers : task[t].st = "sleeping" =>
        timers[task[t].key] = t /\ phase # "closed"

\* One reflector puts everything, and handlers put nothing back: no two coroutines
\* are in put or cancel at the same time.
OneCaller == Requeues = {} /\ \A p, q \in Producers : p = q

\* What put and cancel of a single caller rely on: the dictionary names every task that
\* is not done, a timer that is awaited was cancelled or fired, and its entry is gone
\* once its future is resolved.
TimersNamed ==
    /\ \A t \in Timers : task[t].st # "free" => timers[task[t].key] = t
    /\ \A k \in Keys : timers[k] # None =>
         task[timers[k]].st # "free" /\ task[timers[k]].key = k /\ timers[k] \notin removed
    /\ \A c \in Callers : call[c] # None =>
         /\ c \in Producers /\ Debounce /\ phase \in {"running", "stopping"}
         /\ task[call[c].on].st # "sleeping"
         /\ timers[call[c].key] = IF call[c].on \in removed THEN None ELSE call[c].on
         /\ call[c].op = "put" => call[c].val = version[call[c].key]
    /\ phase = "closed" \/ ~Debounce => \A t \in Timers : task[t].st = "free"

\* Versions of a key get older from the put to the handler: what is asleep is not older
\* than what is dirty, and that is not older than what was handled.
VersionsInOrder ==
    /\ \A k \in Keys :
         /\ handled[k] <= version[k]
         /\ dirty[k] # None => handled[k] <= dirty[k] /\ dirty[k] <= version[k]
    /\ \A t \in Timers : task[t].st = "sleeping" =>
         LET k == task[t].key IN
         /\ handled[k] <= task[t].val /\ task[t].val <= version[k]
         /\ dirty[k] # None => dirty[k] <= task[t].val

\* The inductive invariant of a queue with a single caller
SingleInv == IInv /\ TimersNamed /\ VersionsInOrder

\* Every put and every cancel returns: the future it awaits is resolved.
CallsReturn ==
    \A c \in Callers : call[c] # None ~> call[c] = None

\* The newest version of a key reaches a worker, unless it is cancelled,
\* replaced by a newer one, or the controller stops.
NewestHandled ==
    \A k \in Keys : \A v \in 1..MaxVersion :
        newest[k] = v ~> (handled[k] >= v \/ newest[k] # v \/ phase # "running")

-----------------------------------------------------------------------------
(* The queue implements KeyedQueue: dirty is what waits, and a worker      *)
(* holds the key of its item.                                              *)

Abs == INSTANCE KeyedQueue WITH Values <- Nat, pending <- dirty, holding <- Holding

\* Whatever the interleaving of puts, timers and workers, get hands out only
\* the visible value of a key that no worker is handling.
ImplementsKeyedQueue == Abs!AbsSpec
=============================================================================
