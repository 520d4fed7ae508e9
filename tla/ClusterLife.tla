---------------------------- MODULE ClusterLife -----------------------------
(***************************************************************************)
(* The life of a cluster: users, the scheduler and the garbage collector   *)
(* around the infrastructure controller and the controller of clusters,    *)
(* which both write its status.                                            *)
(***************************************************************************)
EXTENDS ClusterController

\* What happens, each kind a number of times.  refuse, lost: a request to IM fails, or
\* its reply; vanish, break: an infrastructure does; crash, observer crash: of the
\* controllers; observer: the API refuses a report
Kinds == {"update", "delete", "refuse", "lost", "vanish", "break", "crash", "observer crash",
          "observer", "health", "metrics"}
\* start: the cluster as it is created; swift: the delay before a deletion is longer
\* than what else is done; prompt: both controllers notice a version before the
\* handler goes on; orderly: users wait until the handler is done
AllScenarios ==
    [start: Versions, cloud: {"cloud", "global cloud", "missing", "unsupported"},
     provider: {"provider", "global provider", "missing"},
     swift: BOOLEAN, prompt: BOOLEAN, orderly: BOOLEAN, budget: [Kinds -> Nat]]


ASSUME LifeAssumption ==
    /\ Scenarios \subseteq AllScenarios
    /\ \A s \in Scenarios : \E t \in Toscas, k \in {Own, Null} : s.start = Created(t, k)

vars == <<db, queue, worker, im, scenario, budget, kubeVars>>

Init ==
    /\ scenario \in Scenarios
    /\ cluster = scenario.start
    /\ feeds = [k \in Controllers |-> <<cluster>>]
    /\ queue = [dirty |-> Null, timer |-> Null]
    /\ worker = Idle
    /\ im = [id \in Ids |-> Unused]
    /\ budget = scenario.budget
    /\ kqueue = Null /\ observer = Null /\ health = "ok"

AtRest == worker = Idle /\ queue.dirty = Null /\ feeds["infrastructure"] = <<>>
Ready == scenario.orderly => AtRest
others == <<queue, worker, im, scenario, kubeVars>>

\* The scheduler binds a cluster that is not registered to a cloud
Schedule ==
    /\ cluster # Null /\ ~cluster.deleted
    /\ cluster.kubeconfig = Null /\ ~cluster.status.scheduled_to
    /\ Bind
    /\ UNCHANGED <<others, budget>>
\* It cannot read metrics any more, or can again
MetricsChange ==
    /\ Spend("metrics")
    /\ cluster # Null
    /\ \/ /\ cluster.status.state = "ONLINE"
          /\ UpdateStatus([cluster EXCEPT !.status.state = "FAILING_METRICS"])
       \/ /\ cluster.status.state = "FAILING_METRICS"
          /\ UpdateStatus([cluster EXCEPT !.status.state = "ONLINE"])
    /\ UNCHANGED others

UserUpdate ==
    /\ Spend("update") /\ Ready
    /\ cluster # Null /\ ~cluster.deleted /\ cluster.tosca + 1 \in Toscas
    /\ Update([cluster EXCEPT !.tosca = @ + 1])
    /\ UNCHANGED others
UserDelete ==
    /\ Spend("delete") /\ Ready
    /\ cluster # Null /\ ~cluster.deleted
    /\ Delete
    /\ UNCHANGED others
Garbage == Collect /\ UNCHANGED <<others, budget>>

Noticed ==
    scenario.prompt => /\ \A k \in Controllers : feeds[k] = <<>>
                       /\ kqueue = Null /\ (observer # Null => observer.pc # "write")
InfrastructureSteps ==
    /\ Receive \/ Fire \/ ImSteps \/ Restart \/ (Handler /\ Noticed)
    /\ UNCHANGED kubeVars
KubernetesSteps == KReceive \/ KHandle \/ Observe \/ Report \/ KRestart \/ HealthChanges
Next ==
    \/ InfrastructureSteps \/ KubernetesSteps
    \/ Schedule \/ MetricsChange \/ UserUpdate \/ UserDelete \/ Garbage
Spec == Init /\ [][Next]_vars

\* Coroutines that can run do, timers end, IM gets done with what it is asked for, and
\* the scheduler and the garbage collector with what they are given.  The infinite
\* polling of a state that does not change is no step.
Fairness ==
    /\ WF_vars(Handler /\ Noticed /\ UNCHANGED kubeVars)
    /\ WF_vars(Receive /\ UNCHANGED kubeVars) /\ WF_vars(Fire /\ UNCHANGED kubeVars)
    /\ \A id \in Ids : WF_vars((ImConfigures(id) \/ ImDeletes(id)) /\ UNCHANGED kubeVars)
    /\ WF_vars(KReceive) /\ WF_vars(KHandle) /\ WF_vars(Observe) /\ WF_vars(Report)
    /\ WF_vars(Schedule) /\ WF_vars(Garbage)
FairSpec == Spec /\ Fairness

-----------------------------------------------------------------------------
(* Properties                                                              *)

Points ==
    {"fail", "resolve", "finalize", "apply", "create", "reconcile", "created", "reconfigure",
     "poll", "give up", "connect", "kubeconfig", "hand over", "read", "delete", "deleting",
     "leaving", "release"}
Observers == [pc: {"wait", "write", "dead"}, resource: Versions, found: ClusterStates]

\* The shape of the state.
ClusterTypeOK ==
    /\ cluster \in Versions \cup {Null}
    /\ feeds \in [Controllers -> Seq(Versions)]
    /\ queue \in [dirty: Versions \cup {Null}, timer: Versions \cup {Null}]
    /\ worker \in {Idle} \cup [pc: Points, copy: Versions]
    /\ im \in [Ids -> Replies \cup {Unused, Gone}]
    /\ scenario \in Scenarios /\ budget \in [Kinds -> Nat]
    /\ kqueue \in Versions \cup {Null}
    /\ observer \in Observers \cup {Null}
    /\ health \in {"ok", "pressure", "notready", "down"}

Ended == cluster = Null \/ cluster.deleted
Held == cluster # Null /\ Finalizer \in ToSet(cluster.finalizers)
\* All that is to be received is in deletion
AllDeleted == \A i \in DOMAIN feeds["infrastructure"] : feeds["infrastructure"][i].deleted

\* The infrastructure controller receives versions in the order they were stored, and
\* deletes (the delayed versions of enqueue) only what is in deletion for good.
DeletionIsLast ==
    LET feed == feeds["infrastructure"] IN
    /\ \A i, j \in DOMAIN feed : i < j /\ feed[i].deleted => feed[j].deleted
    /\ \A i \in DOMAIN feed : feed[i].deleted => Ended
    /\ queue.timer # Null => queue.timer.deleted /\ Ended /\ AllDeleted
    /\ queue.dirty # Null /\ queue.dirty.deleted => Ended /\ AllDeleted
    /\ worker # Idle /\ worker.copy.deleted =>
         Ended /\ AllDeleted /\ (queue.dirty # Null => queue.dirty.deleted)

\* A version that is not in deletion and has the finalizer vouches for the finalizer in
\* the database, and has it if it has an infrastructure.
Vouches(v) ==
    ~v.deleted =>
      /\ Finalizer \in ToSet(v.finalizers) => Held
      /\ v.status.cluster_id # Null => Finalizer \in ToSet(v.finalizers)

\* Where the handler is with which copy: it creates infrastructure with the finalizer
\* in its copy, and deletes what is in deletion.
CopyFits ==
    worker # Idle =>
      LET c == worker.copy
          with == Finalizer \in ToSet(c.finalizers)
      IN  /\ worker.pc \in {"read", "delete", "deleting", "leaving", "release"} => c.deleted
          /\ worker.pc \in {"finalize", "apply", "create", "reconcile", "created", "reconfigure",
                            "poll", "connect", "kubeconfig", "hand over"} => ~c.deleted
          /\ worker.pc \in {"finalize", "apply", "create", "reconcile", "connect", "kubeconfig",
                            "hand over"} => with
          /\ worker.pc = "finalize" => c.status.cluster_id = Null
          /\ worker.pc # "finalize" => Vouches(c)

\* The status with an id that the other controller has seen, and may write back
HasId(v) == v # Null /\ v.status.cluster_id # Null
FinalizerKept ==
    /\ \A i \in DOMAIN feeds["infrastructure"] : Vouches(feeds["infrastructure"][i])
    /\ queue.dirty # Null => Vouches(queue.dirty)
    /\ CopyFits
    /\ \/ HasId(cluster) \/ HasId(kqueue) \/ (observer # Null /\ HasId(observer.resource))
       \/ \E i \in DOMAIN feeds["kubernetes"] : HasId(feeds["kubernetes"][i])
       => Held \/ Ended

\* What the two controllers rely on while they write to the same cluster.
ClusterInv == ClusterTypeOK /\ DeletionIsLast /\ FinalizerKept

Fails(ks) == \E k \in ks : scenario.budget[k] > 0
Alive == {id \in Ids : Exists(id)}
Known == (IF cluster = Null THEN {} ELSE {cluster.status.cluster_id})
           \cup (IF worker = Idle THEN {} ELSE {worker.copy.status.cluster_id})

\* Infrastructure is only created for a cluster that cannot disappear: it is in the
\* database with the finalizer of the controller (reconcile_cluster).
CreatedUnderFinalizer ==
    [][\A id \in Ids : im[id] = Unused /\ im'[id] # Unused
         => cluster # Null /\ Finalizer \in ToSet(cluster.finalizers)]_vars

\* No infrastructure is lost: what IM runs is known to the database or the handler, if
\* replies get through, the controller runs on, versions arrive in time and users wait
\* for what is being done
\* (on_create, delete_cluster).
NoneLost ==
    scenario.prompt /\ scenario.orderly /\ ~Fails({"lost", "crash"}) => Alive \subseteq Known

\* A cluster in deletion is removed in the end, whatever IM refuses meanwhile, whenever
\* the controller is restarted and however late versions are noticed (delete_cluster
\* and the delayed retries of enqueue).  With NoneLost, its infrastructure is gone then.
DeletionEnds ==
    cluster # Null /\ cluster.deleted ~> cluster = Null

\* A cluster that is bound to a cloud is created, and users get the kubeconfig of an
\* infrastructure that has the latest template, if IM works.
Provisioned ==
    /\ cluster # Null /\ cluster.status.scheduled_to /\ ~cluster.deleted /\ cluster.tosca # 0
    /\ scenario.orderly /\ scenario.cloud # "missing" /\ scenario.provider # "missing"
    /\ ~Fails({"lost", "crash", "refuse", "vanish", "break"})
    ~> \/ cluster = Null \/ cluster.deleted
       \/ /\ cluster.status.last_applied = cluster.tosca
          /\ cluster.kubeconfig \in Ids /\ im[cluster.kubeconfig] = Configured

ToldRight ==
    LET state == cluster.status.state
        nodes == Nodes(cluster)
    IN  \/ cluster = Null \/ cluster.deleted \/ cluster.kubeconfig = Null \/ state = "FAILED"
        \/ nodes = "down" /\ state = "OFFLINE"
        \/ nodes # "down" /\ state = "FAILING_METRICS"
        \/ nodes = "pressure" /\ state = "UNHEALTHY"
        \/ nodes = "notready" /\ state = "NOTREADY"
        \/ nodes = "ok" /\ state = "ONLINE"

\* While its infrastructure is created or changed a cluster is not observed, though its
\* nodes answer already, once the cluster controller has seen the state; in particular
\* after a restart or an observer that died (resource_received: "could be unsafe from
\* the application deployment point of view").  If a version is late, an old one without
\* kubeconfig may be written back, and the observer is not told to stop.
UnfinishedUnobserved ==
    /\ scenario.prompt
    /\ cluster # Null /\ cluster.status.state \in {"CREATING", "RECONCILING"}
    /\ feeds["kubernetes"] = <<>> /\ kqueue = Null
    => observer = Null

-----------------------------------------------------------------------------
(* What NoneLost and UnfinishedUnobserved rest on                          *)

\* The versions of the cluster that are stored, under way or held by a controller
Copies ==
    ({cluster, queue.dirty, queue.timer, kqueue} \ {Null})
      \cup ToSet(feeds["infrastructure"]) \cup ToSet(feeds["kubernetes"])
      \cup (IF worker = Idle THEN {} ELSE {worker.copy})
      \cup (IF observer = Null THEN {} ELSE {observer.resource})

HasFinalizer(v) == Finalizer \in ToSet(v.finalizers)
IsRegistered == scenario.start.kubeconfig = Own
\* What the parts of a version, which different actors write, have to do with each other
Coherent(v) ==
    /\ v.status.running_on <=> v.status.cluster_id # Null
    /\ v.status.state = "PENDING" => v.status.cluster_id = Null
    /\ v.kubeconfig \in Ids => im[v.kubeconfig] # Unused
    /\ v.kubeconfig = Own <=> IsRegistered
    /\ v.kubeconfig \in Ids \/ HasFinalizer(v) => v.status.scheduled_to
    /\ v.status.triggered => v.status.scheduled_to \/ IsRegistered
    /\ v.status.scheduled_to => ~IsRegistered
    /\ \/ v.finalizers \in {<<>>, <<Finalizer>>}
       \/ v.deleted /\ v.finalizers \in {<<Cascade>>, <<Finalizer, Cascade>>}

\* What is handled was accepted: a cluster that is scheduled (enqueue) and, in deletion,
\* only held by the controller; one with a kubeconfig (accept_accessible).
CopiesCoherent ==
    /\ \A v \in Copies :
         Coherent(v) /\ (v.status.scheduled_to /\ cluster # Null => cluster.status.scheduled_to)
    /\ queue.timer # Null => queue.timer.finalizers = <<Finalizer>>
    /\ queue.dirty # Null =>
         /\ queue.dirty.status.scheduled_to
         /\ queue.dirty.deleted => queue.dirty.finalizers = <<Finalizer>>
    /\ worker # Idle =>
         /\ worker.copy.status.scheduled_to
         /\ worker.copy.deleted =>
              worker.copy.finalizers = IF worker.pc = "release" THEN <<>> ELSE <<Finalizer>>
         /\ worker.pc = "create" =>
              worker.copy.status.cluster_id = Null /\ worker.copy.status.state = "CREATING"
         /\ worker.pc = "reconcile" => worker.copy.status.state = "RECONCILING"
         /\ worker.pc \in {"reconcile", "created", "connect", "kubeconfig", "hand over", "delete",
                          "deleting", "leaving"} => worker.copy.status.cluster_id # Null
         /\ worker.pc = "hand over" => worker.copy.kubeconfig \in Ids
    /\ kqueue # Null => AcceptAccessible(kqueue)
    /\ observer # Null =>
         /\ observer.resource.status.scheduled_to \/ IsRegistered
         /\ observer.pc = "write" => observer.found \notin {"PENDING", "FAILED"}

\* The controller of clusters comes to have the present version, if it accepts it, and
\* observes it if it is finished (resource_received).
ObserverInformed ==
    cluster # Null /\ AcceptAccessible(cluster) =>
      LET feed == feeds["kubernetes"] IN
      /\ feed # <<>> => Last(feed) = cluster
      /\ feed = <<>> /\ kqueue # Null => kqueue = cluster
      /\ feed = <<>> /\ kqueue = Null /\ observer # Null =>
           /\ observer.resource = cluster
           /\ cluster.status.state \notin {"CREATING", "RECONCILING"}

\* Versions that the infrastructure controller puts into its queue at once
Accepts(v) == ~v.deleted /\ v.status.state # "FAILED" /\ v.status.scheduled_to
Comes == \E v \in ToSet(feeds["infrastructure"]) : Accepts(v)

\* A kubeconfig in the database stays there: nobody has one before, and a handler that
\* still adds the finalizer meets a cluster without both (reconcile_cluster).
KubeconfigStays ==
    scenario.prompt =>
      /\ cluster # Null /\ cluster.kubeconfig = Null =>
           /\ \A v \in Copies : ~v.status.triggered
           /\ \A v \in ToSet(feeds["kubernetes"]) : v.kubeconfig = Null
           /\ kqueue = Null /\ observer = Null
      /\ observer # Null => observer.resource.kubeconfig # Null
      /\ cluster # Null /\ cluster.kubeconfig \in Ids => Held \/ cluster.deleted
      /\ Held =>
           /\ \A v \in ToSet(feeds["infrastructure"]) : v.deleted \/ HasFinalizer(v)
           /\ queue.dirty # Null => queue.dirty.deleted \/ HasFinalizer(queue.dirty) \/ Comes
           /\ worker.pc = "resolve" => worker.copy.deleted \/ HasFinalizer(worker.copy)
           /\ worker.pc # "finalize"
      /\ /\ worker.pc \in {"resolve", "finalize"}
         /\ cluster # Null /\ cluster.status.state = "FAILED"
         => (queue.dirty # Null => queue.dirty.deleted) /\ ~Comes

Regular == scenario.prompt /\ scenario.orderly /\ ~Fails({"lost", "crash"})
\* The handler has created an infrastructure whose id nobody else knows
Fresh == worker.pc = "created" /\ worker.copy.status.state = "CREATING"
Down(v) == v.kubeconfig \in Ids => ~Exists(v.kubeconfig)
\* An observer that has nothing to report, since its infrastructure is gone
Blind(o) ==
    /\ o.pc # "write" /\ o.resource.status.state = "OFFLINE"
    /\ o.resource.kubeconfig \in Ids /\ Down(o.resource)

\* There is one infrastructure at most, and all versions name it that a controller might
\* write back or delete; before its id is saved, no other exists (on_create).
IdsTracked ==
    Regular =>
      /\ budget["lost"] = 0 /\ budget["crash"] = 0
      /\ Ended =>
           /\ AllDeleted /\ (queue.dirty # Null => queue.dirty.deleted)
           /\ worker # Idle => worker.copy.deleted
      /\ worker.pc = "create" \/ Fresh =>
           /\ cluster.status.state \in {"CREATING", "OFFLINE"}
           /\ observer # Null /\ observer.pc = "write" => observer.found = "OFFLINE"
           /\ \A v \in Copies : Down(v)
      /\ worker.pc \in {"create", "release"} => Alive = {}
      /\ \A id \in Alive :
           /\ Held
           /\ worker # Idle => worker.copy.status.cluster_id = id
           /\ ~Fresh =>
                /\ cluster.status.cluster_id = id
                /\ \A v \in ToSet(feeds["infrastructure"]) \cup ToSet(feeds["kubernetes"])
                              \cup ({queue.timer, kqueue} \ {Null}) :
                     v.status.cluster_id = id
                /\ queue.dirty # Null => queue.dirty.status.cluster_id = id \/ Comes
                /\ observer # Null =>
                     observer.resource.status.cluster_id = id \/ Blind(observer)

\* Every infrastructure that exists at the provider is known by its id
\* (on_create, delete_cluster), and a cluster is observed only when the
\* infrastructure controller has finished it (resource_received, register_observer);
\* with what the controllers rely on.
ProvisioningInv ==
    /\ ClusterInv
    /\ CopiesCoherent /\ ObserverInformed /\ KubeconfigStays /\ IdsTracked
    /\ NoneLost /\ UnfinishedUnobserved

\* The state of a cluster that was registered comes to tell how its nodes are, and so
\* does that of a healthy cluster that was created, however the writes of the two
\* controllers are ordered (resource_received, observe_resource).
HealthTold ==
    scenario.start.kubeconfig = Own \/ ~Fails({"health"})
    => (~Fails({"observer"}) => <>[]ToldRight)

\* The same for every cluster that was created, healthy or not: the cluster controller
\* has the last word on its health (wait_for_connecting).
HealthSettles == <>[]ToldRight
=============================================================================
