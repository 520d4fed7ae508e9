--------------------------- MODULE MagnumController -------------------------
(***************************************************************************)
(* The controller of OpenStack Magnum clusters (krake/controller/magnum.py)*)
(* for one Magnum cluster, the part of the scheduler that binds it to a    *)
(* project (OpenstackHandler), and the Kubernetes clusters that are made   *)
(* of it.  OpenStack is external.  As in InfrastructureController an action*)
(* is the code up to the next request, and the database is atomic.         *)
(***************************************************************************)
EXTENDS Naturals, Sequences, FiniteSets, SequencesExt

CONSTANTS
    Null,             \* Python's None, and what is absent
    Ids,              \* the ids that Magnum gives
    Projects,         \* the OpenStack projects that match the constraints
    MaxLag,           \* bound: versions a controller is behind
    MagnumScenarios   \* what happens

DeletionFinalizer == "magnum_cluster_deletion"
CascadeFinalizer == "cascade_deletion"
Names == {"name-1", "name-2"}   \* bound: names given to Kubernetes clusters
NodeCounts == {1, 2}

\* MagnumClusterState
MagnumStates == {"PENDING", "CREATING", "RUNNING", "RECONCILING", "DELETING", "FAILED"}
\* cluster: the name of the Kubernetes cluster; template follows from project,
\* api_address and the other addresses from cluster_id
MagnumStatuses ==
    [state: MagnumStates, project: Projects \cup {Null}, cluster_id: Ids \cup {Null},
     cluster: Names \cup {Null}, node_count: NodeCounts \cup {Null}]
\* inherited: the labels and metrics of a project were added
MagnumVersions ==
    [deleted: BOOLEAN, finalizers: Seq({DeletionFinalizer, CascadeFinalizer}),
     node_count: NodeCounts, inherited: BOOLEAN, status: MagnumStatuses]
Watches == {"magnum", "scheduler"}

\* What happens, and how often it may.  coe: the orchestration engine of the template;
\* labels: the project has something to pass on; orderly: users wait until all is done;
\* prompt: versions are noticed before a handler goes on
Stories == {"resize", "delete", "refuse", "lost", "break", "vanish", "crash"}
AllMagnumScenarios ==
    [projects: SUBSET Projects, labels: BOOLEAN, coe: STRING, orderly: BOOLEAN,
     prompt: BOOLEAN, budget: [Stories -> Nat]]

ASSUME MagnumAssumption ==
    /\ Null \notin Ids /\ Null \notin Projects /\ Null \notin Names
    /\ Null \notin MagnumVersions
    /\ MaxLag \in Nat \ {0}
    /\ MagnumScenarios \subseteq AllMagnumScenarios

VARIABLES
    magnum,     \* the cluster in the database, or Null
    mfeeds,     \* versions that the watches have not delivered
    squeue,     \* scheduler: the version to be handled
    sworker,    \* scheduler: the handler
    mqueue,     \* [dirty, timer]
    mworker,    \* the handler
    openstack,  \* [Ids -> what Magnum says of its cluster]
    kubes,      \* [Names -> the Magnum cluster its kubeconfig leads to, or Null]
    mscenario, mbudget
magnumVars == <<magnum, mfeeds, squeue, sworker, mqueue, mworker, openstack, kubes,
                mscenario, mbudget>>
outside == <<openstack, kubes, mscenario, mbudget>>

MIdle == [pc |-> "idle"]
MAt(pc, c) == [pc |-> pc, copy |-> c]
MSpend(k) == mbudget[k] > 0 /\ mbudget' = [mbudget EXCEPT ![k] = @ - 1]

-----------------------------------------------------------------------------
(* krake/api/openstack.py                                                  *)

\* create_magnum_cluster: the status is initialised
NewMagnum ==
    [deleted |-> FALSE, finalizers |-> <<>>, node_count |-> 1, inherited |-> FALSE,
     status |-> [state |-> "PENDING", project |-> Null, cluster_id |-> Null,
                 cluster |-> Null, node_count |-> Null]]

Put(c) ==
    /\ \A k \in Watches : Len(mfeeds[k]) < MaxLag
    /\ magnum' = c
    /\ mfeeds' = [k \in Watches |-> Append(mfeeds[k], c)]
\* update_magnum_cluster: the last finalizer is followed by the end
UpdateMagnumCluster(body) ==
    IF magnum.deleted /\ body.finalizers = <<>>
    THEN /\ Len(mfeeds["magnum"]) < MaxLag
         /\ magnum' = Null
         /\ mfeeds' = [mfeeds EXCEPT !["magnum"] = Append(@, magnum)]
    ELSE Put([body EXCEPT !.deleted = magnum.deleted, !.status = magnum.status])
\* update_magnum_cluster_binding
UpdateBinding(p) == Put([magnum EXCEPT !.status.project = p])
\* update_magnum_cluster_status: the status of the body as a whole
UpdateMagnumStatus(body) == Put([magnum EXCEPT !.status = body.status])
\* delete_magnum_cluster
DeleteMagnum ==
    Put([magnum EXCEPT !.deleted = TRUE, !.finalizers = Append(@, CascadeFinalizer)])

Unfinalizable(body) ==
    magnum.deleted /\ ~(ToSet(body.finalizers) \subseteq ToSet(magnum.finalizers))

\* A request of a handler.  One that fails raises an error that ends the handler; its
\* task is started again.  A body without an update is refused, if the timestamps are
\* equal, too.  worker: the handler's next value.
Asks(worker, next, Request) ==
    \/ magnum = Null /\ worker = MIdle /\ UNCHANGED <<magnum, mfeeds>>
    \/ magnum # Null /\ Request /\ worker = next
SaveMagnum(worker, c, next) ==
    Asks(worker, next, ~Unfinalizable(c) /\ c # magnum /\ UpdateMagnumCluster(c))
SaveMagnumAgain(worker, c, next) ==
    /\ magnum # Null
    /\ \/ Unfinalizable(c) /\ worker = MIdle /\ UNCHANGED <<magnum, mfeeds>>
       \/ c = magnum /\ worker = MIdle /\ UNCHANGED <<magnum, mfeeds>>
       \/ c = magnum /\ worker = next /\ UpdateMagnumCluster(c)

-----------------------------------------------------------------------------
(* The scheduler: OpenstackHandler                                         *)

\* received_magnum_cluster
ReceivedMagnumCluster ==
    /\ mfeeds["scheduler"] # <<>>
    /\ LET c == Head(mfeeds["scheduler"])
       IN  squeue' = IF ~c.deleted /\ c.status.project = Null THEN c ELSE squeue
    /\ mfeeds' = [mfeeds EXCEPT !["scheduler"] = Tail(@)]
    /\ UNCHANGED <<magnum, sworker, mqueue, mworker, outside>>

\* handle_magnum_clusters, and select_openstack_project (see Selection)
HandleMagnumClusters ==
    /\ sworker = MIdle /\ squeue # Null
    /\ squeue' = Null
    /\ \/ /\ mscenario.projects = {}
          /\ sworker' = MAt("none", [squeue EXCEPT !.status.state = "FAILED"])
       \/ \E p \in mscenario.projects :
            sworker' = [pc |-> "inherit", project |-> p,
                        copy |-> [squeue EXCEPT !.inherited = @ \/ mscenario.labels]]
    /\ UNCHANGED <<magnum, mfeeds, mqueue, mworker, outside>>

\* schedule_magnum_cluster: labels and metrics, and then the binding
ScheduleMagnumCluster ==
    /\ \/ /\ sworker.pc = "inherit"
          /\ LET next == [sworker EXCEPT !.pc = "bind"]
             IN  \/ SaveMagnum(sworker', sworker.copy, next)
                 \/ SaveMagnumAgain(sworker', sworker.copy, next)
       \/ sworker.pc = "bind" /\ Asks(sworker', MIdle, UpdateBinding(sworker.project))
       \/ sworker.pc = "none" /\ Asks(sworker', MIdle, UpdateMagnumStatus(sworker.copy))
    /\ UNCHANGED <<squeue, mqueue, mworker, outside>>

-----------------------------------------------------------------------------
(* OpenStack, as far as one cluster is concerned                           *)

Absent == [status |-> "absent", project |-> Null, nodes |-> 1]
Runs(id) == id # Null /\ openstack[id].status \notin {"absent", "gone"}
OpenstackStates ==
    {"absent", "CREATE_IN_PROGRESS", "CREATE_COMPLETE", "CREATE_FAILED",
     "UPDATE_IN_PROGRESS", "UPDATE_COMPLETE", "UPDATE_FAILED", "DELETE_IN_PROGRESS",
     "DELETE_FAILED", "gone"}

\* create_magnum_cluster
CreateIn(project, nodes, id) ==
    /\ openstack[id] = Absent /\ id = CHOOSE i \in Ids : openstack[i] = Absent
    /\ openstack' = [openstack EXCEPT ![id] =
                       [status |-> "CREATE_IN_PROGRESS", project |-> project, nodes |-> nodes]]
\* resize_magnum_cluster
ResizeTo(nodes, id) ==
    /\ Runs(id)
    /\ openstack' = [openstack EXCEPT ![id].status = "UPDATE_IN_PROGRESS", ![id].nodes = nodes]
\* delete_magnum_cluster
DeleteIn(id) ==
    Runs(id) /\ openstack' = [openstack EXCEPT ![id].status = "DELETE_IN_PROGRESS"]
\* read_magnum_cluster: a client of one project does not see the clusters of another one.
\* Without an id, the client library (external) addresses the collection instead: the
\* reply is a listing, which has no status
ReadIn(c) ==
    CASE c.status.cluster_id = Null -> "listing"
      [] /\ Runs(c.status.cluster_id)
         /\ openstack[c.status.cluster_id].project = c.status.project ->
           openstack[c.status.cluster_id].status
      [] OTHER -> "NotFound"
Found(c) == ReadIn(c) \notin {"NotFound", "listing"}

Complete == [CREATE_IN_PROGRESS |-> "CREATE_COMPLETE", UPDATE_IN_PROGRESS |-> "UPDATE_COMPLETE",
             DELETE_IN_PROGRESS |-> "gone"]
Failing == [CREATE_IN_PROGRESS |-> "CREATE_FAILED", UPDATE_IN_PROGRESS |-> "UPDATE_FAILED",
            DELETE_IN_PROGRESS |-> "DELETE_FAILED"]
Completes(id) ==
    /\ openstack[id].status \in DOMAIN Complete
    /\ openstack' = [openstack EXCEPT ![id].status = Complete[@]]
    /\ UNCHANGED <<magnum, mfeeds, squeue, sworker, mqueue, mworker, kubes, mscenario, mbudget>>
Breaks(id) ==
    /\ \/ /\ openstack[id].status \in DOMAIN Failing /\ MSpend("break")
          /\ openstack' = [openstack EXCEPT ![id].status = Failing[@]]
       \/ /\ Runs(id) /\ MSpend("vanish")
          /\ openstack' = [openstack EXCEPT ![id].status = "gone"]
    /\ UNCHANGED <<magnum, mfeeds, squeue, sworker, mqueue, mworker, kubes, mscenario>>

-----------------------------------------------------------------------------
(* The controller: receiving versions                                      *)

\* Faulty variant of MEnqueue: failed clusters are rejected first
MEnqueueFailedFirst(c, q) ==
    LET ours == c.finalizers # <<>> /\ Last(c.finalizers) = DeletionFinalizer
    IN  IF c.status.state # "FAILED"
          /\ IF c.deleted THEN ours ELSE c.status.project # Null
        THEN [q EXCEPT !.dirty = c] ELSE q

\* enqueue of prepare
MEnqueue(c, q) ==
    LET ours == c.finalizers # <<>> /\ Last(c.finalizers) = DeletionFinalizer
        failed == c.status.state = "FAILED"
    IN  CASE c.deleted /\ ours /\ failed -> [q EXCEPT !.timer = c]
          [] c.deleted /\ ours /\ ~failed -> [q EXCEPT !.dirty = c]
          [] ~c.deleted /\ ~failed /\ c.status.project # Null -> [q EXCEPT !.dirty = c]
          [] OTHER -> q
MReceive ==
    /\ mfeeds["magnum"] # <<>>
    /\ mqueue' = MEnqueue(Head(mfeeds["magnum"]), mqueue)
    /\ mfeeds' = [mfeeds EXCEPT !["magnum"] = Tail(@)]
    /\ UNCHANGED <<magnum, squeue, sworker, mworker, outside>>
\* poll_interval is over
MFire ==
    /\ mqueue.timer # Null
    /\ mqueue' = [dirty |-> mqueue.timer, timer |-> Null]
    /\ UNCHANGED <<magnum, mfeeds, squeue, sworker, mworker, outside>>

\* consume
Consume ==
    /\ mworker = MIdle /\ mqueue.dirty # Null
    /\ mworker' = MAt(IF mqueue.dirty.deleted THEN "read" ELSE "client", mqueue.dirty)
    /\ mqueue' = [mqueue EXCEPT !.dirty = Null]
    /\ UNCHANGED <<magnum, mfeeds, squeue, sworker, outside>>

inside == <<squeue, sworker, mqueue>>
MSaveStatus(c, next) ==
    /\ Asks(mworker', next, UpdateMagnumStatus(c))
    /\ UNCHANGED <<inside, outside>>
MGoes(next) == mworker' = next /\ UNCHANGED <<magnum, mfeeds, inside, outside>>

\* process_cluster: the errors of the controller and of OpenStack
MFailWith(c) == MAt("fail", [c EXCEPT !.status.state = "FAILED"])
ProcessCluster == mworker.pc = "fail" /\ MSaveStatus(mworker.copy, MIdle)
\* An error of OpenStack
OpenstackError ==
    /\ mworker.pc \in {"client", "create", "resize", "wait", "kubeconfig", "delete client",
                       "delete", "leaving"}
    /\ MSpend("refuse")
    /\ mworker' = MFailWith(mworker.copy)
    /\ UNCHANGED <<magnum, mfeeds, inside, openstack, kubes, mscenario>>

-----------------------------------------------------------------------------
(* Reconciliation                                                          *)

\* Faulty variant of FirstActions: every creation has its own name
FirstActionsAnew(c) ==
    CASE c.status.state = "PENDING" ->
           {MAt("pending", [c EXCEPT !.status.state = "CREATING", !.status.cluster = n]) :
              n \in {n \in Names : kubes[n] = Null}}
      [] c.status.state \in {"CREATING", "RECONCILING"} -> {MAt("wait", c)}
      [] c.status.state = "RUNNING" ->
           {IF c.status.node_count # c.node_count
            THEN MAt("running", [c EXCEPT !.status.state = "RECONCILING"])
            ELSE MAt("kube", c)}
      [] OTHER -> {MIdle}
\* Faulty variant of FirstActions: a cluster that runs is left alone
FirstActionsOnce(c) ==
    CASE c.status.state = "PENDING" ->
           {MAt("pending", [c EXCEPT !.status.state = "CREATING", !.status.cluster = n]) :
              n \in IF c.status.cluster # Null THEN {c.status.cluster}
                    ELSE {n \in Names : kubes[n] = Null}}
      [] c.status.state \in {"CREATING", "RECONCILING"} -> {MAt("wait", c)}
      [] OTHER -> {MIdle}

\* The first action of the state machine; its forward reference is a random name
FirstActions(c) ==
    CASE c.status.state = "PENDING" ->
           {MAt("pending", [c EXCEPT !.status.state = "CREATING", !.status.cluster = n]) :
              n \in IF c.status.cluster # Null THEN {c.status.cluster}
                    ELSE {n \in Names : kubes[n] = Null}}
      [] c.status.state \in {"CREATING", "RECONCILING"} -> {MAt("wait", c)}
      [] c.status.state = "RUNNING" ->
           {IF c.status.node_count # c.node_count
            THEN MAt("running", [c EXCEPT !.status.state = "RECONCILING"])
            ELSE MAt("kube", c)}
      [] OTHER -> {MIdle}

\* reconcile_magnum_cluster: create_magnum_client, which reads the project
ReconcileMagnumCluster ==
    /\ mworker.pc = "client"
    /\ LET c == mworker.copy
       IN  IF DeletionFinalizer \in ToSet(c.finalizers) THEN \E a \in FirstActions(c) : MGoes(a)
           ELSE MGoes(MAt("finalize", [c EXCEPT !.finalizers = Append(@, DeletionFinalizer)]))
MFinalize ==
    /\ mworker.pc = "finalize"
    /\ \E a \in FirstActions(mworker.copy) :
         \/ SaveMagnum(mworker', mworker.copy, a)
         \/ SaveMagnumAgain(mworker', mworker.copy, a)
    /\ UNCHANGED <<inside, outside>>

\* on_pending, up to the request to OpenStack
OnPending == mworker.pc = "pending" /\ MSaveStatus(mworker.copy, MAt("create", mworker.copy))

\* Faulty variant of CreateMagnumCluster: the address in the reply is taken for the id
CreateMagnumClusterUnparsed ==
    /\ mworker.pc = "create"
    /\ \E id \in Ids :
         /\ CreateIn(mworker.copy.status.project, mworker.copy.node_count, id)
         /\ mworker' = MAt("created", [mworker.copy EXCEPT !.status.cluster_id = "clusters/" \o id])
    /\ UNCHANGED <<magnum, mfeeds, inside, kubes, mscenario, mbudget>>

\* read_magnum_cluster_template and create_magnum_cluster; the reply may be lost
CreateMagnumCluster ==
    /\ mworker.pc = "create"
    /\ LET c == mworker.copy IN
       \/ /\ mscenario.coe # "kubernetes"
          /\ mworker' = MFailWith(c) /\ UNCHANGED <<openstack, mbudget>>
       \/ /\ mscenario.coe = "kubernetes"
          /\ \E id \in Ids :
               /\ CreateIn(c.status.project, c.node_count, id)
               /\ \/ /\ mworker' = MAt("created", [c EXCEPT !.status.cluster_id = id])
                     /\ UNCHANGED mbudget
                  \/ MSpend("lost") /\ mworker' = MFailWith(c)
    /\ UNCHANGED <<magnum, mfeeds, inside, kubes, mscenario>>
SaveId == mworker.pc = "created" /\ MSaveStatus(mworker.copy, MAt("wait", mworker.copy))

\* on_running, if the number of nodes is to change
OnRunning == mworker.pc = "running" /\ MSaveStatus(mworker.copy, MAt("resize", mworker.copy))
ResizeMagnumCluster ==
    /\ mworker.pc = "resize"
    /\ LET c == mworker.copy IN
       \/ Found(c) /\ ResizeTo(c.node_count, c.status.cluster_id) /\ mworker' = MAt("wait", c)
       \/ ~Found(c) /\ mworker' = MFailWith(c) /\ UNCHANGED openstack
    /\ UNCHANGED <<magnum, mfeeds, inside, kubes, mscenario, mbudget>>

\* wait_for_running; a cluster that OpenStack does not know is created again, and one
\* without an id ends the handler with an AttributeError
WaitForRunning ==
    /\ mworker.pc = "wait"
    /\ LET c == mworker.copy
           status == ReadIn(c)
       IN  \/ /\ status = "NotFound"
              /\ MGoes(MAt("forget", [c EXCEPT !.status.cluster_id = Null,
                                               !.status.state = "PENDING"]))
           \/ /\ status \in {"CREATE_FAILED", "UPDATE_FAILED", "DELETE_FAILED"}
              /\ MGoes(MFailWith(c))
           \/ /\ status \in {"CREATE_COMPLETE", "UPDATE_COMPLETE"}
              /\ MGoes(MAt("complete", [c EXCEPT !.status.state = "RUNNING",
                                !.status.node_count = openstack[c.status.cluster_id].nodes]))
           \/ status = "listing" /\ MGoes(MIdle)
SaveWaited ==
    \/ mworker.pc = "forget" /\ MSaveStatus(mworker.copy, MIdle)
    \/ mworker.pc = "complete" /\ MSaveStatus(mworker.copy, MAt("kube", mworker.copy))

\* reconcile_kubernetes_resource: a resource that leads to the cluster is left alone.
\* Without an id an assertion fails
ReconcileKubernetesResource ==
    /\ mworker.pc = "kube"
    /\ LET c == mworker.copy
           kube == kubes[c.status.cluster]
       IN  MGoes(IF c.status.cluster_id = Null
                   \/ (kube = c.status.cluster_id /\ Runs(c.status.cluster_id)) THEN MIdle
                 ELSE [pc |-> "kubeconfig", copy |-> c, kube |-> kube # Null])
\* make_kubeconfig: certificates of the Magnum cluster
MakeKubeconfig ==
    /\ mworker.pc = "kubeconfig"
    /\ MGoes(IF Found(mworker.copy) THEN [mworker EXCEPT !.pc = "publish"]
             ELSE MFailWith(mworker.copy))
\* The resource is created, or updated if it was there before; otherwise the API refuses
Publish ==
    /\ mworker.pc = "publish"
    /\ mworker' = MIdle
    /\ LET name == mworker.copy.status.cluster
       IN  kubes' = IF mworker.kube = (kubes[name] # Null)
                    THEN [kubes EXCEPT ![name] = mworker.copy.status.cluster_id] ELSE kubes
    /\ UNCHANGED <<magnum, mfeeds, inside, openstack, mscenario, mbudget>>

-----------------------------------------------------------------------------
(* Deletion                                                                *)

Released(c) ==
    MAt("release", [c EXCEPT !.finalizers = RemoveFirst(@, DeletionFinalizer)])
\* delete_magnum_cluster
ReadMagnumCluster ==
    /\ mworker.pc = "read"
    /\ LET c == mworker.copy
       IN  MGoes(CASE magnum = Null -> MIdle
                   [] magnum # Null /\ c.status.project # Null /\ c.status.state # "PENDING" ->
                        MAt("delete client", c)
                   [] OTHER -> Released(c))
CreateClient ==
    /\ mworker.pc = "delete client"
    /\ MGoes(MAt(IF mworker.copy.status.state = "DELETING" THEN "leaving" ELSE "delete",
                 mworker.copy))
\* Without an id the request is refused, as not found or with another error
DeleteMagnumCluster ==
    /\ mworker.pc = "delete"
    /\ IF Found(mworker.copy) THEN DeleteIn(mworker.copy.status.cluster_id)
       ELSE UNCHANGED openstack
    /\ \/ mworker' = MAt("deleting", [mworker.copy EXCEPT !.status.state = "DELETING"])
       \/ ReadIn(mworker.copy) = "listing" /\ mworker' = MFailWith(mworker.copy)
    /\ UNCHANGED <<magnum, mfeeds, inside, kubes, mscenario, mbudget>>
SaveMagnumDeleting ==
    mworker.pc = "deleting" /\ MSaveStatus(mworker.copy, MAt("leaving", mworker.copy))

\* Faulty variant of WaitGone: the end of the deletion is not waited for
WaitGoneEarly == mworker.pc = "leaving" /\ MGoes(Released(mworker.copy))

\* The loop of delete_magnum_cluster; a listing ends the handler, as in WaitForRunning
WaitGone ==
    /\ mworker.pc = "leaving"
    /\ \/ ReadIn(mworker.copy) = "NotFound" /\ MGoes(Released(mworker.copy))
       \/ ReadIn(mworker.copy) = "listing" /\ MGoes(MIdle)
       \/ ReadIn(mworker.copy) = "DELETE_FAILED" /\ MGoes(MFailWith(mworker.copy))
ReleaseMagnum ==
    /\ mworker.pc = "release"
    /\ \/ SaveMagnum(mworker', mworker.copy, MIdle)
       \/ SaveMagnumAgain(mworker', mworker.copy, MIdle)
    /\ UNCHANGED <<inside, outside>>

-----------------------------------------------------------------------------
(* Users, the garbage collector, and the end of the controller             *)

MAtRest ==
    /\ mworker = MIdle /\ sworker = MIdle /\ mqueue.dirty = Null /\ squeue = Null
    /\ \A k \in Watches : mfeeds[k] = <<>>
MReady == mscenario.orderly => MAtRest
UserResizes ==
    /\ MSpend("resize") /\ MReady
    /\ magnum # Null /\ ~magnum.deleted
    /\ Put([magnum EXCEPT !.node_count = 2])
    /\ UNCHANGED <<inside, mworker, openstack, kubes, mscenario>>
UserDeletes ==
    /\ MSpend("delete") /\ MReady
    /\ magnum # Null /\ ~magnum.deleted
    /\ DeleteMagnum
    /\ UNCHANGED <<inside, mworker, openstack, kubes, mscenario>>

\* Dependent Kubernetes clusters go first
CollectMagnum ==
    /\ magnum # Null /\ magnum.deleted
    /\ magnum.finalizers # <<>> /\ Last(magnum.finalizers) = CascadeFinalizer
    /\ \/ /\ \E n \in Names : kubes[n] # Null
          /\ kubes' = [n \in Names |-> Null] /\ UNCHANGED <<magnum, mfeeds>>
       \/ /\ \A n \in Names : kubes[n] = Null
          /\ UpdateMagnumCluster([magnum EXCEPT !.finalizers = Front(@)])
          /\ UNCHANGED kubes
    /\ UNCHANGED <<inside, mworker, openstack, mscenario, mbudget>>

MRestart ==
    /\ MSpend("crash")
    /\ mqueue' = [dirty |-> Null, timer |-> Null]
    /\ mworker' = MIdle
    /\ mfeeds' = [mfeeds EXCEPT !["magnum"] = IF magnum = Null THEN <<>> ELSE <<magnum>>]
    /\ UNCHANGED <<magnum, squeue, sworker, openstack, kubes, mscenario>>

\* prompt: versions are noticed before a handler goes on, and the scheduler is faster than
\* the controller
MNoticed == mscenario.prompt => \A k \in Watches : mfeeds[k] = <<>>
MagnumHandler ==
    /\ MNoticed
    /\ mscenario.prompt => squeue = Null /\ sworker = MIdle
    /\ \/ Consume \/ ReconcileMagnumCluster \/ MFinalize \/ OnPending \/ CreateMagnumCluster
       \/ SaveId \/ OnRunning \/ ResizeMagnumCluster \/ WaitForRunning \/ SaveWaited
       \/ ReconcileKubernetesResource \/ MakeKubeconfig \/ Publish \/ ReadMagnumCluster
       \/ CreateClient \/ DeleteMagnumCluster \/ SaveMagnumDeleting \/ WaitGone
       \/ ReleaseMagnum \/ ProcessCluster
SchedulerHandler == MNoticed /\ (HandleMagnumClusters \/ ScheduleMagnumCluster)

MagnumInit ==
    /\ mscenario \in MagnumScenarios
    /\ magnum = NewMagnum
    /\ mfeeds = [k \in Watches |-> <<magnum>>]
    /\ squeue = Null /\ sworker = MIdle
    /\ mqueue = [dirty |-> Null, timer |-> Null] /\ mworker = MIdle
    /\ openstack = [id \in Ids |-> Absent]
    /\ kubes = [n \in Names |-> Null]
    /\ mbudget = mscenario.budget
MagnumNext ==
    \/ MagnumHandler \/ OpenstackError \/ MReceive \/ MFire \/ MRestart
    \/ ReceivedMagnumCluster \/ SchedulerHandler
    \/ \E id \in Ids : Completes(id) \/ Breaks(id)
    \/ UserResizes \/ UserDeletes \/ CollectMagnum
\* Coroutines that can run do, timers end, and OpenStack gets done
MagnumFairness ==
    /\ WF_magnumVars(MagnumHandler) /\ WF_magnumVars(MReceive) /\ WF_magnumVars(MFire)
    /\ WF_magnumVars(ReceivedMagnumCluster) /\ WF_magnumVars(SchedulerHandler)
    /\ \A id \in Ids : WF_magnumVars(Completes(id))
    /\ WF_magnumVars(CollectMagnum)
MagnumSpec == MagnumInit /\ [][MagnumNext]_magnumVars /\ MagnumFairness

-----------------------------------------------------------------------------
(* Properties                                                              *)

\* The shape of the state.
CopyPcs ==
    {"client", "finalize", "pending", "create", "created", "running", "resize", "wait",
     "forget", "complete", "kube", "read", "delete client", "delete", "deleting", "leaving",
     "release", "fail"}
MagnumWorkers ==
    {MIdle} \cup [pc: CopyPcs, copy: MagnumVersions]
      \cup [pc: {"kubeconfig", "publish"}, copy: MagnumVersions, kube: BOOLEAN]
SchedulerWorkers ==
    {MIdle} \cup [pc: {"none"}, copy: MagnumVersions]
      \cup [pc: {"inherit", "bind"}, project: Projects, copy: MagnumVersions]
OpenstackClusters ==
    [status: OpenstackStates, project: Projects \cup {Null}, nodes: NodeCounts]
DatabaseTyped ==
    magnum \in MagnumVersions \cup {Null} /\ mfeeds \in [Watches -> Seq(MagnumVersions)]
MagnumTypeOK ==
    /\ DatabaseTyped
    /\ squeue \in MagnumVersions \cup {Null}
    /\ sworker \in SchedulerWorkers
    /\ mqueue \in [dirty: MagnumVersions \cup {Null}, timer: MagnumVersions \cup {Null}]
    /\ mworker \in MagnumWorkers
    /\ openstack \in [Ids -> OpenstackClusters]
    /\ kubes \in [Names -> Ids \cup {Null}]
    /\ mscenario \in MagnumScenarios
    /\ mbudget \in [Stories -> Nat]

MFails(ks) == \E k \in ks : mscenario.budget[k] > 0
Regular == mscenario.orderly /\ mscenario.prompt /\ ~MFails({"lost", "crash"})

Ours == <<DeletionFinalizer>>       \* the controller has to release the cluster
Exists == magnum # Null
Leaving == Exists /\ magnum.deleted
\* A version or a copy tells the project, the id and the name that the database has
Agrees(c) ==
    /\ c.status.project = magnum.status.project
    /\ c.status.cluster_id = magnum.status.cluster_id
    /\ c.status.cluster = magnum.status.cluster
\* Nothing was done for this version
Blank(c) ==
    /\ ~c.deleted /\ c.finalizers = <<>>
    /\ c.status.cluster_id = Null /\ c.status.cluster = Null
\* A version with nothing behind it if its creation is pending
Honest(c) == c.status.state = "PENDING" => c.status.cluster_id = Null
\* A version of a cluster in deletion, which tells what the database has
Parting(c) == c.deleted /\ (Exists => magnum.deleted /\ Agrees(c))
\* The same, when it is the controller's turn
Releasing(c) == Parting(c) /\ c.finalizers = Ours /\ (Exists => magnum.finalizers = Ours)

\* The scheduler is done before the controller begins, though it may handle a version
\* twice (received_magnum_cluster, schedule_magnum_cluster).
SchedulerFirst ==
    /\ squeue # Null => Blank(squeue) /\ squeue.status.project = Null
    /\ sworker # MIdle => Blank(sworker.copy) /\ sworker.copy.status.project = Null
    /\ squeue # Null \/ sworker # MIdle =>
         /\ Exists /\ Blank(magnum) /\ mworker = MIdle
         /\ mscenario.projects # {} => magnum.status.state = "PENDING"
    /\ sworker.pc = "none" <=> sworker # MIdle /\ mscenario.projects = {}
    /\ Exists /\ magnum.status.project = Null =>
         /\ magnum.finalizers = IF magnum.deleted THEN <<CascadeFinalizer>> ELSE <<>>
         /\ magnum.status.cluster_id = Null /\ magnum.status.cluster = Null
         /\ mworker = MIdle /\ mqueue.dirty = Null /\ mqueue.timer = Null
         /\ mscenario.projects # {} => magnum.status.state = "PENDING"
    /\ Exists /\ magnum.status.project # Null => mscenario.projects # {}

\* What is under way to the controllers is the present version, or one of a cluster in
\* deletion (delete_magnum_cluster, Put).
FeedsCurrent ==
    /\ Exists /\ ~magnum.deleted =>
         /\ \A k \in Watches : mfeeds[k] \in {<<>>, <<magnum>>}
         /\ magnum.finalizers \in {<<>>, Ours}
    /\ Leaving => magnum.finalizers \in {Ours, <<CascadeFinalizer>>,
                                         <<DeletionFinalizer, CascadeFinalizer>>}
    /\ Exists => Honest(magnum)
    /\ Leaving \/ ~Exists =>
         \A k \in Watches : \A i \in DOMAIN mfeeds[k] :
           LET c == mfeeds[k][i] IN
           /\ Parting(c) /\ Honest(c)
           /\ c.finalizers \in {Ours, <<CascadeFinalizer>>,
                                <<DeletionFinalizer, CascadeFinalizer>>}
           /\ Exists /\ magnum.finalizers # Ours => c.finalizers # Ours

\* The version to be handled tells what the database has, or is replaced by one that is
\* under way (enqueue).
QueueCurrent ==
    /\ mqueue.dirty # Null =>
         LET c == mqueue.dirty IN
         /\ Honest(c)
         /\ Leaving \/ ~Exists => Releasing(c)
         /\ Exists /\ ~magnum.deleted =>
              /\ ~c.deleted /\ c.status.project # Null
              /\ c.finalizers \in {<<>>, Ours}
              /\ c.finalizers = Ours => magnum.finalizers = Ours
              /\ Agrees(c) \/ (mfeeds["magnum"] # <<>> /\ magnum.status.state # "FAILED")
    /\ mqueue.timer # Null => Honest(mqueue.timer) /\ Releasing(mqueue.timer)

\* The copy of the handler tells what the database has, but for the id of what it has
\* created or has given up, and the name it is about to save.
Creating == {"pending", "create", "created"}
Reconciling ==
    Creating \cup {"client", "finalize", "running", "resize", "wait", "forget", "complete",
                   "kube", "kubeconfig", "publish"}
Deleting == {"delete client", "delete", "deleting", "leaving", "release"}
CopyFits(pc, c) ==
    /\ Honest(c)
    /\ pc \in Reconciling =>
         /\ Exists /\ ~magnum.deleted /\ ~c.deleted
         /\ c.status.project = magnum.status.project
         /\ pc \notin {"client", "finalize"} => magnum.finalizers = Ours
         /\ c.finalizers \in {<<>>, Ours}
         /\ pc = "finalize" => c.finalizers = Ours
         /\ pc = "client" /\ c.finalizers = Ours => magnum.finalizers = Ours
    /\ pc \in Creating => magnum.status.cluster_id = Null
    /\ pc \in {"pending", "create", "forget"} => c.status.cluster_id = Null
    /\ pc \notin {"pending", "created", "forget", "read"} => Agrees(c)
    /\ pc \in {"created", "forget"} => c.status.cluster = magnum.status.cluster
    /\ pc \in Creating => c.status.state = "CREATING"
    /\ pc = "forget" => c.status.state = "PENDING"
    /\ pc = "pending" => magnum.status.cluster \in {c.status.cluster, Null}
    /\ pc \in Deleting \cup {"read"} \/ (pc = "fail" /\ Leaving) =>
         /\ Parting(c) /\ (Exists => magnum.finalizers = Ours)
         /\ pc \notin {"release", "fail"} => c.finalizers = Ours
         /\ pc = "release" => c.finalizers = <<>>
    /\ pc # "read" => Exists
CopyCurrent == mworker # MIdle => CopyFits(mworker.pc, mworker.copy)

\* What runs in OpenStack is what the database or the handler knows, in the project that
\* the cluster is bound to, and under the controller's finalizer.
RunsKnown ==
    /\ \A id \in Ids : Runs(id) =>
         /\ Exists
         /\ magnum.finalizers \in {Ours, <<DeletionFinalizer, CascadeFinalizer>>}
         /\ openstack[id].project = magnum.status.project
         /\ id = IF mworker.pc = "created" THEN mworker.copy.status.cluster_id
                 ELSE magnum.status.cluster_id
         /\ mworker.pc \notin {"forget", "release"}

\* Kubernetes clusters have the name in the database, and are gone when it is the
\* controller's turn to delete (on_pending, and the cascade of the garbage collector).
KubesNamed ==
    \A n \in Names : kubes[n] # Null =>
      /\ Exists /\ n = magnum.status.cluster
      /\ magnum.deleted => magnum.finalizers # Ours

\* What the controller, the scheduler and the garbage collector rely on while they write
\* to the same Magnum cluster.
MagnumKept ==
    Regular =>
      /\ mbudget["lost"] = 0 /\ mbudget["crash"] = 0
      /\ SchedulerFirst /\ FeedsCurrent /\ QueueCurrent /\ CopyCurrent
      /\ RunsKnown /\ KubesNamed

\* What runs in OpenStack is known to the database or the handler, and paid for by the
\* project that the cluster is bound to, if replies get through, the controller runs on,
\* versions arrive in time and users wait (on_pending, delete_magnum_cluster).
MagnumNoneLost ==
    Regular =>
        \A id \in Ids : Runs(id) =>
            /\ Exists /\ openstack[id].project = magnum.status.project
            /\ \/ magnum.status.cluster_id = id
               \/ mworker # MIdle /\ mworker.copy.status.cluster_id = id

\* The Kubernetes clusters that are made of a Magnum cluster are one at most, and none
\* is left when it is gone (on_pending, reconcile_kubernetes_resource).
OneKubernetesCluster ==
    Regular => LET made == {n \in Names : kubes[n] # Null}
               IN  \/ made = {}
                   \/ Exists /\ made = {magnum.status.cluster}

\* Every cluster in OpenStack is known by the id of a Magnum cluster (on_pending,
\* delete_magnum_cluster), and at most one Kubernetes cluster is made of it
\* (reconcile_kubernetes_resource); with what the three that write to it rely on.
MagnumInv == MagnumTypeOK /\ MagnumKept /\ MagnumNoneLost /\ OneKubernetesCluster

\* A cluster that is past PENDING, and has no id: its creation was refused, its reply was
\* lost, or the controller ended before it saved the id.
Nameless ==
    Exists /\ magnum.status.cluster_id = Null /\ magnum.status.state # "PENDING"

\* A Magnum cluster in deletion is removed in the end, whatever OpenStack refuses
\* meanwhile and whenever the controller is restarted, unless it is left without an id
\* (enqueue, delete_magnum_cluster).
MagnumDeletionEnds == []<>Leaving => <>[](Leaving /\ Nameless)

\* The same without the exception: does not hold, as no request can be made for a cluster
\* without an id (delete_magnum_cluster).
MagnumReleased == Leaving ~> ~Exists

\* A Magnum cluster comes to run with the nodes that users want, and a Kubernetes
\* cluster to lead to it, whenever the controller is restarted, but between the request to
\* create the cluster and the saved id, if OpenStack works and a project is found that has
\* something to pass on (on_pending, on_running, wait_for_running).
MagnumServes ==
    /\ mscenario.labels /\ mscenario.coe = "kubernetes"
    /\ mscenario.orderly /\ mscenario.prompt /\ Cardinality(mscenario.projects) = 1
    /\ ~MFails({"break", "refuse", "lost", "vanish"})
    => <>[](\/ ~Exists \/ Leaving
            \/ MFails({"crash"}) /\ Nameless /\ magnum.status.state = "CREATING"
            \/ LET c == magnum.status IN
               /\ c.state = "RUNNING" /\ c.node_count = magnum.node_count
               /\ c.cluster # Null /\ kubes[c.cluster] = c.cluster_id /\ Runs(c.cluster_id))

\* A Magnum cluster stays in its project (received_magnum_cluster: "For now, we do not
\* reschedule Magnum clusters").
NotRescheduled ==
    [][magnum # Null /\ magnum.status.project # Null /\ magnum' # Null
         => magnum'.status.project = magnum.status.project]_magnumVars
=============================================================================
