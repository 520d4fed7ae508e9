----------------------------- MODULE Scheduler -----------------------------
(***************************************************************************)
(* The scheduler at work (krake/controller/scheduler/scheduler.py): the    *)
(* handler of applications, which binds an application to a cluster, has a *)
(* cluster created for it, retries and reschedules, and the handler of     *)
(* clusters, which binds a cluster to a cloud.  Selection says what is     *)
(* chosen; there is one application.  The work queues behave as KeyedQueue *)
(* with a timer per key, as WorkQueue shows.                               *)
(*                                                                         *)
(* An action is the code up to the next request to the API.  Of the times, *)
(* only their order matters.  An update of the application counts up       *)
(* modified, and triggered is the update that was current when the         *)
(* scheduler decided; bindings, retries and failed migrations are          *)
(* numbered, and clock says of which the waiting time is over.             *)
(***************************************************************************)
EXTENDS Selection, Integers, FiniteSets

CONSTANTS
    Described,    \* [cluster -> Place]: labels, metrics and constraints of clusters
    Demands,      \* [cluster -> constraints on clouds], unless created automatically
    Spare,        \* clusters that do not exist: names for automatic creation
    Namespaced,   \* [cloud -> Place]: the clouds of the namespace
    Global,       \* [cloud -> Place]: the global clouds
    Readings,     \* what all the metrics may read
    Null,
    MaxLag,       \* bound: versions of the application the watch is behind
    MaxRetry,     \* bound: retries that become due
    Scenarios     \* see AllScenarios

Clusters == DOMAIN Described
Clouds == Over(Namespaced, Global)
Nowhere == "none"

\* The status of a cluster; auto: created for an application; kubeconfig: it was
\* registered, or its creation is complete
ClusterStates == {"PENDING", "ONLINE", "OFFLINE", "FAILING_METRICS", "FAILED"}
Entries == [state: ClusterStates, cloud: DOMAIN Clouds \cup {Nowhere}, auto: BOOLEAN,
            deleted: BOOLEAN, kubeconfig: BOOLEAN]
\* backoff_limit of an application that is retried for ever, the default
Unlimited == -1
\* waits: auto_cluster_create_started; retry, fence: the numbers of scheduled_retry and
\* migration_timeout
AppStates == {"PENDING", "RUNNING", "WAITING_FOR_CLUSTER_CREATION", "DEGRADED", "FAILED"}
Apps == [deleted: BOOLEAN, modified: Nat, triggered: Nat, state: AppStates,
         scheduled_to: Clusters \cup {Nowhere}, binding: Nat, waits: Clusters \cup {Nowhere},
         retries: Nat \cup {Unlimited, Null}, retry: Nat, fence: Nat]
\* What happens around the scheduler, each kind a number of times
Kinds == {"update", "delete", "edit", "health", "metrics", "crash", "fence"}
\* wish: the constraints; auto, migration, limit: auto_cluster_create, migration and
\* backoff_limit; neighbour: another application, elsewhere, is listed first; orderly:
\* users and restarts wait until the scheduler is at rest
AllScenarios(wishes) ==
    [clusters: [Clusters -> Entries \cup {Null}], wish: wishes, auto: BOOLEAN,
     migration: BOOLEAN, limit: Nat \cup {Unlimited}, neighbour: BOOLEAN, orderly: BOOLEAN,
     budget: [Kinds -> Nat]]

ASSUME SchedulerAssumption ==
    /\ IsFiniteSet(Clusters) /\ Spare \subseteq Clusters /\ Nowhere \notin Clusters
    /\ Null \notin Int
    /\ \A c \in Clusters : {"state", "deleted", "cloud", "refs", "labels"} \subseteq DOMAIN Described[c]
    /\ \A s \in Scenarios : /\ s \in AllScenarios({s.wish})
                           /\ \A c \in Spare : s.clusters[c] = Null

VARIABLES
    app,       \* the application in the database, or Null
    entries,   \* [Clusters -> the cluster in the database, or Null]
    readings,  \* what the metrics read now
    clock,     \* the numbers of bindings, retries and fences whose time is over
    appQueue,  \* [dirty, timer]: versions of the application, or Null
    events,    \* versions on their way to the reflector of applications
    worker,    \* the handler of the application
    queues,    \* [Clusters -> [dirty, timer]]
    changes,   \* [cluster, entry] on their way to the reflector of clusters
    workers,   \* [Clusters -> the handler of a cluster]
    scenario,
    budget     \* what may still happen

appVars == <<app, appQueue, events, worker>>
clusterVars == <<entries, queues, changes, workers>>
vars == <<appVars, clusterVars, readings, clock, scenario, budget>>

NoVersion == [dirty |-> Null, timer |-> Null]
Idle == [pc |-> "idle"]

Entry(state, cloud, auto, kubeconfig) ==
    [state |-> state, cloud |-> cloud, auto |-> auto, deleted |-> FALSE,
     kubeconfig |-> kubeconfig]
Submitted ==
    [deleted |-> FALSE, modified |-> 1, triggered |-> 0, state |-> "PENDING",
     scheduled_to |-> Nowhere, binding |-> 0, waits |-> Nowhere, retries |-> Null,
     retry |-> 0, fence |-> 0]
Change(c, e) == [cluster |-> c, entry |-> e]

\* received_kubernetes_cluster; versions that it ignores are left out of changes
Accepted(e) == ~e.deleted /\ ~e.kubeconfig /\ e.state # "FAILED" /\ e.cloud = Nowhere

\* A new scheduler lists everything
Listing(es) == SetToSeq({Change(c, es[c]) : c \in {d \in Clusters : es[d] # Null /\ Accepted(es[d])}})

Init ==
    /\ scenario \in Scenarios
    /\ app = Submitted
    /\ entries = scenario.clusters
    /\ readings \in Readings
    /\ clock = [binding |-> 0, retry |-> 0, fence |-> 0]
    /\ appQueue = NoVersion
    /\ events = <<app>>
    /\ worker = Idle
    /\ queues = [c \in Clusters |-> NoVersion]
    /\ changes = Listing(entries)
    /\ workers = [c \in Clusters |-> Idle]
    /\ budget = scenario.budget

\* No timer is compared here: an application or cluster may wait in one
AtRest ==
    /\ appQueue.dirty = Null /\ events = <<>> /\ worker = Idle
    /\ changes = <<>> /\ \A c \in Clusters : queues[c].dirty = Null /\ workers[c] = Idle
Now == IF app = Null THEN 0 ELSE app.modified

-----------------------------------------------------------------------------
(* The API: the effect of requests, and the events they cause              *)

WriteApp(a) ==
    /\ Len(events) < MaxLag
    /\ app' = a
    /\ events' = Append(events, a)
WriteEntry(c, e) ==
    /\ entries' = [entries EXCEPT ![c] = e]
    /\ changes' = IF Accepted(e) THEN Append(changes, Change(c, e)) ELSE changes

\* update_application_status: the status of a as a whole
StatusOfApp(a) == [a EXCEPT !.deleted = app.deleted, !.modified = app.modified]
\* update_cluster_status: the status of e as a whole
StatusOfCluster(c, e) == [entries[c] EXCEPT !.state = e.state, !.cloud = e.cloud]

-----------------------------------------------------------------------------
(* The handler of applications                                             *)

\* reschedule_kubernetes_application, on the queue q
Reschedule(a, q) ==
    IF scenario.migration /\ q.dirty = Null THEN [q EXCEPT !.timer = a] ELSE q

\* received_kubernetes_app
Received(a, q) ==
    CASE a.deleted                                         -> [q EXCEPT !.timer = Null]
      [] ~a.deleted /\ a.triggered # 0 /\ a.modified <= a.triggered -> Reschedule(a, q)
      [] ~a.deleted /\ a.modified > a.triggered /\ a.state = "FAILED" -> q
      [] OTHER                                             -> [q EXCEPT !.dirty = a]

ReceiveApp ==
    /\ events # <<>>
    /\ events' = Tail(events)
    /\ appQueue' = Received(Head(events), appQueue)
    /\ UNCHANGED <<app, worker, clusterVars, readings, clock, scenario, budget>>

\* The timer ends; the watch and the handlers are faster than the delays of the scheduler
FireApp ==
    /\ appQueue.timer # Null
    /\ events = <<>> /\ worker = Idle /\ appQueue.dirty = Null
    /\ appQueue' = [dirty |-> appQueue.timer, timer |-> Null]
    /\ UNCHANGED <<app, events, worker, clusterVars, readings, clock, scenario, budget>>

\* Times that are over
Due(a) == a.retry # 0 /\ a.retry <= clock.retry
Fenced(a) == a.fence > clock.fence
\* Faulty variant of Recent: no binding is recent
RecentNever(a) == FALSE
Recent(a) == a.binding > clock.binding

At(pc, a) == [pc |-> pc, app |-> a]
To(pc, a, c) == [pc |-> pc, app |-> a, target |-> c]
\* The end of handle_kubernetes_applications: a successful one resets the retries
Handled(a) ==
    /\ worker' = Idle
    /\ appQueue' = Reschedule([a EXCEPT !.retries = scenario.limit], appQueue)
\* An exception that is not handled ends the worker; it is started again
Dropped == worker' = Idle /\ UNCHANGED appQueue

\* kubernetes_application_received up to the first request
TakeApp ==
    /\ worker = Idle
    /\ appQueue.dirty # Null
    /\ LET a == [appQueue.dirty EXCEPT !.retries = IF @ = Null THEN scenario.limit ELSE @]
           rest == [appQueue EXCEPT !.dirty = Null]
           ignored == a.state = "DEGRADED" /\ ~Due(a)
           pinned == a.scheduled_to # Nowhere /\ ~scenario.migration
       IN  \/ /\ ignored \/ pinned
              /\ appQueue' = rest
              /\ UNCHANGED worker
           \/ /\ ~ignored /\ ~pinned /\ Fenced(a)
              /\ appQueue' = Reschedule([a EXCEPT !.retries = scenario.limit], rest)
              /\ UNCHANGED worker
           \/ /\ ~ignored /\ ~pinned /\ ~Fenced(a)
              /\ appQueue' = rest
              /\ worker' = At("list", a)
    /\ UNCHANGED <<app, events, clusterVars, readings, clock, scenario, budget>>

\* Faulty variant of Target: the application controller is not told
TargetSilent(a, c) ==
    \/ a.scheduled_to # c /\ worker' = To("bind", a, c) /\ UNCHANGED appQueue
    \/ a.scheduled_to = c /\ Handled(a)

\* The decision for cluster c: bind, tell the application controller to go on with an
\* update, or leave it
Target(a, c) ==
    \/ /\ a.scheduled_to # c
       /\ worker' = To("bind", a, c) /\ UNCHANGED appQueue
    \/ /\ a.scheduled_to = c /\ a.modified > a.triggered
       /\ worker' = At("confirm", [a EXCEPT !.triggered = Now]) /\ UNCHANGED appQueue
    \/ /\ a.scheduled_to = c /\ a.modified <= a.triggered
       /\ Handled(a)

\* The clusters as they are listed
PlaceOf(es) ==
    [c \in {d \in Clusters : es[d] # Null} |->
       [Described[c] EXCEPT !.state = es[c].state, !.deleted = es[c].deleted,
                            !.cloud = es[c].cloud]]
\* The application as Selection sees it
WishOf(a) ==
    [labels |-> scenario.wish.labels, custom |-> scenario.wish.custom,
     metrics |-> scenario.wish.metrics, auto |-> scenario.auto,
     scheduled_to |-> a.scheduled_to, recent |-> Recent(a)]
\* The clusters of places whose status fetch_metrics writes after reading r
Reported(places, r) ==
    {c \in DOMAIN places :
       LET refs == Inherited(places[c], Clouds).refs
       IN  ~Crashes(refs, r) /\ \/ Fails(refs, r)
                                \/ refs # <<>> /\ places[c].state = "FAILING_METRICS"}

\* Faulty variant of ListClusters: an application that waits is scheduled like others
ListClustersAnew ==
    /\ worker.pc = "list"
    /\ worker' = [pc |-> "fetched", app |-> worker.app, places |-> PlaceOf(entries),
                  first |-> readings, left |-> {}]
    /\ UNCHANGED appQueue
    /\ UNCHANGED <<app, events, clusterVars, readings, clock, scenario, budget>>

\* Faulty variant of ListClusters: an application whose cluster is not online is left
ListClustersOnce ==
    /\ worker.pc = "list"
    /\ LET a == worker.app
           waiting == a.waits # Nowhere
           online == waiting /\ entries[a.waits] # Null /\ entries[a.waits].state = "ONLINE"
       IN  \/ online /\ Target([a EXCEPT !.waits = Nowhere], a.waits)
           \/ waiting /\ ~online /\ Dropped
           \/ /\ ~waiting
              /\ worker' = [pc |-> "fetched", app |-> a, places |-> PlaceOf(entries),
                            first |-> readings, left |-> Reported(PlaceOf(entries), readings)]
              /\ UNCHANGED appQueue
    /\ UNCHANGED <<app, events, clusterVars, readings, clock, scenario, budget>>

\* schedule_kubernetes_application: clusters and clouds are listed.  An application
\* that waits for its cluster is bound to it once it is online, or waits again
ListClusters ==
    /\ worker.pc = "list"
    /\ LET a == worker.app
           waiting == a.waits # Nowhere
           online == /\ waiting /\ entries[a.waits] # Null
                     /\ ~entries[a.waits].deleted /\ entries[a.waits].state = "ONLINE"
           places == PlaceOf(entries)
       IN  \/ online /\ Target([a EXCEPT !.waits = Nowhere], a.waits)
           \/ /\ waiting /\ ~online
              /\ worker' = Idle
              /\ appQueue' = [appQueue EXCEPT !.timer = a]
           \/ /\ ~waiting
              /\ worker' = [pc |-> "fetched", app |-> a, places |-> places,
                            first |-> readings, left |-> Reported(places, readings)]
              /\ UNCHANGED appQueue
    /\ UNCHANGED <<app, events, clusterVars, readings, clock, scenario, budget>>

\* fetch_metrics writes the status of a cluster, as it was listed, with a new state
Report(c) ==
    /\ worker.pc \in {"fetched", "ranked"}
    /\ c \in worker.left
    /\ \/ /\ entries[c] = Null
          /\ Dropped /\ UNCHANGED <<entries, changes>>
       \/ /\ entries[c] # Null
          /\ LET r == IF worker.pc = "fetched" THEN worker.first ELSE worker.second
                 state == AfterFetch(Inherited(worker.places[c], Clouds), r)
             IN  /\ WriteEntry(c, [StatusOfCluster(c, worker.places[c]) EXCEPT !.state = state])
                 /\ worker' = [worker EXCEPT !.left = @ \ {c}, !.places[c].state = state]
          /\ UNCHANGED appQueue
    /\ UNCHANGED <<app, events, queues, workers, readings, clock, scenario, budget>>

\* The metrics of the clusters that match are fetched again
Rank ==
    /\ worker.pc = "fetched"
    /\ worker.left = {}
    /\ LET w == worker
           again == FetchedAgain(WishOf(w.app), w.places, Clouds, w.first)
       IN  worker' = [pc |-> "ranked", app |-> w.app, places |-> w.places, first |-> w.first,
                      second |-> readings, left |-> again \cap Reported(w.places, readings)]
    /\ UNCHANGED <<app, appQueue, events, clusterVars, readings, clock, scenario, budget>>

\* Faulty variant of Failed: the retries are not compared with 0
FailedAlways(a) ==
    [a EXCEPT !.state = "DEGRADED", !.retries = @ - 1, !.retry = clock.retry + 1]

\* handle_kubernetes_applications: a ControllerError, and _update_retry_fields
Failed(a) ==
    IF a.retries > 0 \/ scenario.limit = Unlimited
      THEN [a EXCEPT !.state = "DEGRADED", !.retry = clock.retry + 1,
                     !.retries = IF scenario.limit > 0 THEN @ - 1 ELSE @]
      ELSE [a EXCEPT !.state = "FAILED"]

\* select_scheduling_location, and what follows from it
Decide ==
    /\ worker.pc = "ranked"
    /\ worker.left = {}
    /\ LET a == worker.app
           o == SelectLocation(WishOf(a), worker.places, Clouds, worker.first, worker.second)
       IN  \/ o.kind = "crash" /\ Dropped
           \/ o.kind = "none" /\ worker' = At("error", Failed(a)) /\ UNCHANGED appQueue
           \/ /\ o.kind = "place"
              /\ \E n \in o.names : \/ n \in Clusters /\ Target(a, n)
                                    \/ /\ n \notin Clusters
                                       /\ worker' = At("create", a) /\ UNCHANGED appQueue
    /\ UNCHANGED <<app, events, clusterVars, readings, clock, scenario, budget>>

\* The requests that end the handling; without an application they fail
Bind ==
    /\ worker.pc = "bind"
    /\ \/ app = Null /\ Dropped /\ UNCHANGED <<app, events>>
       \/ /\ app # Null
          /\ WriteApp([app EXCEPT !.scheduled_to = worker.target, !.binding = @ + 1,
                                  !.triggered = app.modified])
          /\ Handled(worker.app)
    /\ UNCHANGED <<clusterVars, readings, clock, scenario, budget>>

Confirm ==
    /\ worker.pc = "confirm"
    /\ \/ app = Null /\ Dropped /\ UNCHANGED <<app, events>>
       \/ app # Null /\ WriteApp(StatusOfApp(worker.app)) /\ Handled(worker.app)
    /\ UNCHANGED <<clusterVars, readings, clock, scenario, budget>>

ReportError ==
    /\ worker.pc = "error"
    /\ \/ app = Null /\ UNCHANGED <<app, events>>
       \/ app # Null /\ WriteApp(StatusOfApp(worker.app))
    /\ Dropped
    /\ UNCHANGED <<clusterVars, readings, clock, scenario, budget>>

\* create_cluster: the status of the new cluster, with the chosen cloud, is dropped
CreateCluster ==
    /\ worker.pc = "create"
    /\ \E c \in Spare :
         /\ entries[c] = Null
         /\ WriteEntry(c, Entry("PENDING", Nowhere, TRUE, FALSE))
         /\ worker' = At("wait", [worker.app EXCEPT !.waits = c,
                                                    !.state = "WAITING_FOR_CLUSTER_CREATION"])
    /\ UNCHANGED <<app, appQueue, events, queues, workers, readings, clock, scenario, budget>>

\* The status is written and the application waits for its cluster
Wait ==
    /\ worker.pc = "wait"
    /\ \/ app = Null /\ Dropped /\ UNCHANGED <<app, events>>
       \/ /\ app # Null
          /\ WriteApp(StatusOfApp(worker.app))
          /\ worker' = Idle /\ appQueue' = [appQueue EXCEPT !.timer = worker.app]
    /\ UNCHANGED <<clusterVars, readings, clock, scenario, budget>>

-----------------------------------------------------------------------------
(* The handler of clusters                                                 *)

ReceiveCluster ==
    /\ changes # <<>>
    /\ changes' = Tail(changes)
    /\ LET v == Head(changes)
       IN  queues' = [queues EXCEPT ![v.cluster].dirty = v.entry]
    /\ UNCHANGED <<appVars, entries, workers, readings, clock, scenario, budget>>

FireCluster(c) ==
    /\ queues[c].timer # Null
    /\ changes = <<>> /\ workers[c] = Idle
    /\ queues' = [queues EXCEPT ![c] = [dirty |-> queues[c].timer, timer |-> Null]]
    /\ UNCHANGED <<appVars, entries, changes, workers, readings, clock, scenario, budget>>

\* schedule_kubernetes_cluster up to the first request
TakeCluster(c) ==
    /\ workers[c] = Idle
    /\ queues[c].dirty # Null
    /\ workers' = [workers EXCEPT ![c] = [pc |-> "list", entry |-> queues[c].dirty]]
    /\ queues' = [queues EXCEPT ![c].dirty = Null]
    /\ UNCHANGED <<appVars, entries, changes, readings, clock, scenario, budget>>

\* Only the first application of the list is looked at
HasApps(c, e) ==
    CASE scenario.neighbour -> e.state # "ONLINE"
      [] ~scenario.neighbour /\ app # Null -> app.scheduled_to = c \/ e.state # "ONLINE"
      [] OTHER -> FALSE

\* The applications are listed; an unused cluster is to be deleted
ListApps(c) ==
    /\ workers[c].pc = "list"
    /\ LET e == workers[c].entry
           unused == e.auto /\ ~HasApps(c, e) /\ ~e.deleted
       IN  workers' = [workers EXCEPT ![c] = [pc |-> IF unused THEN "delete" ELSE "choose",
                                              entry |-> e, first |-> readings]]
    /\ UNCHANGED <<appVars, entries, queues, changes, readings, clock, scenario, budget>>

Stop(c) == workers' = [workers EXCEPT ![c] = Idle]

DeleteUnused(c) ==
    /\ workers[c].pc = "delete"
    /\ \/ entries[c] = Null /\ Stop(c) /\ UNCHANGED <<entries, changes>>
       \/ /\ entries[c] # Null
          /\ WriteEntry(c, [entries[c] EXCEPT !.deleted = TRUE])
          /\ workers' = [workers EXCEPT ![c].pc = "choose"]
    /\ UNCHANGED <<appVars, queues, readings, clock, scenario, budget>>

\* select_cloud among the clouds of the namespace, then among the global ones
ChooseCloud(c) ==
    /\ workers[c].pc = "choose"
    /\ LET w == workers[c]
           demand == IF w.entry.auto THEN scenario.wish ELSE Demands[c]
           wish == [labels |-> demand.labels, custom |-> <<>>, metrics |-> demand.metrics,
                    scheduled_to |-> Nowhere]
           near == SelectCloud(wish, Namespaced, w.first, readings)
           o == IF near = None THEN SelectCloud(wish, Global, w.first, readings) ELSE near
           Then(pc, cloud) ==
               workers' = [workers EXCEPT ![c] = [pc |-> pc, entry |-> w.entry, cloud |-> cloud]]
       IN  \/ o.kind = "crash" /\ Stop(c)
           \/ o.kind = "none" /\ Then("fail", Nowhere)
           \/ o.kind = "place" /\ \E n \in o.names : Then("bind", n)
    /\ UNCHANGED <<appVars, entries, queues, changes, readings, clock, scenario, budget>>

\* Faulty variant of BindCluster: every cluster is looked at again
BindClusterAgain(c) ==
    /\ workers[c].pc = "bind"
    /\ Stop(c)
    /\ \/ entries[c] = Null /\ UNCHANGED <<entries, changes, queues>>
       \/ /\ entries[c] # Null
          /\ WriteEntry(c, [entries[c] EXCEPT !.cloud = workers[c].cloud])
          /\ queues' = [queues EXCEPT ![c].timer = workers[c].entry]
    /\ UNCHANGED <<appVars, readings, clock, scenario, budget>>

\* update_cluster_binding; a cluster created automatically is looked at again later,
\* as the version that was handled now
BindCluster(c) ==
    /\ workers[c].pc = "bind"
    /\ Stop(c)
    /\ \/ entries[c] = Null /\ UNCHANGED <<entries, changes, queues>>
       \/ /\ entries[c] # Null
          /\ WriteEntry(c, [entries[c] EXCEPT !.cloud = workers[c].cloud])
          /\ queues' = IF workers[c].entry.auto
                         THEN [queues EXCEPT ![c].timer = workers[c].entry] ELSE queues
    /\ UNCHANGED <<appVars, readings, clock, scenario, budget>>

\* NoCloudFound
FailCluster(c) ==
    /\ workers[c].pc = "fail"
    /\ Stop(c)
    /\ \/ entries[c] = Null /\ UNCHANGED <<entries, changes>>
       \/ /\ entries[c] # Null
          /\ WriteEntry(c, [StatusOfCluster(c, workers[c].entry) EXCEPT !.state = "FAILED"])
    /\ UNCHANGED <<appVars, queues, readings, clock, scenario, budget>>

-----------------------------------------------------------------------------
(* Users, metrics, time and the other controllers                          *)

Spend(k) == budget[k] > 0 /\ budget' = [budget EXCEPT ![k] = @ - 1]
Ready == scenario.orderly => AtRest

UserUpdate ==
    /\ Spend("update") /\ Ready
    /\ app # Null /\ ~app.deleted
    /\ WriteApp([app EXCEPT !.modified = @ + 1])
    /\ UNCHANGED <<appQueue, worker, clusterVars, readings, clock, scenario>>

UserDelete ==
    /\ Spend("delete") /\ Ready
    /\ app # Null /\ ~app.deleted
    /\ WriteApp([app EXCEPT !.deleted = TRUE])
    /\ UNCHANGED <<appQueue, worker, clusterVars, readings, clock, scenario>>

\* A user edits the labels of a cluster
UserEdit(c) ==
    /\ Spend("edit") /\ Ready
    /\ entries[c] # Null /\ ~entries[c].deleted
    /\ WriteEntry(c, entries[c])
    /\ UNCHANGED <<appVars, queues, workers, readings, clock, scenario>>

\* The application controller: an application that was bound runs, one that is in
\* deletion is removed, a migration fails
AppRuns ==
    /\ app # Null /\ ~app.deleted
    /\ app.scheduled_to # Nowhere /\ app.modified <= app.triggered
    /\ app.state # "RUNNING"
    /\ WriteApp([app EXCEPT !.state = "RUNNING"])
    /\ UNCHANGED <<appQueue, worker, clusterVars, readings, clock, scenario, budget>>

AppGone ==
    /\ app # Null /\ app.deleted
    /\ app' = Null
    /\ UNCHANGED <<appQueue, events, worker, clusterVars, readings, clock, scenario, budget>>

MigrationFails ==
    /\ Spend("fence") /\ Ready
    /\ app # Null /\ app.scheduled_to # Nowhere
    /\ WriteApp([app EXCEPT !.fence = clock.fence + 1])
    /\ UNCHANGED <<appQueue, worker, clusterVars, readings, clock, scenario>>

\* The infrastructure controller creates a cluster that is bound, and the cluster
\* controller finds it online
Provision(c) ==
    /\ entries[c] # Null /\ entries[c].cloud # Nowhere
    /\ ~entries[c].deleted /\ ~entries[c].kubeconfig
    /\ WriteEntry(c, [entries[c] EXCEPT !.kubeconfig = TRUE, !.state = "ONLINE"])
    /\ UNCHANGED <<appVars, queues, workers, readings, clock, scenario, budget>>

ClusterGone(c) ==
    /\ entries[c] # Null /\ entries[c].deleted
    /\ entries' = [entries EXCEPT ![c] = Null]
    /\ UNCHANGED <<appVars, queues, changes, workers, readings, clock, scenario, budget>>

Health(c) ==
    /\ Spend("health")
    /\ entries[c] # Null /\ entries[c].kubeconfig
    /\ WriteEntry(c, [entries[c] EXCEPT !.state = IF @ = "OFFLINE" THEN "ONLINE" ELSE "OFFLINE"])
    /\ UNCHANGED <<appVars, queues, workers, readings, clock, scenario>>

NewReadings ==
    /\ Spend("metrics")
    /\ \E r \in Readings \ {readings} : readings' = r
    /\ UNCHANGED <<appVars, clusterVars, clock, scenario>>

\* A waiting time ends
Elapse ==
    /\ app # Null
    /\ \/ app.binding > clock.binding /\ clock' = [clock EXCEPT !.binding = @ + 1]
       \/ /\ app.retry > clock.retry /\ clock.retry < MaxRetry
          /\ clock' = [clock EXCEPT !.retry = @ + 1]
       \/ app.fence > clock.fence /\ clock' = [clock EXCEPT !.fence = @ + 1]
    /\ UNCHANGED <<appVars, clusterVars, readings, scenario, budget>>

\* The scheduler stops at any point; a new one lists all resources
Restart ==
    /\ Spend("crash")
    /\ appQueue' = NoVersion
    /\ events' = IF app = Null THEN <<>> ELSE <<app>>
    /\ worker' = Idle
    /\ queues' = [c \in Clusters |-> NoVersion]
    /\ changes' = Listing(entries)
    /\ workers' = [c \in Clusters |-> Idle]
    /\ UNCHANGED <<app, entries, readings, clock, scenario>>

AppHandler ==
    \/ TakeApp \/ ListClusters
    \/ \E c \in Clusters : Report(c)
    \/ Rank \/ Decide \/ Bind \/ Confirm \/ ReportError \/ CreateCluster \/ Wait
ClusterHandler(c) ==
    \/ FireCluster(c) \/ TakeCluster(c) \/ ListApps(c) \/ DeleteUnused(c) \/ ChooseCloud(c)
    \/ BindCluster(c) \/ FailCluster(c)
Next ==
    \/ AppHandler \/ ReceiveApp \/ FireApp \/ ReceiveCluster
    \/ \E c \in Clusters : \/ ClusterHandler(c)
                           \/ Provision(c) \/ ClusterGone(c) \/ Health(c) \/ UserEdit(c)
    \/ UserUpdate \/ UserDelete \/ AppRuns \/ AppGone \/ MigrationFails \/ NewReadings
    \/ Elapse \/ Restart

Spec == Init /\ [][Next]_vars

\* Coroutines that can run do, so that handlers come to their end; timers end, time
\* passes, and the other controllers get done with what they are given.
Fairness ==
    /\ WF_vars(TakeApp) /\ WF_vars(ReceiveApp) /\ WF_vars(FireApp) /\ WF_vars(ReceiveCluster)
    /\ []<>(worker = Idle)
    /\ \A c \in Clusters : /\ WF_vars(TakeCluster(c)) /\ WF_vars(FireCluster(c))
                           /\ []<>(workers[c] = Idle)
                           /\ WF_vars(Provision(c)) /\ WF_vars(ClusterGone(c))
    /\ WF_vars(AppRuns) /\ WF_vars(AppGone) /\ WF_vars(Elapse)
FairSpec == Spec /\ Fairness

-----------------------------------------------------------------------------
(* Properties                                                              *)

\* The shape of the state.
TypeOK ==
    /\ app \in Apps \cup {Null}
    /\ app # Null /\ app.retries = Unlimited => scenario.limit = Unlimited
    /\ entries \in [Clusters -> Entries \cup {Null}]
    /\ readings \in Readings
    /\ clock \in [binding: Nat, retry: Nat, fence: Nat]
    /\ appQueue \in [dirty: Apps \cup {Null}, timer: Apps \cup {Null}]
    /\ queues \in [Clusters -> [dirty: Entries \cup {Null}, timer: Entries \cup {Null}]]
    /\ scenario \in Scenarios /\ budget \in [Kinds -> Nat]

Online(c) == entries[c] # Null /\ ~entries[c].deleted /\ entries[c].state = "ONLINE"

\* An application that was bound recently stays where it is as long as its cluster is
\* online, whatever the metrics of the others become
\* (fetch_kubernetes_cluster_scores), if nobody changes it while it is handled.
StaysWhileRecent ==
    [][LET old == app.scheduled_to IN
       /\ scenario.orderly /\ scenario.budget["health"] = 0 /\ scenario.wish.metrics = <<>>
       /\ app # Null /\ app' # Null /\ old # Nowhere /\ app'.scheduled_to # old
       => app.binding <= clock.binding \/ ~Online(old)]_vars

\* No second cluster is created for an application that is not bound to the first one
\* yet, unless the scheduler is restarted or users interfere while it is handled
\* (schedule_kubernetes_application).
OneCreatedCluster ==
    /\ scenario.orderly /\ scenario.budget["crash"] = 0
    /\ app # Null /\ app.scheduled_to = Nowhere
    => Cardinality({c \in Spare : entries[c] # Null}) <= 1

-----------------------------------------------------------------------------
(* What OneCreatedCluster rests on                                         *)

\* Retries are counted only if there is a limit.
Counted(a) == a.retries = Unlimited => scenario.limit = Unlimited
Counts == {a \in Apps : Counted(a)}
Live == {a \in Counts : a.retries # Null}
Homes == DOMAIN Clouds \cup {Nowhere}
PlacesOK(places) ==
    /\ DOMAIN places \subseteq Clusters
    /\ \A c \in DOMAIN places :
         /\ {"state", "deleted", "cloud"} \subseteq DOMAIN places[c]
         /\ places[c].state \in ClusterStates /\ places[c].cloud \in Homes

\* The handlers, and what is on its way, are well typed too.
WorkerOK ==
    \/ worker = Idle
    \/ worker \in [pc: {"list", "confirm", "error", "create", "wait"}, app: Live]
    \/ worker \in [pc: {"bind"}, app: Live, target: Clusters]
    \/ /\ {"pc", "app", "places", "left"} \subseteq DOMAIN worker
       /\ worker.pc \in {"fetched", "ranked"} /\ worker.app \in Live
       /\ PlacesOK(worker.places) /\ worker.left \subseteq DOMAIN worker.places
WorkerStates ==
    {Idle} \cup [pc: {"list"}, entry: Entries]
        \cup [pc: {"delete", "choose"}, entry: Entries, first: Readings]
        \cup [pc: {"bind", "fail"}, entry: Entries, cloud: Homes]
AppOK ==
    /\ app \in Counts \cup {Null}
    /\ app # Null => app.modified > 0
    /\ events \in Seq(Counts)
QueueOK == appQueue \in [dirty: Counts \cup {Null}, timer: Counts \cup {Null}]
EntriesOK ==
    /\ entries \in [Clusters -> Entries \cup {Null}]
    /\ changes \in Seq([cluster: Clusters, entry: Entries])
HandlersOK ==
    /\ queues \in [Clusters -> [dirty: Entries \cup {Null}, timer: Entries \cup {Null}]]
    /\ workers \in [Clusters -> WorkerStates]
AroundOK ==
    /\ readings \in Readings
    /\ clock \in [binding: Nat, retry: Nat, fence: Nat]
    /\ scenario \in Scenarios
    /\ budget \in [Kinds -> Nat] /\ budget["crash"] <= scenario.budget["crash"]
Typed == AppOK /\ QueueOK /\ WorkerOK /\ EntriesOK /\ HandlersOK /\ AroundOK

Undisturbed == scenario.orderly /\ scenario.budget["crash"] = 0 /\ app # Null

\* As long as the application has no cluster, one version of it is under way.
OneToken ==
    /\ events # <<>> => Len(events) = 1 /\ appQueue.dirty = Null /\ worker = Idle
    /\ appQueue.dirty # Null => worker = Idle
\* All versions agree on the cluster that it waits for ...
Current(a) == a.scheduled_to = Nowhere /\ a.waits = app.waits
Agreed ==
    /\ \A i \in DOMAIN events : Current(events[i])
    /\ appQueue.dirty # Null => Current(appQueue.dirty)
    /\ appQueue.timer # Null => Current(appQueue.timer)
    /\ worker # Idle =>
         /\ worker.app.scheduled_to = Nowhere
         /\ worker.pc = "list" => Current(worker.app)
         /\ worker.pc \in {"fetched", "ranked", "create", "error"}
              => app.waits = Nowhere /\ worker.app.waits = Nowhere
         /\ worker.pc = "wait" => app.waits = Nowhere
         /\ worker.pc # "confirm"
\* ... and no other was created.
Created ==
    \A c \in Spare : entries[c] # Null =>
        \/ c = app.waits
        \/ worker # Idle /\ worker.pc = "wait" /\ worker.app.waits = c
Unbound == OneToken /\ Agreed /\ Created

\* Once it has a cluster, a version without one is overtaken before it is used, or
\* waits for a cluster and so is never written back.
Placed(a) == a.scheduled_to # Nowhere
Overtaken ==
    /\ worker = Idle /\ appQueue.dirty = Null /\ events # <<>> /\ scenario.migration
    /\ Head(events).triggered # 0 /\ Head(events).modified <= Head(events).triggered
Bound ==
    /\ \A i \in DOMAIN events : Placed(events[i])
    /\ appQueue.dirty # Null =>
         \/ Placed(appQueue.dirty)
         \/ ~scenario.migration /\ appQueue.dirty.waits # Nowhere
    /\ appQueue.timer # Null => Placed(appQueue.timer) \/ ~scenario.migration \/ Overtaken
    /\ worker # Idle =>
         \/ Placed(worker.app)
         \/ /\ ~scenario.migration
            /\ \/ worker.pc = "bind"
               \/ worker.pc = "list" /\ worker.app.waits # Nowhere

\* Without migration only applications that wait are tried again.
Waiting ==
    /\ worker # Idle /\ worker.pc = "wait" => worker.app.waits # Nowhere
    /\ ~scenario.migration /\ appQueue.timer # Null => appQueue.timer.waits # Nowhere

CreationInv ==
    /\ Typed
    /\ Waiting
    /\ Undisturbed => (IF app.scheduled_to = Nowhere THEN Unbound ELSE Bound)

\* The state is well typed, and an application without a cluster gets one made for it,
\* not several, because the versions of it that are under way agree on the cluster that
\* it waits for (schedule_kubernetes_application).
SchedulerInv == TypeOK /\ OneCreatedCluster /\ CreationInv

Rebound(c) ==
    /\ entries[c] # Null /\ entries'[c] # Null /\ entries[c].cloud # Nowhere
    /\ entries'[c].cloud # entries[c].cloud
\* Only the status of a cluster with metrics is written by fetch_metrics, from the copy that
\* was listed
Measured(c) == Described[c].refs # <<>> \/ "metrics" \in Described[c].inherits

\* A cluster that a user submitted keeps the cloud that it was bound to, if it has no
\* metrics (received_kubernetes_cluster: clusters are not rescheduled).
CloudKept ==
    [][scenario.orderly => \A c \in Clusters \ Spare : ~Measured(c) => ~Rebound(c)]_vars

\* The same for clusters with metrics: does not hold.  A copy that was listed before the
\* binding is written back after it, with metrics that fail (fetch_metrics).
MeasuredCloudKept ==
    [][scenario.orderly => \A c \in Clusters \ Spare : ~Rebound(c)]_vars

\* Decisions are not taken back without a reason: neither the cluster of an
\* application (reschedule_kubernetes_application) nor the cloud of a cluster
\* (received_kubernetes_cluster).
BindingsStay == StaysWhileRecent /\ CloudKept

\* Every version of an application that a user submits is scheduled in the end, or its
\* status says that it could not be, after waiting for a cluster that is created for
\* it too; restarts and changing metrics do not prevent it.
Decided ==
    app # Null /\ ~app.deleted /\ app.modified > app.triggered
    ~> \/ app = Null \/ app.deleted \/ app.modified <= app.triggered
       \/ app.state \in {"DEGRADED", "FAILED"}

\* An application that waits for a cluster is bound to this cluster in the end, or
\* deleted (WAITING_FOR_CLUSTER_CREATION).
WaitsForCluster ==
    \A c \in Spare :
        app # Null /\ app.waits = c /\ app.scheduled_to = Nowhere
        ~> app = Null \/ app.deleted \/ app.scheduled_to = c

\* Every application comes to a decision, directly (kubernetes_application_received)
\* or by way of a cluster that is created for it (WAITING_FOR_CLUSTER_CREATION).
Settles == Decided /\ WaitsForCluster

\* A DEGRADED application is tried again when its retry is due: it is scheduled and
\* runs, or it is FAILED (kubernetes_application_received).
DegradedRetried ==
    app # Null /\ ~app.deleted /\ app.state = "DEGRADED"
    ~> app = Null \/ app.deleted \/ app.state # "DEGRADED"
=============================================================================
