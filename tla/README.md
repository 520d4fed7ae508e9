# A TLA+ verification of Krake

Krake schedules applications on Kubernetes clusters. It is an API server in front of etcd
and a set of controllers that watch the API and act on what they see. Nothing is locked:
controllers are asyncio programs, several of them write the same resources, and what holds
them together is a small number of protocols - the work queue of a controller, the
transactions of the API, finalizers, and the cascade of the garbage collector. These
protocols are what this project models, checks with TLC and, in part, proves with TLAPS.

Paths below are relative to `src/krake/krake/` unless they start with `src/`.

## 1. Inventory

| component | state | operations | talks to | hard parts |
|---|---|---|---|---|
| WorkQueue (`controller/__init__.py:29-211`) | `dirty`, `active`, inner queue, `timers` | put (immediate, debounced, delayed), get, done, cancel, close | reflectors put, workers get | one timer per key, puts that await each other, put while handled, shutdown |
| Reflector (`controller/__init__.py:214-373`) | connection | list, watch, dispatch, reconnect | API, handlers of its controller | events while listing, events lost between two watches |
| Controller, BurstWindow, Executor (`controller/__init__.py:426-850`) | background tasks, failure times | run, retry, register_task, cleanup | everything below | order of shutdown, `max_retry = 0` |
| Observer (`controller/__init__.py`, application controller) | own copy of a resource | poll, update status | real cluster, API | stale status written back |
| API handlers (`api/kubernetes.py`, `core.py`, `infrastructure.py`, `openstack.py`) | none | create, read, list, watch, update, delete, binding, complete, shutdown, status, retry | database | stale bodies, finalizers, deletion state |
| Database session (`api/database.py`) | revision of each loaded object | get, all, put, delete, watch | etcd | load and commit of different handlers interleave |
| Middlewares and helpers (`api/middlewares.py`, `api/helpers.py`) | none | retry_transaction, load, blocking | handlers | bounded retries |
| Authentication and RBAC (`api/auth.py`, `api/middlewares.py`) | none | authenticators, protected, rbac | database, Keystone, Keycloak | bindings and roles are read one after the other while they change |
| Garbage collector (`controller/gc.py`) | dependency graph, work queue | on_received_new/update/deleted, handle_resource, marking, finalizer removal | API | graph lags behind the database, awaits between graph operations, cycles |
| Scheduler (`controller/scheduler/`) | work queues of applications, clusters, Magnum clusters | filter by constraints, fetch metrics, rank, bind, reschedule, retry, create and delete clusters | API, metric providers | decisions on old copies, changing metrics, waiting for a cluster, retries |
| Kubernetes application controller (`controller/kubernetes/application/`, `hooks.py`) | observers, work queue | reconcile, migrate, delete, shutdown hooks, resource delta | API, clusters | crash inside a migration, shutdown timeout, finalizers |
| Kubernetes cluster controller (`controller/kubernetes/cluster/`, `hooks.py`) | observers, work queue | register, observe, report health | API, clusters | writes the same status as the infrastructure controller, observers that die |
| Infrastructure controller (`controller/infrastructure/`) | work queue with a delay for deletions | create, reconcile, reconfigure, wait, hand over, delete | API, Infrastructure Manager (IM) | IM acts before its id is saved; stale versions; failures while deleting |
| Magnum controller (`controller/magnum.py`) | work queue | state machine pending - creating - running, resize, delete, make the Kubernetes cluster | API, OpenStack | as above, and one Kubernetes cluster per Magnum cluster |
| Data model (`data/`) | - | update, validation, constraint sentences and matching | all | read-only and sub-resource fields, equality of constraints |
| Client library, `krakectl` | - | one request per method; read, edit, put back | API | a stale resource is put back as a whole; options that are not given |
| Bootstrap tool (`tools/bootstrap_db.py`) | results of insertions | insert, replace, roll back | database, without the API | a failure after some insertions |
| API generator, `rak`, deployment | - | templates, tests | - | - |

What makes each of the core components correct:

* **WorkQueue** - a key is never handled by two workers at once; no value put is forgotten;
  the newest value of a key is the one that is handled, after all older ones; every call
  returns; a closed queue is quiet.
* **API** - concurrent requests behave as if executed one after the other; a deletion cannot
  be undone, nor blocked by a finalizer added late; a resource leaves the database only
  after its deletion was asked for, and with the consent of everyone whose finalizer it
  carries; every request is answered.
* **Garbage collector** - the graph follows the database; only resources that were deleted,
  and what depends on them, are marked; dependents go before their owners; a resource in
  deletion is deleted in the end.
* **Application controller** - objects are created only under the protection of the
  finalizer; when the application is gone, so are its objects; it runs on one cluster at a
  time, and this cluster owns it; whatever interrupts the controller, in the end the objects
  of the manifest exist where the scheduler wants them, and nowhere else; a deletion ends.
* **Scheduler** - every version of an application is decided on; only places that fulfil the
  constraints are chosen; an application moves only for something better, and not at once
  again; one cluster is created for a waiting application.
* **Cluster, infrastructure and Magnum controllers** - nothing is created for a resource that
  can disappear; whatever exists outside is known inside; the wish of the user is fulfilled in
  the end and then the kubeconfig leads to it; the health that is told is right; deletions end.
* **API resources, krakectl, RBAC, bootstrap tool** - a name never changes its resource silently;
  a request touches its resource and its part of it only; a command changes what its options
  say; access follows roles; a rollback restores the database.

## 2. Modules

| module | what it is | models |
|---|---|---|
| `WorkQueue` | detailed specification | class WorkQueue with reflectors, workers and shutdown |
| `KeyedQueue` | abstract specification | the guarantee the class documents |
| `WorkQueueProofs` | theorems | type, sequential processing, accounting, refinement; timers and order of versions for one caller |
| `ApiHandlers` | operators | what the application handlers decide from entity and request |
| `ApiTransactions` | detailed specification | handlers over etcd revisions, clients with stale copies |
| `AtomicApi` | abstract specification | requests that take effect in one step |
| `ApiTransactionsProofs` | theorems | invariant, irreversible deletion, finalizers, refinement |
| `DependencyGraph` | operators | class DependencyGraph and `_clean_cycle` |
| `GarbageCollector` | composition | collector, reflectors, API, users and other controllers; its queue is an instance of `KeyedQueue` |
| `GarbageCollectorProofs` | theorem | the collector's invariant |
| `ApplicationController` | composition | application controller, shutdown task, observer, scheduler's decisions, users and clusters, for one application |
| `ApplicationControllerProofs` | theorems | the controller's invariant, creation under the finalizer, one cluster at a time |
| `ConstraintLanguage` | operators | sentences, equality and meaning of constraints (`data/constraints.py`) |
| `Selection` | operators | metric providers, normalisation, inheritance, constraints, scores, stickiness, choice |
| `Scheduler` | composition | scheduler, one application, clusters, clouds, the other controllers by their effects; uses `Selection` |
| `SchedulerProofs` | theorems | one cluster created for an application, constraints fulfilled wherever something is sent |
| `ClusterResource` | operators | a stored cluster and its API handlers |
| `InfrastructureController` | component | controller, its IM client, and IM (external) |
| `ClusterController` | component | controller of clusters with its observer |
| `ClusterLife` | composition | the two controllers above, scheduler, collector and users on one cluster |
| `ClusterLifeProofs` | theorems | the invariant of the two controllers, creation under the finalizer, no infrastructure lost, none observed that is unfinished |
| `MagnumController` | composition | controller, the scheduler's OpenStack handler, OpenStack (external), users |
| `MagnumControllerProofs` | theorem | the invariant of controller, scheduler and collector on a Magnum cluster |
| `ResourceKinds` | operators | all kinds of resources, as handlers serve and clients address them |
| `Krakectl`, `AccessControl`, `Bootstrap` | operators, component | commands; authenticators and rbac; the bootstrap tool |
| `Catalogue` | composition | clients, access control, handlers, collector and bootstrap tool on one database |
| `CatalogueProofs` | theorems | requests of all kinds on one database, the rollback of the bootstrap tool |
| `MC...` | instances for TLC | `MCWorkQueue`, `MCApiTransactions`, `MCGarbageCollector`, `MCApplicationController`, `MCScheduler`, `MCProvisioning`, `MCMagnum`, `MCCatalogue` |

The abstract specifications carry the composition: `WorkQueue` implements `KeyedQueue` and
`ApiTransactions` implements `AtomicApi`, so the other compositions use a
keyed queue and handlers that take effect at once. `Catalogue` keeps the two steps of a handler,
because its properties are about requests that run together.

### WorkQueue

A coroutine runs undisturbed until it awaits something that is not ready, so an action is
the code between two such awaits. `put` with a delay is up to three actions: the call, which
may cancel the previous timer and suspend (`Put`), the callback of the cancelled task
(`RemoveTimer`), and the rest of the call (`Resume`). `Fire` is the end of the sleep of a
debounce task. The inner `asyncio.Queue` has no bound in any controller, so `queue.put`
never suspends. A value is the version number of a resource, which is all that the
properties tell apart. A timer is a debounce task together with the future that `put` stores
beside it; identities are reused once nothing refers to them, so `Timers` bounds only how many
exist at the same time. `newest`, `version` and `handled` are history variables. `Receive` and
`Requeue` are how reflectors and handlers use the queue, taken from the scheduler, the only
controller that both debounces and puts copies back with a delay. `Stop`, `Abandon`, `Close`
and `Closed` are the end of `Controller.run`.

### ApiHandlers, ApiTransactions

`ApiHandlers` gives, for every handler, its outcome as an operator of the loaded entity and
the request: an HTTP error, an answer without a write, an entity to store, or a removal. Of
an entity it keeps what handlers look at: uid, deletion mark, finalizers in order, owners,
the spec as one value (with or without shutdown hook), application state and binding.
Timestamps are abstracted to set or unset; `stamped` says whether the body of an update has the
timestamps of the stored entity, without which they are not equal.

In `ApiTransactions` a request is served in two steps, `Load` and `Commit` or `Conflict`,
between which other requests are served. A client keeps a copy per resource and builds
bodies from it however old it is; a controller adds its finalizer to what is not in deletion
and removes it from the tail of what is. uids are taken from the revision counter, as unique as
the random ones of the code. A creation needs no load and is one step.

### DependencyGraph, GarbageCollector

The graph is a function from resources to lists; the `defaultdict` makes a missing entry an
empty list. `CheckForCycles` is the depth-first walk of the code with its single set of visited
resources, as a recursive function over the stack.

In `GarbageCollector` every request to the API is a suspension, so `on_received_deleted` and
`resource_received` are several actions. `_mark_dependents` iterates over the very list that
the graph holds while it awaits the API: `Dependents(w)` is the list as it is now, and
`Detach` keeps a list for the worker that iterates over it once the graph drops it. Reflectors
list and watch at the same time. `Disconnect` is an error on the connection, which cancels
what the reflector was doing; a missing owner (404) has the same effect because it is a
`ClientError` raised inside the watch. `CallLost` is a request that does not reach the API.
Other controllers remove their finalizer once it is last (`Finalize`). A scenario says which
resources exist at the start, who owns them, and what users and other controllers ask for; `Init`
chooses one of the set a run gives.

Assumptions: the queue has no debounce time (the default of the collector), every name is
created at most once, workers whose handler raised an exception go on (the limit of
`BurstWindow` is not modelled), and a watch that ends does not lose the events it already
delivered to the handler.

### ApplicationController

| action | code |
|---|---|
| `Receive` | `simple_on_receive` with `scheduled_or_deleting` |
| `Get` | `handle_resource` and the decisions of `resource_received` (`Dispatch`), up to the first request |
| `Reload`, `SendStatus`, `SendUpdate`, `Refused` | the requests to the API of reconciliation, both migrations, deletion and shutdown |
| `KubeDelete`, `KubeApply` | one object deleted or applied, and the hooks after it |
| `Transfer` | `transfer_data`: the volumes are copied, or the migration is rolled back |
| `ClusterError` | an error of a cluster; the worker then reports FAILED on the version it took from the queue |
| `CheckShutdown` | the end of a grace time in the detached shutdown task, and the failure strategy after the last try |
| `Poll`, `Observe` | the observer reads the cluster, and later reports its own copy of the status |
| `Restart` | the controller dies and lists the applications again |
| `SchedulerTake`, `Schedule`, `Move` | the scheduler's version and its decision |
| `UserUpdate`, `UserDelete`, `Confirm`, `Retry`, `Collect`, `Drift` | users, the application's answer to a shutdown request, the garbage collector, and objects that vanish |

A coroutine is a record: what it does (`job`), the request it is about to make (`pc`), the value
from the queue, the copy it works on, and the objects still to delete and to apply. `Settled` is
the code between two requests. There is one application, and the keyed queue lets one worker
handle it, so there is one worker beside the shutdown task. A manifest is a set of objects; contents
and with them `ResourceDelta.modified` are left out. Timestamps are reduced to the order the
code compares: `modified` counts updates and a trigger has the number of the update it follows.
States of containers change the state of the application through the observer (`Poll`).
`Dispatch` gives a reconciliation a copy whose last applied manifest is the new one already
(`UpdateLastApplied`), as the code does before it compares, adds the finalizer or writes the mark: every
status that the worker writes from then on carries it. An update that takes objects out of the manifest is
an event of its own (`shrink`).

A scenario says what may happen and how often. In an *orderly* one the user and the scheduler
begin something only while nothing else is under way, and the scheduler decides on the current
version; restarts, vanished objects and reports of the observer happen at any time. With a
*prompt* controller the worker takes a version only when no newer one is under way; `lag` bounds the
number of those that are. Order is assumed because without it the properties do not hold: besides
`AppOrphan`, an update sent while the finalizer is added is reverted by the stale copy, objects of a larger manifest are left when it shrinks
during the creation, and an old status from the scheduler undoes a place. `GuardedApply` needs no
order and is checked in all scenarios. Placement is claimed for *sheltered* scenarios (`Sheltered`):
orderly, without volumes, no cluster fails, an application that may move has no shutdown hook and a
prompt controller, and restarts and updates that take objects away do not come together
(`AppForgets`). Convergence is claimed for *steady* ones (`Steady`), which are also prompt, have no
container crashes, and with a shutdown hook have the strategy `delete` and nothing that makes the
controller forget the shutdown.

### Scheduler, Selection, ConstraintLanguage

`ConstraintLanguage` has a sentence as the sequence of its words and `Parse` as the set of
constraints the grammar makes of it. `Selection` has fractions for numbers and one operator per
function of the code; an exception that no worker handles is a crash (a metric with an empty
range, a constraint on a metric that a cluster does not have, no candidate left in
`select_maximum`). Random choices are sets of which any member may be taken. Both are checked on
thousands of inputs: `MCScheduler` adds a variable `case` that `Pick` sets once, so that one run
checks the operators on every case and the protocol on every scenario. Where the code decides by the
first condition that holds and another order would give another result, conditions are nested: the
cases of a CASE have no order.

In `Scheduler` an action is the code up to the next request. `TakeApp`, `ListClusters`, `Report`,
`Rank`, `Decide`, `CreateCluster`, `Wait`, `Bind`, `Confirm` and `ReportError` are the handler of
applications, `TakeCluster`, `ListApps`, `ChooseCloud`, `BindCluster`, `DeleteUnused` and
`FailCluster` that of clusters, `Receive...` and `Fire...` their queues. `ListClusters` includes
the automatic creation, whose name is taken from `Spare`. Time is the order of its events
(`clock`): a binding, a retry and a failed migration are numbered, and `Elapse` lets the oldest wait
end. `AppRuns`, `AppGone`, `MigrationFails`, `Provision`, `ClusterGone` and `Health` are what the
other controllers do to the resources that the scheduler reads.

### InfrastructureController, ClusterController, ClusterLife

One cluster, one worker per controller, and a feed of versions for each. A handler is a record of
its next request (`pc`) and the copy that it works on; the code saves that whole copy, so an old one
undoes what happened meanwhile, as in the program. IM creates, configures, breaks, loses and deletes
infrastructures (`im`); a request may be refused, or be served while its reply is lost. `KHandle`
registers and replaces observers; `Observe` and `Report` are the observer's poll and its request.
`UnfinishedUnobserved` and `NoneLost` speak of what no single controller knows; the section after them in
`ClusterLife` says what they rest on, for all copies of the cluster that are about (`Copies`).

### MagnumController

The same for Magnum clusters, with the scheduler's binding to a project as a second worker.
`FirstActions` and the functions `On...` are the state machine of `reconcile_magnum_cluster`;
`Publish` is the creation or update of the Kubernetes cluster. Certificates and the kubeconfig are
reduced to whether the cluster can be asked for them. `MagnumKept` collects what the scheduler, the
controller and the collector rely on while all three write to one Magnum cluster. `ReadIn` is the answer to a
client of the project: the status, NotFound, or, without an id, a listing that has no status.

### ResourceKinds, Krakectl, AccessControl, Bootstrap, Catalogue

The handlers of the API and the methods of the client are copies of one template, produced once by
the API generator and edited since. `ResourceKinds` writes the template out (`Made`, `Deleted`,
`Updated`, `Reported`, `Bound`) and describes each kind by a record of the decisions in which its
copy differs: whether it is namespaced, has a status or a binding, refuses an unchanged body, and
under which path and name its routes and its client methods are. A record therefore stands for the
whole block of handlers, and a wrong entry is a wrong handler. `Krakectl` has one operator per create
and update command, from options and the resource read before to the body. In `Catalogue` a command
goes through `Start`, `Edit`, `Arrive` (authentication), `Authorize` and `CheckRole` (one read of
the database each), `Handle` or `HandleCreate`, and `Commit` or `Conflict`. The tool writes to the
same database without the API.

## 3. Runs

Each run finishes within two minutes on two cores.

| run | instance | shows |
|---|---|---|
| `WQShared` | 1 key, 2 reflectors, 2 workers, 4 timers, 2 versions, immediate puts and all delayed ones | `IInv` (type, `StrictSequential`, `ActiveAccounted`, `DirtyIsActive`) and `ImplementsKeyedQueue` hold under every interleaving |
| `WQSingle` | 2 keys, 1 reflector, 2 workers, debounce, no delayed puts by handlers | `OneTimerPerKey`, `DeliveryInOrder`, `CallsReturn`, `NewestHandled` |
| `ApiRequests` | user and application controller, 1 name, 3 writes, 1 retry, all operations | `TxInv` (type, `LoadedIsCurrent`), `ImplementsAtomicApi`, `DeletionIrreversible`, `RemovedOnlyInDeletion`, `RequestsAnswered` |
| `GCSafety` | project, 2 clusters, application in three forests, any of them deleted; an application created late, bound to a second cluster, unbound from the first and deleted; one failure, forced deletion, late binding, ownership ring; 2 workers, one foreign finalizer | `CollectorInv` (type, `OnlyInDeletion`, `MarksAreFinal`) in all of them; `CascadeInv` (`GraphMatches`, `CascadeJustified`) and `DependentsFirst` in those without failures and force (`Calm`) |
| `GCForest` | the same forests, the project is deleted | `DeletionCompletes` |
| `AppRecovery` | 2 clusters, 2 objects; orderly: an update that adds an object, migration, deletion with two restarts; an update that takes one away, migration, deletion without; vanished objects, shutdown hook with the strategy delete, versions handled late (with restarts, vanished objects, a hook); disorderly: deletions, migrations, failing clusters, volumes, crashing containers, hooks that give up and are retried | `AppInv` (type, `JobsInPhase`, `DeletionIsLast`, `FinalizerHeld`) and `GuardedApply`; for sheltered scenarios `PlacementInv` (`OneCluster`, `OwnersCover`, `RecoveryLeavesNone`, and what they rest on, `Accounted`), for steady ones `Converges`, `DeletionCompletes` |
| `Scheduling` | 1 application, up to 6 clusters, 2 clouds, 3 sets of metric values; 9 scenarios of updates, metrics, health, deletion, restart, automatic creation; thousands of cases for the operators | `SchedulerInv` (type, `OneCreatedCluster`), `LanguageSound`, `ChosenIsAllowed`, `RankingSound`, `BindingsStay`, `Settles` |
| `Provisioning` | 1 cluster, 4 infrastructure ids, 2 templates; update, deletion, refused and lost requests, broken and vanished infrastructure, restarts, health, hasty users, late versions | `ProvisioningInv` (`ClusterInv`: type, `DeletionIsLast`, `FinalizerKept`; `NoneLost`, `UnfinishedUnobserved`, and what they rest on: `CopiesCoherent`, `ObserverInformed`, `KubeconfigStays`, `IdsTracked`), `CreatedUnderFinalizer`, `DeletionEnds`, `Provisioned`, `HealthTold` |
| `Magnum` | 1 Magnum cluster, 4 ids; resize, deletion, refused and lost requests, failures, restarts, no project, two projects, no labels, another orchestration engine | `MagnumInv` (type, `MagnumKept`, `MagnumNoneLost`, `OneKubernetesCluster`), `MagnumDeletionEnds`, `MagnumServes` |
| `Catalogue` | every kind with two clients, and the cases of access control and of the bootstrap tool (faulty documents, `--force`, the same key twice) | `CatalogueInv` (rows, requests and jobs, `DeletedHeld`), `NeverOverwritten`, `HandlersKeepApart`, `CommandsExact`, `AccessByRoles`, `RollbackInv` (`RollbackRestores`) |

Two runs end in a counterexample to something the repository says of itself; `findings` in
`PROJECT.json` quotes both sides.

| run | what happens |
|---|---|
| `AppOrphan` | An application is deleted while its objects are created; the worker handles a version of it that does not yet say where it runs, removes nothing, and drops the finalizer. |
| `SchedRetry` | The error report of a failed attempt causes a version of the DEGRADED application that is handled before its retry is due and ignored; nothing is queued for later, so that it stays DEGRADED although its cluster is online. |

More disagreements have a configuration each, which ends in a counterexample
(`tlc -config X.cfg M`); three of them need only another property in the configuration of a run:

| configuration | module | what happens |
|---|---|---|
| `WQLost` | `MCWorkQueue` | The scheduler puts its copy back after looking into `dirty` only; the newer version waits in a timer, which the put cancels (`NewestNotLost`; comment at `controller/scheduler/scheduler.py:914-918`). |
| `WQHang` | `MCWorkQueue` | A put that resumes overwrites the entry of a timer that another put awaits; that put never returns (`CallsReturn`). It needs two callers for a key, as the reflectors of the collector and the scheduler's reflector and worker are. |
| `AppForgets` | `MCApplicationController` | An update takes an object out of the manifest. The mark of the reconciliation stores the new manifest as the applied one before the object is deleted; the controller dies, the next one's observer polls the applied objects only and reports them, and nobody knows of the object that is left: the deletion of the application leaves it behind (`NoOrphans`; comment at `application.py:1061-1063`). |
| `GCStuck` | `MCGarbageCollector` | An owner is deleted after `on_received_deleted` read it and before the dependent leaves the graph; its handling fails with 404 and is never repeated (`DeletionCompletes`; `src/docs/dev/garbage-collection.rst:54-56`). |
| `GCDiamond` | `MCGarbageCollector` | A resource reachable on two paths is taken for a cycle; the graph loses everything visited (`GraphMatches`; `garbage-collection.rst:186-187`). |
| `SchedPinned` | `MCScheduler` | The scheduler returns early for a bound application that must not migrate, and never updates the timestamp that the application controller waits for (`Decided`; comment at `scheduler.py:862-871`). |
| `ClusterFlaps` | `MCProvisioning` | A cluster that becomes unhealthy after its creation is waited for and set to CONNECTING again by the infrastructure controller, whenever its observer reports (`HealthSettles`; note at `infrastructure.py:497-502`). |
| `MagnumRebound` | `MCMagnum` | The scheduler's own first update puts the unbound version into its queue again; it is handled a second time and binds the cluster to another project (`NotRescheduled`; comment at `scheduler.py:1652`). |
| `Magnum`, with `MagnumReleased` | `MCMagnum` | A Magnum cluster whose creation was refused, or whose id was never saved, is FAILED or CREATING without an id. When it is deleted, no request can be made for it: the client library addresses the collection instead, and the loop that waits for NotFound (`magnum.py:517-527`) ends with an AttributeError. The finalizer stays (`MagnumReleased`; docstring at `magnum.py:474-476`: wait for its deletion, and remove the finalizer). |
| `Scheduling`, with `MeasuredCloudKept` | `MCScheduler` | A cluster with a metric of its own is listed before it is bound to a cloud; the report that the metric fails writes the listed status back after the binding, and the cloud is lost (`MeasuredCloudKept`; comment at `scheduler.py:1389-1390`). |
| `Catalogue`, with `ListsGrantedByRoles` | `MCCatalogue` | A list over all namespaces has no namespace, and `rbac` grants what has none, for resources that are not namespaced (`auth.py:308-310`). A role that is limited to a namespace so lists resources of all of them (`ListsGrantedByRoles`; `src/docs/admin/security.rst:437-440`). |
| `BootstrapPartial` | `MCCatalogue` | An unknown kind or a conflict raises an exception through `gather`: the tool ends without the rollback that its documentation promises (`NoPartialInsertion`; `bootstrap_db.py:55-57`). |

Met while modelling, without a configuration: `update_application` changes spec and owners of a
resource in deletion, which `src/docs/dev/concepts.rst:76-77` rules out; a shutdown task takes a
successful migration for a failed shutdown; `shutdown_grace_period` survives a restart that loses
the task; FAILED is written with the status from before the objects were created; a failed
creation of a cluster is retried as long as its CREATING version is queued, though a comment says
that failed clusters are ignored; the task of an observer ends with the first API error, though a
comment says that it tries again; a project without labels and metrics is never bound, because its
unchanged body is answered with 400; every `krakectl` update of an application or cluster resets the
backoff options, `cloud update --password` is dropped, `magnum create` puts constraints under the
metadata, and constraints pile up with every update; bindings in deletion still grant access.

`WQSingle` and `WQShared` belong together with `WQLost` and `WQHang`: what fails with
delayed puts of handlers, or with several callers per key, holds without them, while the
guarantees of `WQShared` never fail. `GCForest` and `GCStuck` likewise differ only in what users
delete. `DeletionCompletes` also needs that no connection fails: a deletion missed between two
watches is not made up for by the listing, which only adds to the graph.

**Conditions.** Where a property is about some scenarios only, its definition says so. *Orderly*
means that users begin something only while nothing else is under way; *prompt*, that a controller
has the newest version when it takes one. `NoneLost` and `MagnumNoneLost` need both, and that no
reply is lost and the controller is not restarted: a restart between the creation and the saved id
does leave an infrastructure behind, as the hazards say. Deletions of clusters end in all scenarios,
those of Magnum clusters unless the cluster is past PENDING and has no id (`Nameless`), and `MagnumServes`
excepts a restart between the request that creates a cluster and the saved id, for the same reason: the model
takes from the client library, which is external, that a read without an id is answered with a listing
and a deletion without one is refused, as not found or with another error. The finalizer
guards the creation of infrastructure in all scenarios, and that of objects in all but one kind
(`WorkerReleases`): with a shutdown hook and the strategy `delete`, the shutdown task of a
*migration* removes the controller's finalizer after its last try, from an application that nobody
deleted and that the worker may be creating objects for. Placement is claimed without promptness
only for applications that stay: a report that the observer made before a migration, sent after it and handled when the migration is over, has the worker
begin to create the objects on the former cluster (this takes three versions under way). Restarts are
excluded together with updates that take objects away (`AppForgets`). With a
failing cluster the status does not tell what was created, and with a hook the shutdown task of a
migration writes on beside the worker. `Converges` needs promptness for applications that stay, too: a worker that
handles each version late may answer an old one with a new one for ever. `UnfinishedUnobserved` needs
promptness: a copy without kubeconfig that is several versions old is written back over the finished one.
`StaysWhileRecent`, `OneCreatedCluster` and `CloudKept` need order too: a decision
on an old copy undoes a newer one. `CloudKept` is for clusters without metrics of their own or inherited
ones; `fetch_metrics` writes the listed status of others back as a whole, and the run has a cluster
of each sort (`own`, `mine`). `GrantedByRoles` is for all requests but lists over all namespaces.

**Bounds.** Two reflectors and two workers are the smallest number with every race on a key;
`MaxVersion` 2 gives an older and a newer version, 4 in `WQHang` the third and fourth put its race
needs. Timers are as many as can be alive at once, three or four. Two clients with one retry
reach every order of two handlers, a conflict, a successful retry and an exhausted one;
`MaxRevision` stops new requests, never one being served: after 3 writes (create, delete, update) the
requests under way still conflict and commit. Four resources are the smallest number with a diamond and with chains of three. An intent
is used at most once, and one outage suffices to lose any event. An application needs two
clusters to migrate, and two objects so that a restart finds some of them done; each event of a
scenario happens once, restarts twice, so that recovery is interrupted too; with two objects, one update
adds an object to a manifest of one, or takes one out of a manifest of two. `MaxLag` 2 lets the
watch be behind by the two writes that end a deletion, a migration or a creation; a third makes
writers wait. Of an application, three versions may be under way in orderly scenarios (`lag`), so that a
report can cross a migration. `MaxRetry` 2 numbers the retries of an application with unlimited ones; further ones
count as the second. In the lives of clusters each kind of event has a budget of one, and two kinds
are combined with a deletion: enough for every failure to meet every step of creation,
reconfiguration and deletion. Four ids are more than any scenario creates. One shutdown task exists
at a time. Symmetry is used only in safety runs (`WQShared`, `GCSafety`), over sets the
specification treats alike.

**Fairness.** The event loop runs every ready callback, sleeps end, and a handler ends, by a
result or an exception: weak fairness of `Resume`, `Fire`, `RemoveTimer`, `Get`, `Done` and of
shutdown once it began. New versions and requests are never promised. The API goes on with a
request it has received, reflectors retry for ever (`while True` in `Reflector.__call__`), and other
controllers get done with a resource in deletion (`Finalize`). In the compositions the workers,
reflectors, observers, timers, the scheduler and the collector go on, and so do the external
services with what they have begun (IM configures and deletes, OpenStack completes); users,
failures, restarts and health are never promised, and a budget ends them. `Scheduler` states that a
handler ends as `[]<>(worker = Idle)`. No run needs strong fairness.

**Deadlock** is checked for the work queue and the API; the other systems are at rest once
nothing is left to do.

## 4. Theorems

All proofs are for arbitrary constants - any number of keys, resources, clients, workers, clusters,
objects and ids, any lag, any scenario - under the assumptions named in the modules
(`WQAssumption`, `HandlersAssumption`, `TransactionsAssumption`, `CollectorAssumption`,
`ApplicationAssumption`, `SchedulerAssumption`, `ClusterAssumption`, `LifeAssumption`,
`MagnumAssumption`, `CatalogueAssumption`): these say that absent values differ from present ones, that constants have their types, that there are finitely many
resources, that no reflector is a worker, and that at the start resources are whole, commands name
what their kind has, and the names for clusters that the scheduler creates are free. TLC evaluates them in the runs.

**WorkQueueProofs.** Neither sequential processing nor the type is inductive alone: that `get`
finds a value depends on "queued keys are dirty", which depends on every queued key being
queued once, which depends on the accounting of `active`. The inductive invariant `IInv` is
`TypeOK` with `QInv`, the conjunction of `ActiveAccounted`, `DirtyIsActive` and
`StrictSequential`, which `WQShared` checks as `IInv`. `QPutKey`, `QGet` and `QDone` are the three operations that touch the queue;
everything else leaves `dirty`, `active`, `queue` and the held keys alone (`QSame`). From it follow
`TypeCorrect`, `SequentialProcessing`, `ActiveIsAccounted`, `DirtyStaysActive`, and
`QueueRefinement`: seen through `dirty` and the keys held, put becomes `Offer`, get `Take`, done
`Release`, and timers, suspended calls and shutdown are stutters.

The properties of timers hold for one caller only (`OneCaller`: a single coroutine puts, and
handlers put nothing back; `WQLost` and `WQHang` show what happens otherwise), so their theorems
assume it. `SingleInv` adds two parts to `IInv`. `TimersNamed` says that the dictionary names every
task that is not done, and where a suspended call stands: it awaits a task that was cancelled or
has fired, and the entry is gone exactly when the callback ran. `VersionsInOrder` orders the values
of a key: what was handled, what waits in `dirty`, what a timer holds, what was put last. From it
follow `TimersAreNamed` (`OneTimerPerKey`, closed queues included) and `VersionsDelivered`
(`DeliveryInOrder`).

**ApiTransactionsProofs.** The core is `LoadedIsCurrent`: revisions only grow, so a handler whose
comparison would succeed holds the stored entity itself. With `TypeOK` it is inductive
(`TxInv`, `TransactionsInvariant`). `OutcomeFaithful` says for every handler that it is `Faithful`: it
keeps the uid, never unmarks and never adds a finalizer in deletion; with it follows `DeletionIsIrreversible`.
`RemovalDecided` says that a handler removes only what is in deletion or what it is told to by
force; with it follows `RemovalIsAskedFor`. `HandlersAreAtomic` is the refinement of `AtomicApi`: `Commit` is the atomic
step, because its outcome was computed from the stored entity; `Load` and a retried `Conflict` are
stutters.

**GarbageCollectorProofs.** `OnlyInDeletion` is about the queue and the workers, but what they hold
came from the watch, a listing or the answer with an owner, possibly long ago. The inductive
invariant `CollectorInv` therefore says of every copy, wherever it is, that a mark it carries is final
(`MarksAreFinal`): the resource is gone for good or still marked. *For good* needs that a name that
was in the database is not created again (`Spent`, `DbSpent`), which the scenarios ensure. API
requests preserve it because handlers are faithful (`DeleteFaithful`, `UpdateFaithful`, `BindFaithful`), for bodies of any age;
reflectors and workers because they only move copies. Nothing is assumed about the graph: owners
may form cycles, lists may be detached, connections may fail. The lemmas on lists (`RemoveFirstTyped`,
`WithoutTyped`, `GraphTyped`) say that the operations of `DependencyGraph` return lists of resources;
`CheckForCycles` may return any set.

**ApplicationControllerProofs.** `GuardedApply` needs to know that the finalizer the worker saw is
still there. `FinalizerHeld` says so for every version in the watch, in the queue and in the worker
that has the finalizer and is not in deletion; it holds because the finalizer is removed only by a
deletion, and `DeletionIsLast` (versions arrive in the order they were stored, and stay in deletion)
keeps a worker that deletes from being followed by one that creates. `JobsInPhase` says which request
belongs to which job. `AppInv` is the conjunction with the type; `ApplicationInvariant` and, by
the last step, `ObjectsAreGuarded`.

`OneCluster`, `OwnersCover` and `RecoveryLeavesNone` speak of objects on clusters; why they hold depends on
what each copy of the application says that exists, since any copy may be the one that the worker, the
observer or a restart acts upon. `PlacementInv` adds `Accounted`, which has one part per phase of a life, and
is inductive with `AppInv`:

* `NewestLast`: the last version under way is the present one, and with none under way the queue ends
  with it, if it is one the worker takes.
* `Beginning`: before the finalizer is there nothing exists, and the version that the scheduler bound is
  at exactly one place - under way, in the queue, or with the worker that is about to add the finalizer.
* `Living`, until the deletion: the stored version, every version that the worker may still take
  (`Coming`), its own copy and that of the observer explain what exists. `Explained` allows the
  manifest on the cluster of the binding and the observed objects on the one where the application runs;
  these are two clusters during a migration only, and `Migrating` says at which request the former one is
  empty and what is written down by then. `Working` is the same for a reconciliation, `Observing` for
  the observer, whose report is written over whatever is stored. An old version that still has a
  migration to do is outweighed by the trigger that it carries (`Agrees`).
* `Growing`: where the controller may die, manifests have only grown, so that no copy of the status knows of
  an object that is not applied, or has one applied that is not asked for: the observer of the next
  controller, which polls what is applied, misses nothing. Elsewhere `Complete` says what observed and applied
  owe to each other: the mark stores the new manifest as applied while an object that is not in it
  is still observed and there, which ends with the reconciliation.
* `Dying`, from the deletion on: nothing may be created, every copy knows at least what is left
  (`Known`, `Reports`), what the worker or the shutdown task has still to remove includes it
  (`Cleaning`), and without the finalizer nothing exists.

One lemma per step and phase (`YoungStep`, `LivingStep`, `DyingStep` and those they cite) shows that the
phase is kept; `Writes` and `Removes` say once what a write to the database and a removal of objects owe
to all copies. `PlacementInvariant` combines them for any clusters, objects, lag, restarts and
interleavings. The proof corrected the conditions of the three properties: as claims about all
orderly scenarios they held on small instances only because two versions could be under way at a time
(see *Conditions*).

**SchedulerProofs.** `OneCreatedCluster` counts clusters; why there is no second one depends on every
version of the application that is about, because any of them might have one created.
`CreationInv` is the inductive invariant; `Scheduling` checks it as a part of `SchedulerInv`. It has
two halves. `Unbound`, as long as the application has no cluster: one version of it is under way
(`OneToken`: an event, one in the queue, or the handler's), all versions agree on the cluster that they
wait for (`Agreed`), and no other has been created, except by the handler that is about to say so
(`Created`). `Bound`, from the binding on: the handler puts back the version it worked on, which
has no cluster and might have another one created. With migration, the event of the binding, on its
way already, replaces it before it can be used (`Overtaken`); without, it is put back only while it waits
for a cluster, and such a version is not scheduled anew (`Waiting`). Both halves are claimed where users
change the application only while nothing is under way and the scheduler is not restarted
(`Undisturbed`): a user's update brings a second version, and a restart a second listing. The types
hold always. One lemma per action and half (`TakeAppTyped`, `TakeAppKeeps` ...), on `TargetOutcome`, which says
what the handler does about a cluster that was found, and `FrameStep` for the steps that have no part in
it; `SchedulerInvariant` combines them, for any clusters, clouds, metrics and limits of retries.

`ChosenFulfils` is about the choice alone, for any wish and any places: constraints on labels, custom
resources and metrics hold wherever something is sent. `EvaluateYes` and `MatchesFulfils` say that a
yes is the yes of every constraint; `LocationMatches`, `CloudMatches` and `ProjectFulfils` that no
preference - metrics over none, clusters over clouds, staying over moving - and no second reading of
the metrics brings back a place that did not match; `UsableReads` that a cluster which is online after
its metrics were fetched has none that failed. `ChosenIsAllowed` is the same on the cases of the run, with
the meaning of each constraint spelled out.

**ClusterLifeProofs.** The same for infrastructure, with two controllers that write the whole status
of one cluster. `Vouches` says of a version that is not in deletion that its finalizer is in the
database and that it has one if it has an infrastructure; `CopyFits` says with which copy a handler
may be where. The part that is hard to see in the code is the last one of `FinalizerKept`: the *other*
controller may write back a status with an id, so whatever it holds must stand for a cluster that is
held or in deletion. `ClusterInvariant` and `InfrastructureUnderFinalizer`.

`NoneLost` and `UnfinishedUnobserved` need more, since one action of one controller with one old copy
can break them. Four parts are added, and `ProvisioningInv` is the inductive invariant:

* `CopiesCoherent`, in all scenarios: every version stored, under way or held has parts that fit -
  an id when the cluster runs, no id when it is PENDING, a finalizer or a kubeconfig only when it is
  scheduled, finalizers in one of four lists - and what a controller holds, it has accepted.
* `ObserverInformed`, in all scenarios: the last version under way to the cluster controller is the
  present one, and with none under way, its queue or its observer has the present one, unless it
  does not accept it. So an unfinished cluster with a kubeconfig is not observed.
* `KubeconfigStays`, if versions arrive in time: before the database has a kubeconfig the cluster
  controller holds nothing that it could write back, and the handler that adds the finalizer does so
  once, so that no body without kubeconfig replaces one with it.
* `IdsTracked`, in regular scenarios (`Regular`): nothing else exists when an infrastructure is created
  or the finalizer taken away; what exists is named by the handler's copy, and from the moment its id is
  saved by the database, by every version under way and by every copy that may be written back.
  There are two exceptions: a version in the queue that another one is about to replace (`Comes`), and an
  observer of the infrastructure before, which is gone, so that the observer has nothing to report
  (`Blind`). That observer is why `CreatesAlone` speaks of what it may find.

The proof says for each kind of step what it does to the handler's copy (`Goes`, `HandlerGoes`), to the
cluster (`HandlerDb`, `OthersDb`, `ClusterMoves`), to the feeds (`FeedsMove`), to the queue (`QueueMoves`) and
to IM (`ImMoves`); with these every part has one lemma (`CopiesCoherentStep`, `ObserverInformedStep`,
`KubeconfigStaysStep`, `IdsTrackedStep`) and `ProvisioningInvariant` combines them. The numbers of ids,
templates, versions under way and failures are arbitrary.

**MagnumControllerProofs.** `MagnumNoneLost` and `OneKubernetesCluster` say what is left behind; why nothing
is, depends on all the copies of the cluster that are about. `MagnumKept`, with the type, is the
inductive invariant. `SchedulerFirst`: the scheduler is done before the controller begins, although it
may handle a version twice (`MagnumRebound`) - nothing has been created by then, and the
controller's queue is empty until the cluster has a project. `FeedsCurrent`: what is under way is the
present version or one of a cluster in deletion. `QueueCurrent`: a version to be handled tells the project,
the id and the name in the database, or is about to be replaced by one that is under way. `CopyCurrent`
says the same of the handler's copy, except for the id of what it has just created or has given up and the
name it is about to save; the state must be CREATING from the creation on, since a
PENDING version with an id would be created for a second time (`Honest`). `RunsKnown` and `KubesNamed`
relate OpenStack and the Kubernetes clusters to that. The types hold in all scenarios, the rest in those that
`Regular` describes, for any number of projects. The proof has one lemma per
step (`ReceiveStep` to `CollectStep`), on `SaveStatusKeeps` and `WriteArrives`, which say what a write does to
all copies; `MagnumInvariant` combines them.

**CatalogueProofs.** Three arguments. *Routing*: `RoutedAsAsked` goes through the kinds, the methods of
their clients and the templates of their paths and shows that the router finds the handler that the
method is meant for; it is where a wrong entry in the table of kinds would fail. *Revisions*: as in
`ApiTransactions`, a row with the revision that was loaded is the row that was loaded (`Decided`), but
here beside a garbage collector and a tool that write without the API, so the invariant also has to
hold for rows that they bring back (`StoreKept`, `Aged`). `CatalogueInvariant` follows by one lemma per
step of a request (`StartFine` to `CommitFine`), with what each handler decides in `OutcomeProper`; from
it `NobodyOverwrites` (`NeverOverwritten`) and `RequestsKeepApart` (`HandlersKeepApart`). *Rollback*:
that everything is as before at the end says nothing about how the tool got there. `Undoable` says
where each key stands that nobody else wrote: untouched, cleared, replaced by exactly one insertion
that remembers what it replaced, or *contested* by two insertions - the files may name a key twice -
and then the rollback of one of them meets the revision of the other and raises an exception, so that
it does not end as if it had restored everything. `RollbackInvariant`, by one lemma per step of the
tool; the proof needs that insertions differ in their revisions (`JobOrder`) and that what others do
moves a key out of the statement (`OthersKeepUndo`).

**Only model-checked:**

* liveness (`CallsReturn`, `NewestHandled`, `RequestsAnswered`, `DeletionCompletes`, `Converges`,
  `Settles`, `DeletionEnds`, `Provisioned`, `HealthTold`, `MagnumDeletionEnds`, `MagnumServes`),
  which TLAPS does not cover;
* `CascadeInv` and `DependentsFirst`: they are false for arbitrary scenarios - a diamond is taken for
  a cycle (`GCDiamond`), an application that is unbound keeps its mark - so that a proof would have
  to be about forests, which is induction over the graph. What `CheckForCycles` computes is
  defined by recursion and stays with TLC as well;
* `CommandsExact` and `AccessByRoles` of the catalogue: what options make of a resource is a function
  of finitely many commands, which TLC enumerates, and the order of role bindings is a filtered
  sequence, which the provers do not expand;
* of the scheduler `LanguageSound` and `RankingSound`, which are about sentences and sums of fractions (folds
  and products, which the provers do not reach), what the single constraints mean, and `BindingsStay`.

## 5. Plan

Done: work queue, API and garbage collector, because every controller rests on the first two
and the third is the one cascade that spans all resources; the application controller; the
scheduler; the cluster, infrastructure and Magnum controllers; all other resources with client,
`krakectl`, access control and the bootstrap tool.

Next, in this order:

1. **Controller runtime**: `BurstWindow`, task supervision, `Executor`.
2. **Contents of objects**: observer schema, last applied and last observed manifest and the delta
   between them; the complete hook; TOSCA.
3. Two applications in the scheduler, which share a cluster created for one of them.

## 6. Not modelled

TLS, HTTP and JSON encoding, logging, configuration files, the output of commands and `rok`, code
generation and deployment: they are input and output without a protocol of their own. Keystone,
Keycloak, IM, OpenStack, etcd, metric providers and Kubernetes are external and appear by what
their clients in the repository rely on. The supervision of tasks (`BurstWindow`, `joint`, signals)
only ends the process; a restart is modelled instead, at any point. With `max_retry = 0`, which the
documentation allows, `BurstWindow` indexes an empty list and computes a remainder by zero.
The contents of Kubernetes objects, the mangling of manifests by hooks (environment variables,
certificates), TOSCA translation and the observer schema are data without interleaving of their
own. The validation of names and labels by patterns is left out. The bound `maxsize` of a work queue
is unused. Names that are re-created are part of `ApiTransactions` and `Catalogue`, not of
`GarbageCollector`. Forced deletion and the complete hook are part of `ApiTransactions` but not of
`ApplicationController`, nor are clusters that are deleted while applications run on them.
