------------------------ MODULE ApplicationController ------------------------
(***************************************************************************)
(* The life of one application: the Kubernetes application controller      *)
(* (krake/controller/kubernetes/application/application.py) that creates,  *)
(* migrates and deletes its objects on clusters, the detached task of its  *)
(* shutdown hook, its observer, and those who write the same resource: the *)
(* scheduler, users and the garbage collector.                             *)
(*                                                                         *)
(* Handlers of the API take effect in one step (AtomicApi) and the work    *)
(* queue holds the newest accepted version (KeyedQueue); there is one      *)
(* application, hence at most one busy worker.  An action is the code up   *)
(* to the next request to the API or to a cluster.                         *)
(*                                                                         *)
(* Of the timestamps only the order of `modified' and                      *)
(* `kube_controller_triggered' matters: modified counts the updates, and a *)
(* trigger is dated by the update it follows (0: never).  A manifest is    *)
(* the set of its objects; their contents are left out.                    *)
(***************************************************************************)
EXTENDS Naturals, FiniteSets, SequencesExt

CONSTANTS
    Clusters,
    Objects,         \* the Kubernetes objects a manifest may contain
    Manifests,       \* the manifests users submit
    Null,
    ShutdownRetries, \* failure_retry_count of the shutdown hook
    Scenarios        \* see AllScenarios

Guard == "kubernetes_resources_deletion"
Cascade == "cascade_deletion"

\* COMPLETED is treated by every controller like RESTARTING
States == {"PENDING", "CREATING", "RUNNING", "RECONCILING", "MIGRATING", "DELETING",
           "WAITING_FOR_CLEANING", "READY_FOR_ACTION", "RESTARTING", "DEGRADED", "FAILED"}
Places == Clusters \cup {Null}
\* applied, observed: last_applied_manifest and last_observed_manifest;
\* grace: shutdown_grace_period is set
Statuses == [state: States, scheduled_to: Places, running_on: Places,
             applied: SUBSET Objects, observed: SUBSET Objects,
             triggered: Nat, grace: BOOLEAN]
Apps == [deleted: BOOLEAN, finalizers: Seq({Guard, Cascade}), owners: SUBSET Clusters,
         modified: Nat, manifest: SUBSET Objects, status: Statuses]

\* A running coroutine: the worker in resource_received, or the shutdown task.
\* orig: the value taken from the queue, app: the copy that is worked on, old: the
\* copy that a migration with volumes keeps; rm, add: objects to delete and to apply
Jobs == {"reconcile", "migrate", "volumes", "rollback", "delete", "shutdown"}
Points == {"read", "finalizer", "mark", "remove", "apply", "transfer", "status",
           "update", "trigger", "check", "give_up", "failed", "error"}
Coroutines == [job: Jobs, pc: Points, orig: Apps, app: Apps, old: Apps \cup {Null},
               rm: SUBSET Objects, add: SUBSET Objects, tries: Nat]
Procs == {"worker", "task"}
\* The observer has its own copy of the application; poll: the status it is about to
\* report, or Null
Observers == [app: Apps, poll: Statuses \cup {Null}]

\* What may happen, and how often: updates by the user (shrink: one that takes objects
\* out of the manifest), deletion, scheduling to another cluster, objects that vanish,
\* changes of the health of containers, to a degraded one too, errors of a cluster,
\* restarts of the controller, answers of the application to the shutdown request,
\* retries of a shutdown
Kinds == {"update", "shrink", "delete", "move", "drift", "health", "degrade", "fail", "crash",
          "confirm", "retry"}
\* orderly: scheduling decisions rest on the current version, and the application is
\* updated, moved or deleted only while nothing else is under way; prompt: the
\* controller takes a version only when it has received the newest one; lag: bound, versions the
\* watch may be behind
AllScenarios == [orderly: BOOLEAN, prompt: BOOLEAN, lag: Nat, hooked: BOOLEAN, volumes: BOOLEAN,
                 strategy: {"delete", "give_up"}, manifest: Manifests, budget: [Kinds -> Nat]]

ASSUME ApplicationAssumption ==
    /\ Manifests \subseteq (SUBSET Objects) \ {{}}
    /\ Null \notin Clusters /\ Null \notin Apps /\ Null \notin Statuses
    /\ Null \notin Coroutines /\ Null \notin Observers
    /\ ShutdownRetries \in Nat
    /\ Scenarios \subseteq AllScenarios

VARIABLES
    db,        \* the application in the database, or Null
    objects,   \* [Clusters -> SUBSET Objects]: what exists on a cluster
    stream,    \* versions sent to the reflector of the controller
    pending,   \* the version in the work queue, or Null
    proc,      \* [Procs -> coroutine or Null]
    observer,  \* the observer of the application, or Null
    sched,     \* the version the scheduler works on, or Null
    scenario,
    left       \* what may still happen

world == <<objects, scenario>>
vars == <<db, objects, stream, pending, proc, observer, sched, scenario, left>>

\* A new application
Submitted(m) ==
    [deleted |-> FALSE, finalizers |-> <<>>, owners |-> {}, modified |-> 1, manifest |-> m,
     status |-> [state |-> "PENDING", scheduled_to |-> Null, running_on |-> Null,
                 applied |-> {}, observed |-> {}, triggered |-> 0, grace |-> FALSE]]

Init ==
    /\ scenario \in Scenarios
    /\ left = scenario.budget
    /\ db = Submitted(scenario.manifest)
    /\ objects = [c \in Clusters |-> {}]
    /\ stream = <<>>
    /\ pending = Null
    /\ proc = [p \in Procs |-> Null]
    /\ observer = Null
    /\ sched = Null

Spend(kind) == left[kind] > 0 /\ left' = [left EXCEPT ![kind] = @ - 1]

-----------------------------------------------------------------------------
(* The API: every version stored is sent to the watchers.                  *)

Save(a) ==
    /\ Len(stream) < scenario.lag
    /\ db' = a
    /\ stream' = Append(stream, a)
Erase == db' = Null /\ UNCHANGED stream

\* update_application_status
UpdateStatus(status) == db # Null /\ Save([db EXCEPT !.status = status])

\* update_application: refused without a change, or if finalizers are added in deletion
Allowed(body) ==
    /\ db # Null /\ body # db
    /\ db.deleted => ToSet(body.finalizers) \subseteq ToSet(db.finalizers)
\* Faulty variant of UpdateApplication: without finalizers the application stays
UpdateKeeps(body) ==
    /\ Allowed(body)
    /\ Save([db EXCEPT !.finalizers = body.finalizers, !.owners = body.owners,
                       !.manifest = body.manifest, !.modified = @ + 1])
UpdateApplication(body) ==
    /\ Allowed(body)
    /\ IF db.deleted /\ body.finalizers = <<>> THEN Erase
       ELSE Save([db EXCEPT !.finalizers = body.finalizers, !.owners = body.owners,
                            !.manifest = body.manifest, !.modified = @ + 1])

\* Faulty variants of Bind: the cluster does not become an owner; what was observed
\* on the former cluster is forgotten
BindDisowned(c) ==
    /\ db # Null
    /\ Save([db EXCEPT !.status.scheduled_to = c, !.status.triggered = db.modified])
BindForgets(c) ==
    /\ db # Null
    /\ Save([db EXCEPT !.owners = @ \cup {c}, !.status.scheduled_to = c,
                       !.status.triggered = db.modified, !.status.observed = {}])

\* update_application_binding
Bind(c) ==
    /\ db # Null
    /\ Save([db EXCEPT !.owners = @ \cup {c}, !.status.scheduled_to = c,
                       !.status.triggered = db.modified])

-----------------------------------------------------------------------------
(* The reflector of the controller, and a restart                          *)

\* Faulty variant of ScheduledOrDeleting: an update is never older than its scheduling
ScheduledLater(a) ==
    IF a.deleted THEN a.finalizers # <<>> /\ Last(a.finalizers) = Guard
    ELSE a.status.state # "FAILED" /\ a.status.triggered > a.modified

\* scheduled_or_deleting
ScheduledOrDeleting(a) ==
    IF a.deleted THEN a.finalizers # <<>> /\ Last(a.finalizers) = Guard
    ELSE /\ a.status.state # "FAILED"
         /\ a.status.triggered > 0 /\ a.status.triggered >= a.modified

\* simple_on_receive
Receive ==
    /\ stream # <<>>
    /\ stream' = Tail(stream)
    /\ pending' = IF ScheduledOrDeleting(Head(stream)) THEN Head(stream) ELSE pending
    /\ UNCHANGED <<db, world, proc, observer, sched, left>>

\* register_observer, which fails for an application that runs nowhere
Watching(a) == IF a.status.running_on = Null THEN Null ELSE [app |-> a, poll |-> Null]
Register(a) == observer' = Watching(a)

\* The controller dies and is started again: list_app on what the API returns
Restart ==
    /\ Spend("crash")
    /\ proc' = [p \in Procs |-> Null]
    /\ stream' = <<>>
    /\ pending' = IF db # Null /\ ScheduledOrDeleting(db) THEN db ELSE Null
    /\ observer' = IF db = Null THEN Null ELSE Watching(db)
    /\ UNCHANGED <<db, world, sched>>

-----------------------------------------------------------------------------
(* The worker                                                              *)

Coroutine(job, pc, a, rm, add) ==
    [job |-> job, pc |-> pc, orig |-> a, app |-> a, old |-> Null, rm |-> rm, add |-> add,
     tries |-> 0]

Hooked == scenario.hooked
\* Faulty variant of FirstPoint: the finalizer is not added
FirstPointUnguarded(a) == "mark"

\* _ensure_finalizer: a request only if the finalizer is missing
FirstPoint(a) == IF Guard \in ToSet(a.finalizers) THEN "mark" ELSE "finalizer"

\* update_last_applied_manifest_from_spec
UpdateLastApplied(a) == [a EXCEPT !.status.applied = a.manifest]

\* ResourceDelta.calculate, without the objects whose contents changed
ResourceDelta(a) == [new |-> a.manifest \ a.status.observed,
                     deleted |-> a.status.observed \ a.manifest]

\* resource_received: what is done with a version, none for nothing at all.  A
\* reconciliation sets last_applied_manifest in its copy before it does anything else,
\* so that its mark already stores it.
Dispatch(a) ==
    LET s == a.status
        moved == s.running_on # Null /\ s.running_on # s.scheduled_to
        delta == ResourceDelta(a)
    IN  CASE a.deleted /\ Hooked /\ s.state = "WAITING_FOR_CLEANING" ->
               IF s.grace THEN Null ELSE Coroutine("shutdown", "trigger", a, {}, {})
          [] a.deleted /\ (~Hooked \/ s.state = "READY_FOR_ACTION") ->
               Coroutine("delete", "mark", a, IF s.running_on = Null THEN {} ELSE s.observed, {})
          [] ~a.deleted /\ moved /\ Hooked /\ s.state \in {"RUNNING", "RECONCILING"} ->
               Coroutine("shutdown", "mark", a, {}, {})
          [] ~a.deleted /\ moved /\ Hooked /\ s.state = "WAITING_FOR_CLEANING" ->
               IF s.grace THEN Null ELSE Coroutine("shutdown", "trigger", a, {}, {})
          [] ~a.deleted /\ moved /\ (~Hooked \/ s.state = "READY_FOR_ACTION") ->
               IF scenario.volumes THEN Coroutine("volumes", "read", a, {}, {})
               ELSE Coroutine("migrate", FirstPoint(a), a, s.observed, a.manifest)
          [] ~a.deleted /\ ~moved ->
               IF s.scheduled_to = Null THEN Coroutine("reconcile", "failed", a, {}, {})
               ELSE [Coroutine("reconcile", FirstPoint(a), a, delta.deleted, delta.new)
                       EXCEPT !.app = UpdateLastApplied(a)]
          [] OTHER -> Null

\* The observer is stopped for everything but the shutdown
Touches(w) == w # Null /\ w.job # "shutdown"
UpToDate(w) == w.job = "reconcile" /\ w.pc # "failed" /\ w.rm = {} /\ w.add = {}

\* handle_resource: get.  The observer is stopped before objects are touched and
\* started at once if there is nothing to change.
Get ==
    /\ proc["worker"] = Null
    /\ pending # Null
    /\ scenario.prompt => stream = <<>>
    /\ pending' = Null
    /\ LET w == Dispatch(pending) IN
       IF ~Touches(w)
         THEN proc' = [proc EXCEPT !["worker"] = w] /\ UNCHANGED observer
       ELSE IF UpToDate(w)
         THEN /\ Register(UpdateLastApplied(pending))
              /\ UNCHANGED proc
       ELSE proc' = [proc EXCEPT !["worker"] = w] /\ observer' = Null
    /\ UNCHANGED <<db, world, stream, sched, left>>

\* _delete_manifest_async on the copy a, after the last object
Leave(a) == [a EXCEPT !.owners = @ \ {a.status.running_on}, !.status.running_on = Null]
\* the copy it is called with
Vacated(w) == IF w.job = "volumes" THEN w.old ELSE w.app
Running(a) == [a EXCEPT !.status.state = "RUNNING"]
Migrated(a) == [Running(a) EXCEPT !.status.grace = FALSE]

\* Every object of rm is deleted
Removed(w) ==
    IF w.job # "reconcile" /\ Vacated(w).status.running_on \notin Vacated(w).owners \cup {Null}
      THEN [w EXCEPT !.pc = "error"]
    ELSE CASE w.job = "reconcile" -> [w EXCEPT !.pc = "apply"]
           [] w.job = "migrate" ->
                [w EXCEPT !.pc = "apply",
                          !.app = UpdateLastApplied(Leave(w.app))]
           [] w.job = "delete" ->
                [w EXCEPT !.pc = "status",
                          !.app = [Leave(w.app) EXCEPT !.finalizers = Front(@)]]
           [] w.job = "volumes" -> [w EXCEPT !.pc = "status", !.app = Migrated(w.app)]
           [] w.job = "rollback" ->
                [w EXCEPT !.pc = "status",
                          !.app = [Migrated(w.old) EXCEPT
                                     !.status.scheduled_to = w.old.status.running_on]]

\* Faulty variant of Applied: the status does not say where the application runs
AppliedUnplaced(w) ==
    CASE w.job = "reconcile" -> [w EXCEPT !.pc = "status", !.app = Running(w.app)]
      [] w.job = "migrate"   -> [w EXCEPT !.pc = "status", !.app = Migrated(w.app)]
      [] w.job = "volumes"   -> [w EXCEPT !.pc = "transfer"]

\* _apply_manifest: every object of add is applied
Applied(w) ==
    LET here == [w.app EXCEPT !.status.running_on = w.app.status.scheduled_to]
    IN  CASE w.job = "reconcile" -> [w EXCEPT !.pc = "status", !.app = Running(here)]
          [] w.job = "migrate"   -> [w EXCEPT !.pc = "status", !.app = Migrated(here)]
          [] w.job = "volumes"   -> [w EXCEPT !.pc = "transfer", !.app = here]

\* The code between two requests
Settled(w) ==
    LET r == IF w.pc = "remove" /\ w.rm = {} THEN Removed(w) ELSE w
    IN  IF r.pc = "apply" /\ r.add = {} THEN Applied(r) ELSE r

Continue(p, w) == proc' = [proc EXCEPT ![p] = Settled(w)]
Return(p) == proc' = [proc EXCEPT ![p] = Null]

\* The end of resource_received; a migration with volumes registers the observer
\* with the copy made before it
Finish(p, w) ==
    /\ Return(p)
    /\ IF p = "worker" /\ w.job \in {"reconcile", "migrate"} THEN Register(w.app)
       ELSE IF w.job \in {"volumes", "rollback"} THEN Register(w.orig)
       ELSE UNCHANGED observer

\* _migrate_application_with_volumes: the application is read again
Reload(p) ==
    /\ proc[p] # Null /\ proc[p].pc = "read" /\ db # Null
    /\ IF db.status.scheduled_to = db.status.running_on
         THEN Finish(p, proc[p])
         ELSE /\ Continue(p, [proc[p] EXCEPT !.pc = FirstPoint(db), !.app = db])
              /\ UNCHANGED observer
    /\ UNCHANGED <<db, world, stream, pending, sched, left>>

\* The copy that a status update sends
Marked(w) ==
    LET mark == CASE w.job = "delete"    -> "DELETING"
                  [] w.job = "reconcile" ->
                       IF w.app.status.running_on = Null THEN "CREATING" ELSE "RECONCILING"
                  [] w.job = "shutdown"  -> "WAITING_FOR_CLEANING"
                  [] OTHER               -> "MIGRATING"
    IN  CASE w.pc = "mark"    -> [w.app EXCEPT !.status.state = mark]
          [] w.pc = "trigger" -> [w.app EXCEPT !.status.grace = TRUE]
          [] w.pc = "give_up" -> [w.app EXCEPT !.status.state = "DEGRADED"]
          [] w.pc = "failed"  -> [w.orig EXCEPT !.status.state = "FAILED"]
          [] OTHER            -> w.app

\* update_application_status, by the worker or the shutdown task
SendStatus(p) ==
    LET w == proc[p]
        a == Marked(w)
    IN  /\ w # Null /\ w.pc \in {"mark", "trigger", "status", "give_up", "failed"}
        /\ UpdateStatus(a.status)
        /\ \/ /\ \/ w.pc = "failed"
                 \/ w.pc = "mark" /\ w.job = "shutdown" /\ w.app.status.grace
              /\ Return(p)
              /\ UNCHANGED observer
           \/ /\ w.pc = "mark" /\ ~(w.job = "shutdown" /\ w.app.status.grace)
              /\ Continue(p,
                   CASE w.job = "shutdown" -> [w EXCEPT !.pc = "trigger", !.app = a]
                     [] w.job = "volumes" ->
                          [w EXCEPT !.pc = "apply", !.old = a, !.add = a.manifest,
                                    !.app = UpdateLastApplied(a)]
                     [] OTHER -> [w EXCEPT !.pc = "remove", !.app = a])
              /\ UNCHANGED observer
           \/ /\ w.pc = "trigger"   \* bound: one shutdown task at a time
              /\ proc["task"] = Null
              /\ proc' = [proc EXCEPT ![p] = Null,
                            !["task"] = [w EXCEPT !.pc = "check", !.app = a,
                                                  !.tries = ShutdownRetries + 1]]
              /\ UNCHANGED observer
           \/ /\ w.pc = "status" /\ w.job \in {"migrate", "delete"}
              /\ Continue(p, [w EXCEPT !.pc = "update"])
              /\ UNCHANGED observer
           \/ /\ w.pc = "give_up" \/ (w.pc = "status" /\ w.job \notin {"migrate", "delete"})
              /\ Finish(p, w)
        /\ UNCHANGED <<world, pending, sched, left>>

\* update_application: the finalizer of the controller, or the owners and finalizers
\* at the end of a migration or deletion
SendUpdate(p) ==
    LET w == proc[p]
        a == IF w.pc = "finalizer" THEN [w.app EXCEPT !.finalizers = Append(@, Guard)]
             ELSE w.app
    IN  /\ w # Null /\ w.pc \in {"finalizer", "update"}
        /\ UpdateApplication(a)
        /\ \/ /\ w.pc = "finalizer"
              /\ Continue(p, [w EXCEPT !.pc = "mark", !.app = a])
              /\ UNCHANGED observer
           \/ w.pc = "update" /\ Finish(p, w)
        /\ UNCHANGED <<world, pending, sched, left>>

\* The request is refused, or the cluster to leave is not among the owners: the
\* exception ends the handling
Refused(p) ==
    LET w == proc[p] IN
    /\ w # Null
    /\ \/ w.pc \in {"read", "mark", "trigger", "status", "give_up", "failed"} /\ db = Null
       \/ w.pc = "finalizer"
          /\ ~Allowed([w.app EXCEPT !.finalizers = Append(@, Guard)])
       \/ w.pc = "update" /\ ~Allowed(w.app)
       \/ w.pc = "error"
    /\ Return(p)
    /\ UNCHANGED <<db, world, stream, pending, observer, sched, left>>

\* kube.delete_async and the hook after it
KubeDelete(p) ==
    LET w == proc[p]
        c == IF w.job = "reconcile" THEN w.app.status.scheduled_to
             ELSE Vacated(w).status.running_on
    IN  /\ w # Null /\ w.pc = "remove"
        /\ \E o \in w.rm :
             /\ objects' = [objects EXCEPT ![c] = @ \ {o}]
             /\ Continue(p, [w EXCEPT !.rm = @ \ {o},
                               !.app.status.observed = IF w.job = "volumes" THEN @ ELSE @ \ {o}])
        /\ UNCHANGED <<db, stream, pending, observer, sched, scenario, left>>

\* kube.apply and the hooks after it
KubeApply(p) ==
    LET w == proc[p] IN
    /\ w # Null /\ w.pc = "apply"
    /\ \E o \in w.add :
         /\ objects' = [objects EXCEPT ![w.app.status.scheduled_to] = @ \cup {o}]
         /\ Continue(p, [w EXCEPT !.add = @ \ {o}, !.app.status.observed = @ \cup {o}])
    /\ UNCHANGED <<db, stream, pending, observer, sched, scenario, left>>

\* transfer_data, which succeeds or gives up
Transfer(p) ==
    /\ proc[p] # Null /\ proc[p].pc = "transfer"
    /\ \E job \in {"volumes", "rollback"} :
         LET w == [proc[p] EXCEPT !.pc = "remove", !.job = job]
         IN  Continue(p, [w EXCEPT !.rm = Vacated(w).status.observed])
    /\ UNCHANGED <<db, world, stream, pending, observer, sched, left>>

\* A cluster answers with an error.  handle_resource reports it on the version that
\* it took from the queue; an exception in the shutdown task is only logged.
ClusterError(p) ==
    LET w == proc[p] IN
    /\ w # Null /\ w.pc \in {"remove", "apply"}
    /\ Spend("fail")
    /\ IF p = "worker" THEN Continue(p, [w EXCEPT !.pc = "failed"]) ELSE Return(p)
    /\ UNCHANGED <<db, world, stream, pending, observer, sched>>

\* Faulty variant of CheckShutdown: no limit to the tries
CheckShutdownForever ==
    LET w == proc["task"] IN
    /\ w # Null /\ w.pc = "check"
    /\ IF db = Null THEN Return("task") ELSE Continue("task", [w EXCEPT !.tries = @ - 1])
    /\ UNCHANGED <<db, world, stream, pending, observer, sched, left>>

\* _run_app_shutdown_async: the application was asked to shut down, and the grace
\* time is over; after the last try the failure strategy is applied
CheckShutdown ==
    LET w == proc["task"] IN
    /\ w # Null /\ w.pc = "check"
    /\ IF db = Null THEN Return("task")
       ELSE Continue("task",
              IF w.tries > 1 THEN [w EXCEPT !.tries = @ - 1]
              ELSE IF scenario.strategy = "delete"
                THEN [w EXCEPT !.tries = 0, !.job = "delete", !.pc = "mark",
                               !.rm = IF w.app.status.running_on = Null THEN {}
                                      ELSE w.app.status.observed]
                ELSE [w EXCEPT !.tries = 0, !.pc = "give_up"])
    /\ UNCHANGED <<db, world, stream, pending, observer, sched, left>>

-----------------------------------------------------------------------------
(* The observer: it polls the objects that were applied, and sends its own *)
(* copy of the status if something differs.                                *)

\* poll_resource: the state of the application follows the health of its containers
Poll ==
    /\ observer # Null /\ observer.poll = Null
    /\ LET s == observer.app.status
           seen == objects[s.running_on] \cap s.applied
       IN  \E state \in {s.state, "RUNNING", "RESTARTING", "DEGRADED"} :
             /\ \/ state = s.state /\ seen # s.observed /\ UNCHANGED left
                \/ state # "DEGRADED" /\ Spend("health")
                \/ state = "DEGRADED" /\ Spend("degrade")
             /\ observer' = [observer EXCEPT !.poll = [s EXCEPT !.observed = seen, !.state = state]]
    /\ UNCHANGED <<db, world, stream, pending, proc, sched>>

\* on_status_update; the observer goes on with what the API returns
Observe ==
    /\ observer # Null /\ observer.poll # Null
    /\ db # Null
    /\ LET status == [observer.poll EXCEPT !.triggered = db.modified]
       IN  UpdateStatus(status) /\ Register([db EXCEPT !.status = status])
    /\ UNCHANGED <<world, pending, proc, sched, left>>

-----------------------------------------------------------------------------
(* The scheduler                                                           *)

\* received_kubernetes_app accepts a version that was modified since it was scheduled
Unscheduled(a) ==
    /\ ~a.deleted
    /\ a.status.triggered < a.modified
    /\ a.status.state \notin {"FAILED", "DEGRADED"}

SchedulerTake ==
    /\ ~scenario.orderly
    /\ sched = Null
    /\ db # Null /\ Unscheduled(db)
    /\ sched' = db
    /\ UNCHANGED <<db, world, stream, pending, proc, observer, left>>

Version == IF scenario.orderly THEN db ELSE sched

\* schedule_kubernetes_application: the first decision, or the same as before
Schedule ==
    /\ Version # Null /\ Unscheduled(Version)
    /\ sched' = Null
    /\ \/ Version.status.scheduled_to = Null /\ \E c \in Clusters : Bind(c)
       \/ /\ db # Null /\ Version.status.scheduled_to # Null
          /\ UpdateStatus([Version.status EXCEPT !.triggered = db.modified])
       \/ db = Null /\ UNCHANGED <<db, stream>>
    /\ UNCHANGED <<world, pending, proc, observer, left>>

\* Nothing is under way
AtRest ==
    /\ stream = <<>> /\ pending = Null /\ sched = Null
    /\ \A p \in Procs : proc[p] = Null
    /\ db # Null => ~Unscheduled(db)

Timely == scenario.orderly => AtRest

\* schedule_kubernetes_application: another cluster is better
Move(c) ==
    /\ Timely
    /\ db # Null /\ ~db.deleted
    /\ db.status.scheduled_to \notin {Null, c}
    /\ Spend("move")
    /\ Bind(c)
    /\ UNCHANGED <<world, pending, proc, observer, sched>>

-----------------------------------------------------------------------------
(* Users, the application itself, the garbage collector, and the clusters  *)

UserUpdate(m) ==
    /\ Timely
    /\ db # Null /\ m # db.manifest
    /\ Spend(IF db.manifest \subseteq m THEN "update" ELSE "shrink")
    /\ UpdateApplication([db EXCEPT !.manifest = m])
    /\ UNCHANGED <<world, pending, proc, observer, sched>>

\* delete_application
UserDelete ==
    /\ Timely
    /\ db # Null /\ ~db.deleted
    /\ Spend("delete")
    /\ Save([db EXCEPT !.deleted = TRUE, !.finalizers = Append(@, Cascade),
                       !.status.state = IF Hooked THEN "WAITING_FOR_CLEANING" ELSE @])
    /\ UNCHANGED <<world, pending, proc, observer, sched>>

\* update_application_shutdown: the application has shut down after it was asked to
Confirm ==
    /\ db # Null /\ db.status.grace
    /\ Spend("confirm")
    /\ IF db.status.state \in {"WAITING_FOR_CLEANING", "DEGRADED"}
         THEN Save([db EXCEPT !.status.state = "READY_FOR_ACTION", !.status.grace = FALSE])
         ELSE Save(db)
    /\ UNCHANGED <<world, pending, proc, observer, sched>>

\* retry_application
Retry ==
    /\ db # Null /\ db.status.state = "DEGRADED"
    /\ Spend("retry")
    /\ Save([db EXCEPT !.status.state = "WAITING_FOR_CLEANING", !.status.grace = FALSE])
    /\ UNCHANGED <<world, pending, proc, observer, sched>>

\* The garbage collector removes its finalizer: an application owns nothing
Collect ==
    /\ db # Null /\ db.deleted
    /\ db.finalizers # <<>> /\ Last(db.finalizers) = Cascade
    /\ UpdateApplication([db EXCEPT !.finalizers = Front(@)])
    /\ UNCHANGED <<world, pending, proc, observer, sched, left>>

\* An object vanishes from a cluster
Drift(c) ==
    /\ Spend("drift")
    /\ \E o \in objects[c] : objects' = [objects EXCEPT ![c] = @ \ {o}]
    /\ UNCHANGED <<db, stream, pending, proc, observer, sched, scenario>>

-----------------------------------------------------------------------------
Step(p) ==
    \/ Reload(p) \/ SendStatus(p) \/ SendUpdate(p) \/ Refused(p)
    \/ KubeDelete(p) \/ KubeApply(p) \/ Transfer(p)

Next ==
    \/ Receive \/ Restart \/ Get
    \/ \E p \in Procs : Step(p) \/ ClusterError(p)
    \/ CheckShutdown
    \/ Poll \/ Observe
    \/ SchedulerTake \/ Schedule
    \/ \E c \in Clusters : Move(c) \/ Drift(c)
    \/ \E m \in Manifests : UserUpdate(m)
    \/ UserDelete \/ Confirm \/ Retry \/ Collect

Spec == Init /\ [][Next]_vars

Fairness ==
    /\ WF_vars(Receive) /\ WF_vars(Get) /\ WF_vars(CheckShutdown)
    /\ WF_vars(Poll) /\ WF_vars(Observe)
    /\ \A p \in Procs : WF_vars(Step(p))
    /\ WF_vars(SchedulerTake) /\ WF_vars(Schedule) /\ WF_vars(Collect)

FairSpec == Spec /\ Fairness

-----------------------------------------------------------------------------
(* Properties                                                              *)

\* The shape of the state.
TypeOK ==
    /\ db \in Apps \cup {Null}
    /\ objects \in [Clusters -> SUBSET Objects]
    /\ stream \in Seq(Apps)
    /\ pending \in Apps \cup {Null}
    /\ proc \in [Procs -> Coroutines \cup {Null}]
    /\ observer \in Observers \cup {Null}
    /\ sched \in Apps \cup {Null}
    /\ scenario \in Scenarios /\ left \in [Kinds -> Nat]

Guarded == db # Null /\ Guard \in ToSet(db.finalizers)
Gone == db = Null \/ db.deleted

\* Where a coroutine of each job can be.  A migration with volumes that is past its
\* mark keeps the former copy.
Phases(w) ==
    /\ w.job = "reconcile" => w.pc \in {"finalizer", "mark", "remove", "apply", "status", "failed"}
    /\ w.job = "migrate" => w.pc \in {"finalizer", "mark", "remove", "apply", "status",
                                      "update", "failed", "error"}
    /\ w.job = "volumes" => w.pc \in {"read", "finalizer", "mark", "apply", "transfer",
                                      "remove", "status", "failed", "error"}
    /\ w.job = "rollback" => w.pc \in {"remove", "status", "failed", "error"}
    /\ w.job = "delete" => w.pc \in {"mark", "remove", "status", "update", "failed", "error"}
    /\ w.job = "shutdown" => w.pc \in {"mark", "trigger", "check", "give_up"}
    /\ w.job = "rollback" \/ (w.job = "volumes" /\ w.pc \in {"apply", "transfer", "remove"})
         => w.old # Null

JobsInPhase ==
    /\ \A p \in Procs : proc[p] # Null =>
         Phases(proc[p]) /\ (proc[p].job = "shutdown" \/ p = "task" => Hooked)
    /\ LET w == proc["task"] IN
       w # Null => w.job = "shutdown" \/ (w.job = "delete" /\ scenario.strategy = "delete")

\* Versions are received in the order they were stored: after a version in deletion
\* there is none that is not, and the application stays in deletion.
DeletionIsLast ==
    /\ \A i, j \in DOMAIN stream : i < j /\ stream[i].deleted => stream[j].deleted
    /\ \A i \in DOMAIN stream : stream[i].deleted => Gone
    /\ pending # Null /\ pending.deleted => Gone /\ \A i \in DOMAIN stream : stream[i].deleted
    /\ LET w == proc["worker"] IN
       w # Null =>
         /\ w.job = "delete" => w.orig.deleted
         /\ w.orig.deleted =>
              /\ Gone
              /\ \A i \in DOMAIN stream : stream[i].deleted
              /\ pending # Null => pending.deleted

\* Only the worker removes the finalizer of the controller.
WorkerReleases == ~(scenario.hooked /\ scenario.strategy = "delete")

\* A coroutine that creates objects, or is about to
Creating(w) ==
    w.job \in {"reconcile", "migrate", "volumes", "rollback"}
      /\ w.pc \notin {"read", "finalizer", "failed", "error"}

\* A version that has the finalizer and is not in deletion vouches for the finalizer
\* in the database: it is removed only after a version in deletion was received.
FinalizerHeld ==
    WorkerReleases =>
      /\ \A i \in DOMAIN stream :
           ~stream[i].deleted /\ Guard \in ToSet(stream[i].finalizers) => Guarded
      /\ pending # Null /\ ~pending.deleted /\ Guard \in ToSet(pending.finalizers) => Guarded
      /\ LET w == proc["worker"] IN
         w # Null /\ Creating(w) =>
           Guarded /\ (w.job = "migrate" => Guard \in ToSet(w.app.finalizers))

\* What the handlers of one application rely on while others write to it.
AppInv == TypeOK /\ JobsInPhase /\ DeletionIsLast /\ FinalizerHeld

\* Objects are created on a cluster only while the finalizer of the controller is
\* in the database, whatever was deleted, rescheduled or updated meanwhile.  Not so
\* where the shutdown task deletes: after the last try for a migration it removes the
\* finalizer of an application that is not in deletion.
GuardedApply ==
    [][WorkerReleases =>
         \A c \in Clusters : ~(objects'[c] \subseteq objects[c]) => Guarded]_vars

\* As long as an object exists on a cluster, the finalizer keeps the application in
\* the database, so that its deletion removes the object.
NoOrphans == \A c \in Clusters : objects[c] # {} => Guarded

\* Scenarios in which the application is handled in order: no cluster fails, an
\* application that may move has no shutdown hook and a controller that is prompt, and
\* no controller dies that has to take objects away.  A report of the observer from
\* before a move, handled as long after it, begins to create the objects on the former
\* cluster; and the mark of a reconciliation stores the new manifest as the applied
\* one, so that the observer of a controller started after it does not look for the
\* objects still to be removed, and its report makes everybody forget them.
Never(kind) == scenario.budget[kind] = 0
Sheltered ==
    /\ scenario.orderly /\ ~scenario.volumes
    /\ Never("fail")
    /\ Never("move") \/ (scenario.prompt /\ ~scenario.hooked)
    /\ Never("crash") \/ Never("shrink")

\* Scenarios in which what was begun ends: no application becomes DEGRADED, which no
\* update leaves, and one with a shutdown hook has a strategy that ends the shutdown,
\* and no restart, report or retry that makes the controller forget it
Steady ==
    /\ Sheltered /\ scenario.prompt /\ Never("degrade")
    /\ scenario.hooked => /\ scenario.strategy = "delete"
                          /\ \A kind \in {"health", "drift", "crash", "retry"} : Never(kind)

\* NoOrphans in these scenarios, with deletions of applications at rest: neither a
\* restart at any point nor the shutdown task that competes with the worker leaves
\* objects behind.
RecoveryLeavesNone == Sheltered => NoOrphans

\* An application runs on one cluster at a time, also when the controller dies
\* in the middle of a migration and begins again.
OneCluster ==
    Sheltered => \A c, d \in Clusters : objects[c] # {} /\ objects[d] # {} => c = d

\* A cluster that holds objects owns the application: the cluster cannot be deleted
\* before the application.
OwnersCover ==
    Sheltered => \A c \in Clusters : objects[c] # {} => db # Null /\ c \in db.owners

\* What a status says about the objects.  Within: they are on one cluster and among
\* those of the set; Known: where the application runs, and among those it knows of;
\* Explained: where it is scheduled to also those of the manifest may exist.
Within(objs, place, set) ==
    \A c \in Clusters : objs[c] \subseteq (IF c = place THEN set ELSE {})
Known(objs, s) == Within(objs, s.running_on, s.observed \cap s.applied)
Explained(objs, s, manifest, set) ==
    \A c \in Clusters : objs[c] \subseteq (IF c = s.scheduled_to THEN manifest ELSE {})
                                        \cup (IF c = s.running_on THEN set ELSE {})
Moved(s) == s.running_on # Null /\ s.running_on # s.scheduled_to
PlacesOf(s) == {s.scheduled_to, s.running_on} \ {Null}
Sane(s) ==
    /\ ~s.grace /\ s.state # "FAILED"
    /\ s.triggered > 0 => s.scheduled_to # Null
    /\ s.scheduled_to = Null => s.running_on = Null
    /\ s.running_on = Null => s.observed = {}
Sound(objs, a) ==
    /\ Sane(a.status) /\ PlacesOf(a.status) \subseteq a.owners
    /\ Explained(objs, a.status, a.manifest, a.status.observed)

\* The versions that the worker may take: with a prompt controller the last one that
\* is under way, otherwise any.
Accepted(s) == {i \in DOMAIN s : ScheduledOrDeleting(s[i])}
Awaited == pending # Null \/ Accepted(stream) # {}
Coming ==
    {stream[i] : i \in {j \in Accepted(stream) :
                         scenario.prompt => \A k \in Accepted(stream) : k <= j}}
      \cup (IF scenario.prompt /\ Accepted(stream) # {} THEN {} ELSE {pending} \ {Null})
Stuck == db.status.state = "DEGRADED" /\ db.status.triggered < db.modified
Alive == db # Null /\ ~db.deleted

\* The queue ends with the present version.
NewestLast ==
    /\ pending # Null => ScheduledOrDeleting(pending)
    /\ stream # <<>> /\ db # Null => Last(stream) = db
    /\ stream = <<>> /\ pending # Null /\ db # Null /\ ScheduledOrDeleting(db) => pending = db

\* Before the finalizer is there, nothing was created, and the version that was
\* scheduled is handled once.
Beginning ==
    LET w == proc["worker"] IN
    Alive /\ ~Guarded =>
      /\ \A c \in Clusters : objects[c] = {}
      /\ db.status.state = "PENDING" /\ db.status.running_on = Null /\ observer = Null
      /\ db.status.scheduled_to = Null =>
           stream = <<>> /\ pending = Null /\ w = Null /\ db.status.triggered = 0
      /\ db.status.scheduled_to # Null =>
           /\ ScheduledOrDeleting(db)
           /\ \/ stream = <<>> /\ pending = Null /\ w # Null /\ w.pc = "finalizer"
                /\ w.app = UpdateLastApplied(db)
                /\ w.job = "reconcile" /\ w.rm = {} /\ w.add = db.manifest
              \/ stream = <<>> /\ pending = db /\ w = Null
              \/ stream = <<db>> /\ pending = Null /\ w = Null

\* A copy a of an application that is not in deletion agrees with the present version b
\* on what it should be.
Agrees(a, b) ==
    /\ ~a.deleted /\ a.manifest = b.manifest /\ Guard \in ToSet(a.finalizers)
    /\ a.status.scheduled_to = b.status.scheduled_to
    /\ PlacesOf(a.status) \subseteq b.owners
    /\ Moved(a.status) => a.status.triggered >= b.modified

\* What the worker has done and still has to do
Reconciling(objs, w) ==
    LET s == w.app.status
        m == w.app.manifest
    IN  /\ w.pc \in {"mark", "remove", "apply", "status"} /\ ~Moved(s) /\ s.applied = m
        /\ w.pc = "mark" => Sound(objs, w.app) /\ w.rm = s.observed \ m /\ w.add = m \ s.observed
        /\ w.pc = "remove" => /\ Within(objs, s.scheduled_to, m \cup w.rm)
                              /\ (s.observed \ w.rm) \cup w.add = m
Migrating(objs, w, b) ==
    LET s == w.app.status IN
    /\ w.pc \in {"mark", "remove", "apply", "status", "update"}
    /\ w.pc \in {"mark", "remove"} =>
         Moved(s) /\ Sound(objs, w.app) /\ w.rm = s.observed /\ w.add = w.app.manifest
    /\ w.pc # "update" => s.triggered >= b.modified
    /\ w.pc = "apply" => s.running_on = Null
    /\ w.pc = "update" => /\ Known(objs, b.status) /\ b.status.running_on = s.scheduled_to
                          /\ b.status.observed \subseteq b.status.applied
Working(objs, w, b) ==
    LET s == w.app.status
        m == w.app.manifest
    IN  /\ Agrees(w.app, b)
        /\ s.scheduled_to # Null /\ s.scheduled_to \in w.app.owners
        /\ ~s.grace /\ s.state # "FAILED"
        /\ \/ w.job = "reconcile" /\ Reconciling(objs, w)
           \/ w.job = "migrate" /\ Migrating(objs, w, b)
        /\ w.pc \in {"apply", "status", "update"} =>
             /\ Within(objs, s.scheduled_to, m) /\ w.rm = {}
             /\ s.observed \cup w.add = m /\ s.applied = m
        /\ w.pc \in {"status", "update"} =>
             w.add = {} /\ s.running_on = s.scheduled_to /\ s.state = "RUNNING"
        /\ w.pc # "mark" => b.status.state # "DEGRADED"

\* What the observer reports
Observing(objs, o, b) ==
    LET s == o.app.status IN
    /\ Sane(s) /\ s.running_on # Null /\ PlacesOf(s) \subseteq b.owners
    /\ Explained(objs, s, b.manifest, s.applied)
    /\ o.poll # Null =>
         /\ Sane(o.poll) /\ o.poll.observed \subseteq o.poll.applied
         /\ o.poll.running_on = s.running_on
         /\ o.poll.scheduled_to = s.scheduled_to /\ o.poll.applied = s.applied
         /\ Explained(objs, o.poll, b.manifest, o.poll.observed)
Reports(objs, o) ==
    /\ Within(objs, o.app.status.running_on, o.app.status.applied)
    /\ o.poll # Null => Known(objs, o.poll)

\* The database takes every object that it knows of for an applied one, except from the
\* mark of a reconciliation to its end.
Complete(w, b) ==
    w = Null \/ w.pc \in {"finalizer", "mark"} => b.status.observed \subseteq b.status.applied

\* No copy is of an application that has moved.
Unmoved ==
    /\ ~Moved(db.status) /\ \A v \in Coming : ~Moved(v.status)
    /\ observer # Null =>
         LET s == observer.app.status IN ~Moved(s) /\ s.scheduled_to = db.status.scheduled_to

\* While the application is not in deletion: all that is known of it explains what
\* exists; at rest everything is known.
Living ==
    LET w == proc["worker"] IN
    Alive =>
      /\ db.manifest # {} /\ db.modified > 0 /\ Sound(objects, db)
      /\ Complete(w, db)
      /\ proc["task"] = Null
      /\ Guarded => /\ db.status.scheduled_to # Null
                    /\ \A v \in Coming : Sound(objects, v) /\ Agrees(v, db)
      /\ Guarded /\ w # Null =>
           /\ Working(objects, w, db) /\ observer = Null
           /\ w.job = "migrate" => scenario.prompt /\ ~Hooked /\ ~Never("move")
           /\ w.pc = "update" => \A v \in Coming : ~Moved(v.status)
      /\ observer # Null => Observing(objects, observer, db)
      /\ Stuck => w = Null /\ ~Awaited
      /\ Moved(db.status) =>
           db.status.triggered >= db.modified /\ (Awaited \/ w # Null)
      /\ Never("move") => Unmoved
      /\ w = Null /\ ~Awaited /\ ~Unscheduled(db) =>
           Known(objects, db.status) /\ (observer # Null => Reports(objects, observer))

\* What a controller that is started again relies on: where it may die, manifests have
\* only grown, and no copy of the status knows of an object that it does not take for an
\* applied one, or takes one for applied that is not asked for.
Nested(s, m) == s.observed \subseteq s.applied /\ s.applied \subseteq m
Growing ==
    Alive /\ ~Never("crash") =>
      /\ Nested(db.status, db.manifest)
      /\ \A v \in Coming : Nested(v.status, db.manifest)
      /\ proc["worker"] # Null => Nested(proc["worker"].app.status, db.manifest)
      /\ observer # Null => observer.app.status.applied \subseteq db.manifest

\* Coroutines of an application in deletion know what is left.
Cleaning(objs, w) ==
    /\ w.job \in {"shutdown", "delete"} /\ w.pc # "failed"
    /\ w.pc \notin {"status", "update", "error"} => Known(objs, w.app.status)
    /\ w.job = "delete" /\ w.pc \in {"mark", "remove"} =>
         Within(objs, w.app.status.running_on, w.rm)
    /\ w.job = "delete" /\ w.pc \in {"status", "update"} => \A c \in Clusters : objs[c] = {}

Dying ==
    Gone =>
      /\ ~Guarded => \A c \in Clusters : objects[c] = {}
      /\ db # Null =>
           Known(objects, db.status) /\ \A c \in Clusters : objects[c] # {} => c \in db.owners
      /\ \A v \in Coming : v.deleted /\ Known(objects, v.status)
      /\ \A p \in Procs : proc[p] # Null => Cleaning(objects, proc[p])
      /\ observer # Null => Reports(objects, observer)

Accounted ==
    Sheltered =>
      /\ sched = Null
      /\ \A kind \in Kinds : Never(kind) => left[kind] = 0
      /\ NewestLast /\ Beginning /\ Living /\ Growing /\ Dying

\* In sheltered scenarios, the objects of an application are on one cluster at a time,
\* also in the middle of a migration that was interrupted (_migrate_application),
\* every cluster that holds objects owns the application (_reconcile_application), and
\* its finalizer is there to remove them (_delete_application).
PlacementInv == OneCluster /\ OwnersCover /\ RecoveryLeavesNone /\ Accounted

\* The objects of the manifest exist where the scheduler wants them, and nowhere else.
InPlace ==
    IF db = Null THEN \A c \in Clusters : objects[c] = {}
    ELSE \A c \in Clusters :
           objects[c] = IF c = db.status.scheduled_to THEN db.manifest ELSE {}

\* Reconciliation, migration and deletion leave on the clusters what the application
\* asks for, for good, although objects vanish, the observer overwrites the status, and
\* a controller that takes no objects away may be restarted at any point.
Converges == <>[](Steady => InPlace)

\* A deletion that was asked for is completed, with or without a shutdown hook.
DeletionCompletes ==
    (Steady /\ db # Null /\ db.deleted) ~> (db = Null)
=============================================================================
