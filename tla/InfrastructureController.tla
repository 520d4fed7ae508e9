----------------------- MODULE InfrastructureController ---------------------
(***************************************************************************)
(* The infrastructure controller                                           *)
(* (krake/controller/infrastructure/infrastructure.py) and the provider    *)
(* client it uses (providers.py), for one cluster.  The provider itself,   *)
(* the Infrastructure Manager IM, is external.  An action is the code up   *)
(* to the next request; the queue behaves as KeyedQueue with a timer, as   *)
(* WorkQueue shows.                                                        *)
(***************************************************************************)
EXTENDS ClusterResource

CONSTANT Scenarios   \* see the composition, ClusterLife

VARIABLES
    queue,     \* [dirty, timer]: versions, or Null
    worker,    \* the handler
    im,        \* [Ids -> a reply of IM on the infrastructure, Unused or Gone]
    scenario,  \* cloud and provider: what the references lead to; the rest: ClusterLife
    budget     \* [kind -> how often it may still happen]

Idle == [pc |-> "idle"]
At(pc, c) == [pc |-> pc, copy |-> c]
Spend(k) == budget[k] > 0 /\ budget' = [budget EXCEPT ![k] = @ - 1]

-----------------------------------------------------------------------------
(* The provider client                                                     *)

\* What IM says of an infrastructure: the state of the whole, and of the machines
Reply(overall, vms) == [overall |-> overall, vms |-> vms]
Configured == Reply("configured", {"configured"})
Configuring == Reply("running", {"running"})
Partly == Reply("running", {"running", "unconfigured"})
Broken == Reply("failed", {"failed"})
Leaving == Reply("deleting", {})
Unused == Reply("unused", {})
Gone == Reply("gone", {})
Exists(id) == im[id] \notin {Unused, Gone}
Replies == {Configured, Configuring, Partly, Broken, Leaving}

\* IMInfrastructureStateMapping
StateMapping ==
    [pending |-> "PENDING", running |-> "CREATING", configured |-> "CONFIGURED",
     deleting |-> "DELETING", unconfigured |-> "UNCONFIGURED", unknown |-> "FAILED",
     stopped |-> "FAILED", off |-> "FAILED", failed |-> "FAILED"]

\* get_state, if IM answers: one machine that is not configured is enough
GetState(id) ==
    CASE id = Null                  -> "retrieve error"
      [] id # Null /\ ~Exists(id) -> "not found"
      [] OTHER -> IF "unconfigured" \in im[id].vms THEN StateMapping["unconfigured"]
                  ELSE StateMapping[im[id].overall]

\* create: a new infrastructure, with an id that was never used
ImCreate(id) ==
    /\ im[id] = Unused /\ id = CHOOSE i \in Ids : im[i] = Unused
    /\ im' = [im EXCEPT ![id] = Configuring]
\* reconcile and reconfigure: IM works on the infrastructure again
ImWork(id) == Exists(id) /\ im' = [im EXCEPT ![id] = Configuring]
\* delete
ImDelete(id) == Exists(id) /\ im' = [im EXCEPT ![id] = Leaving]

-----------------------------------------------------------------------------
(* Requests to the API                                                     *)

\* A request that fails raises ClientResponseError, which ends the worker; it is
\* started again
Dropped == worker' = Idle /\ UNCHANGED db
SaveStatus(c, next) ==
    \/ cluster = Null /\ Dropped
    \/ cluster # Null /\ UpdateStatus(c) /\ worker' = next
\* A body that is equal is refused, if the timestamps are equal too
SaveResource(c, next, whenEqual) ==
    \/ cluster = Null /\ Dropped
    \/ cluster # Null /\ Refuses(c) /\ Dropped
    \/ cluster # Null /\ ~Refuses(c) /\ Update(c) /\ worker' = next
    \/ cluster # Null /\ c = cluster /\ worker' = whenEqual /\ UNCHANGED db

\* process_cluster: a ControllerError is written to the status
FailWith(c) == At("fail", [c EXCEPT !.status.state = "FAILED"])
Fail ==
    /\ worker.pc = "fail"
    /\ SaveStatus(worker.copy, Idle)
    /\ UNCHANGED <<queue, im, scenario, budget>>

-----------------------------------------------------------------------------
(* Receiving versions                                                      *)

\* Faulty variant of Enqueue: failed clusters are rejected first
EnqueueFailedFirst(c, q) ==
    CASE c.status.state = "FAILED" -> q
      [] c.status.state # "FAILED" /\ c.deleted ->
           IF c.finalizers # <<>> /\ Last(c.finalizers) = Finalizer
             THEN [q EXCEPT !.timer = c] ELSE q
      [] OTHER -> IF c.status.scheduled_to THEN [q EXCEPT !.dirty = c] ELSE q

\* enqueue
Enqueue(c, q) ==
    CASE c.deleted -> IF c.finalizers # <<>> /\ Last(c.finalizers) = Finalizer
                        THEN [q EXCEPT !.timer = c] ELSE q
      [] ~c.deleted /\ c.status.state = "FAILED" -> q
      [] OTHER -> IF c.status.scheduled_to THEN [q EXCEPT !.dirty = c] ELSE q

Receive ==
    /\ feeds["infrastructure"] # <<>>
    /\ queue' = Enqueue(Head(feeds["infrastructure"]), queue)
    /\ feeds' = [feeds EXCEPT !["infrastructure"] = Tail(@)]
    /\ UNCHANGED <<cluster, worker, im, scenario, budget>>

\* DELETION_DELAY is over.  swift: not before what is being done is done
Fire ==
    /\ queue.timer # Null
    /\ scenario.swift => worker = Idle /\ queue.dirty = Null /\ feeds["infrastructure"] = <<>>
    /\ queue' = [dirty |-> queue.timer, timer |-> Null]
    /\ UNCHANGED <<db, worker, im, scenario, budget>>

Take ==
    /\ worker = Idle
    /\ queue.dirty # Null
    /\ worker' = At("resolve", queue.dirty)
    /\ queue' = [queue EXCEPT !.dirty = Null]
    /\ UNCHANGED <<db, im, scenario, budget>>

\* Faulty variant of Reconciled: the template is only looked at before the creation
ReconciledNew(c) ==
    CASE ~c.status.running_on ->
           IF Finalizer \in ToSet(c.finalizers) THEN At("apply", c)
           ELSE At("finalize", [c EXCEPT !.finalizers = Append(@, Finalizer)])
      [] c.status.running_on /\ c.status.state = "FAILING_RECONCILIATION" -> At("reconfigure", c)
      [] c.status.running_on /\ c.status.state \in {"ONLINE", "CONNECTING"} -> Idle
      [] OTHER -> At("poll", c)

\* reconcile_cluster, before the first request
Reconciled(c) ==
    CASE c.tosca # c.status.last_applied ->
           IF Finalizer \in ToSet(c.finalizers) THEN At("apply", c)
           ELSE At("finalize", [c EXCEPT !.finalizers = Append(@, Finalizer)])
      [] c.tosca = c.status.last_applied /\ c.status.state = "FAILING_RECONCILIATION" ->
           At("reconfigure", c)
      [] c.tosca = c.status.last_applied /\ c.status.state \in {"ONLINE", "CONNECTING"} -> Idle
      [] OTHER -> At("poll", c)

\* get_cloud and get_infrastructure_provider: references that lead nowhere are errors
Resolve ==
    /\ worker.pc = "resolve"
    /\ LET c == worker.copy
           found == /\ scenario.cloud \in {"cloud", "global cloud"}
                    /\ scenario.provider \in {"provider", "global provider"}
       IN  \/ ~found /\ worker' = FailWith(c)
           \/ found /\ c.deleted /\ worker' = At("read", c)
           \/ found /\ ~c.deleted /\ worker' = Reconciled(c)
    /\ UNCHANGED <<db, queue, im, scenario, budget>>

-----------------------------------------------------------------------------
(* Creation and reconciliation                                             *)

\* Faulty variant of Finalize: the finalizer is only set in the copy
FinalizeLocally ==
    /\ worker.pc = "finalize"
    /\ worker' = At("apply", worker.copy)
    /\ UNCHANGED <<db, queue, im, scenario, budget>>

Finalize ==
    /\ worker.pc = "finalize"
    /\ SaveResource(worker.copy, At("apply", worker.copy), Idle)
    /\ UNCHANGED <<queue, im, scenario, budget>>

\* on_create and on_reconcile, up to the request to IM
Apply ==
    /\ worker.pc = "apply"
    /\ \/ /\ ~worker.copy.status.running_on
          /\ LET c == [worker.copy EXCEPT !.status.state = "CREATING"]
             IN  SaveStatus(c, At("create", c))
       \/ /\ worker.copy.status.running_on
          /\ LET c == [worker.copy EXCEPT !.status.state = "RECONCILING"]
             IN  SaveStatus(c, At("reconcile", c))
    /\ UNCHANGED <<queue, im, scenario, budget>>

\* Faulty variant of Create: the address in the reply is taken for the id
CreateUnparsed ==
    /\ worker.pc = "create"
    /\ \E id \in Ids :
         /\ ImCreate(id)
         /\ worker' = At("created", [worker.copy EXCEPT !.status.cluster_id = "infrastructures/" \o id,
                                       !.status.running_on = TRUE,
                                       !.status.last_applied = worker.copy.tosca])
    /\ UNCHANGED <<db, queue, scenario, budget>>

\* A request to IM is refused, or the reply is lost
Create ==
    /\ worker.pc = "create"
    /\ \/ \E id \in Ids :
            /\ ImCreate(id)
            /\ \/ /\ worker' = At("created", [worker.copy EXCEPT !.status.cluster_id = id,
                                                !.status.running_on = TRUE,
                                                !.status.last_applied = worker.copy.tosca])
                  /\ UNCHANGED budget
               \/ Spend("lost") /\ worker' = FailWith(worker.copy)
       \/ Spend("refuse") /\ worker' = FailWith(worker.copy) /\ UNCHANGED im
    /\ UNCHANGED <<db, queue, scenario>>

Reconcile ==
    /\ worker.pc = "reconcile"
    /\ \/ /\ ImWork(worker.copy.status.cluster_id)
          /\ worker' = At("created", [worker.copy EXCEPT !.status.last_applied = worker.copy.tosca])
          /\ UNCHANGED budget
       \/ /\ ~Exists(worker.copy.status.cluster_id)
          /\ worker' = FailWith(worker.copy) /\ UNCHANGED <<im, budget>>
       \/ Spend("refuse") /\ worker' = FailWith(worker.copy) /\ UNCHANGED im
    /\ UNCHANGED <<db, queue, scenario>>

\* The end of on_create and on_reconcile
SaveApplied ==
    /\ worker.pc = "created"
    /\ SaveStatus(worker.copy, At("poll", worker.copy))
    /\ UNCHANGED <<queue, im, scenario, budget>>

\* The status is written, and then the error
GiveUp(c) == worker' = At("give up", c)
\* on_reconfigure; without an id, not even the address of the request can be formed
Reconfigure ==
    /\ worker.pc = "reconfigure"
    /\ LET c == worker.copy IN
       \/ /\ c.status.cluster_id = Null
          /\ worker' = Idle /\ UNCHANGED <<im, budget>>
       \/ /\ c.status.cluster_id # Null /\ ImWork(c.status.cluster_id)
          /\ worker' = At("created", [c EXCEPT !.status.state = "RECONCILING"])
          /\ UNCHANGED budget
       \/ /\ c.status.cluster_id # Null /\ ~Exists(c.status.cluster_id)
          /\ GiveUp([c EXCEPT !.status.state = "FAILING_RECONCILIATION"])
          /\ UNCHANGED <<im, budget>>
       \/ /\ c.status.cluster_id # Null /\ Spend("refuse")
          /\ GiveUp([c EXCEPT !.status.state = "FAILING_RECONCILIATION"])
          /\ UNCHANGED im
    /\ UNCHANGED <<db, queue, scenario>>

\* wait_for_connecting
Poll ==
    /\ worker.pc = "poll"
    /\ LET c == worker.copy
           state == GetState(c.status.cluster_id)
           Forgotten == [c EXCEPT !.status.cluster_id = Null, !.status.running_on = FALSE,
                                  !.status.last_applied = 0, !.status.state = "PENDING"]
           Failing == [c EXCEPT !.status.state = "FAILING_RECONCILIATION"]
       IN  \/ state = "not found" /\ GiveUp(Forgotten) /\ UNCHANGED budget
           \/ state \in {"retrieve error", "UNCONFIGURED"} /\ GiveUp(Failing) /\ UNCHANGED budget
           \/ Spend("refuse") /\ GiveUp(Failing)
           \/ state = "FAILED" /\ worker' = FailWith(c) /\ UNCHANGED budget
           \/ /\ state = "CONFIGURED"
              /\ worker' = At("connect", [c EXCEPT !.status.state = "CONNECTING"])
              /\ UNCHANGED budget
    /\ UNCHANGED <<db, queue, im, scenario>>

SaveGiveUp ==
    /\ worker.pc = "give up"
    /\ SaveStatus(worker.copy, FailWith(worker.copy))
    /\ UNCHANGED <<queue, im, scenario, budget>>

Connect ==
    /\ worker.pc = "connect"
    /\ SaveStatus(worker.copy, At("kubeconfig", worker.copy))
    /\ UNCHANGED <<queue, im, scenario, budget>>

\* reconcile_cluster_resource: get_kubeconfig
GetKubeconfig ==
    /\ worker.pc = "kubeconfig"
    /\ LET c == worker.copy IN
       \/ /\ Exists(c.status.cluster_id)
          /\ worker' = At("hand over", [c EXCEPT !.kubeconfig = c.status.cluster_id])
          /\ UNCHANGED budget
       \/ ~Exists(c.status.cluster_id) /\ worker' = FailWith(c) /\ UNCHANGED budget
       \/ Spend("refuse") /\ worker' = FailWith(c)
    /\ UNCHANGED <<db, queue, im, scenario>>

HandOver ==
    /\ worker.pc = "hand over"
    /\ SaveResource(worker.copy, Idle, Idle)
    /\ UNCHANGED <<queue, im, scenario, budget>>

-----------------------------------------------------------------------------
(* Deletion                                                                *)

\* delete_cluster, up to the first request to IM
Read ==
    /\ worker.pc = "read"
    /\ LET c == worker.copy
           exists == c.status.cluster_id # Null /\ c.status.state # "PENDING"
           release == [c EXCEPT !.finalizers = RemoveFirst(@, Finalizer)]
       IN  \/ cluster = Null /\ worker' = Idle
           \/ cluster # Null /\ ~exists /\ worker' = At("release", release)
           \/ /\ cluster # Null /\ exists
              /\ worker' = At(IF c.status.state = "DELETING" THEN "leaving" ELSE "delete", c)
    /\ UNCHANGED <<db, queue, im, scenario, budget>>

DeleteInfrastructure ==
    /\ worker.pc = "delete"
    /\ LET c == worker.copy
           deleting == At("deleting", [c EXCEPT !.status.state = "DELETING"])
       IN  \/ ImDelete(c.status.cluster_id) /\ worker' = deleting /\ UNCHANGED budget
           \/ /\ ~Exists(c.status.cluster_id)
              /\ worker' = deleting /\ UNCHANGED <<im, budget>>
           \/ Spend("refuse") /\ worker' = FailWith(c) /\ UNCHANGED im
    /\ UNCHANGED <<db, queue, scenario>>

SaveDeleting ==
    /\ worker.pc = "deleting"
    /\ SaveStatus(worker.copy, At("leaving", worker.copy))
    /\ UNCHANGED <<queue, im, scenario, budget>>

\* Faulty variant of WaitDeleted: an infrastructure that IM is deleting is taken for gone
WaitDeletedEarly ==
    /\ worker.pc = "leaving"
    /\ LET c == worker.copy
           state == GetState(c.status.cluster_id)
           release == [c EXCEPT !.finalizers = RemoveFirst(@, Finalizer)]
       IN  \/ /\ state \in {"not found", "DELETING"}
              /\ worker' = At("release", release) /\ UNCHANGED budget
           \/ state = "FAILED" /\ worker' = FailWith(c) /\ UNCHANGED budget
           \/ Spend("refuse") /\ worker' = FailWith(c)
    /\ UNCHANGED <<db, queue, im, scenario>>

WaitDeleted ==
    /\ worker.pc = "leaving"
    /\ LET c == worker.copy
           state == GetState(c.status.cluster_id)
           release == [c EXCEPT !.finalizers = RemoveFirst(@, Finalizer)]
       IN  \/ state = "not found" /\ worker' = At("release", release) /\ UNCHANGED budget
           \/ state = "FAILED" /\ worker' = FailWith(c) /\ UNCHANGED budget
           \/ Spend("refuse") /\ worker' = FailWith(c)
    /\ UNCHANGED <<db, queue, im, scenario>>

Release ==
    /\ worker.pc = "release"
    /\ SaveResource(worker.copy, Idle, Idle)
    /\ UNCHANGED <<queue, im, scenario, budget>>

-----------------------------------------------------------------------------
(* IM, and the end of the controller                                       *)

ImConfigures(id) ==
    /\ im[id] = Configuring
    /\ im' = [im EXCEPT ![id] = Configured]
    /\ UNCHANGED <<db, queue, worker, scenario, budget>>
ImDeletes(id) ==
    /\ im[id] = Leaving
    /\ im' = [im EXCEPT ![id] = Gone]
    /\ UNCHANGED <<db, queue, worker, scenario, budget>>
\* Machines fail, a deletion fails, or somebody deletes the infrastructure
ImBreaks(id) ==
    /\ Exists(id)
    /\ \/ Spend("break") /\ \E r \in {Partly, Broken} :
            (im[id] = Leaving => r = Broken) /\ im' = [im EXCEPT ![id] = r]
       \/ Spend("vanish") /\ im' = [im EXCEPT ![id] = Gone]
    /\ UNCHANGED <<db, queue, worker, scenario>>

\* The controller stops at any point; a new one lists the cluster
Restart ==
    /\ Spend("crash")
    /\ queue' = [dirty |-> Null, timer |-> Null]
    /\ worker' = Idle
    /\ feeds' = [feeds EXCEPT !["infrastructure"] = IF cluster = Null THEN <<>> ELSE <<cluster>>]
    /\ UNCHANGED <<cluster, im, scenario>>

Handler ==
    \/ Take \/ Resolve \/ Finalize \/ Apply \/ Create \/ Reconcile \/ SaveApplied
    \/ Reconfigure \/ Poll \/ SaveGiveUp \/ Connect \/ GetKubeconfig \/ HandOver
    \/ Read \/ DeleteInfrastructure \/ SaveDeleting \/ WaitDeleted \/ Release \/ Fail
ImSteps == \E id \in Ids : ImConfigures(id) \/ ImDeletes(id) \/ ImBreaks(id)
=============================================================================
