-------------------------- MODULE ClusterController -------------------------
(***************************************************************************)
(* The controller of Kubernetes clusters                                   *)
(* (krake/controller/kubernetes/cluster/cluster.py), which observes the    *)
(* health of a cluster, with its observer (hooks.py, and Observer in       *)
(* controller/__init__.py).  Handling a version makes no request, so it is *)
(* one action.                                                             *)
(***************************************************************************)
EXTENDS InfrastructureController

VARIABLES
    kqueue,    \* the version to be handled, or Null
    observer,  \* the observer of the cluster, or Null
    health     \* how the nodes are, if the cluster exists
kubeVars == <<kqueue, observer, health>>

\* An observer waits or writes, or its task ended with an error
Observer(c) == [pc |-> "wait", resource |-> c, found |-> c.status.state]
Dead(o) == [o EXCEPT !.pc = "dead"]

\* accept_accessible
AcceptAccessible(c) == c.status.state # "FAILED" /\ c.kubeconfig # Null

KReceive ==
    /\ feeds["kubernetes"] # <<>>
    /\ LET c == Head(feeds["kubernetes"])
       IN  kqueue' = IF AcceptAccessible(c) THEN c ELSE kqueue
    /\ feeds' = [feeds EXCEPT !["kubernetes"] = Tail(@)]
    /\ UNCHANGED <<cluster, queue, worker, im, scenario, budget, observer, health>>

\* Faulty variant of Observed: observation goes on during a reconciliation
ObservedAlways(c, o) ==
    CASE o # Null /\ o.pc = "dead" -> Null
      [] c.deleted -> Null
      [] OTHER -> IF o # Null /\ o.resource = c THEN o ELSE Observer(c)

\* resource_received: the observer after a version.  To unregister an observer that
\* died raises its error; it is forgotten, and the version with it
Observed(c, o) ==
    LET stops == c.deleted \/ c.status.state \in {"CREATING", "RECONCILING"}
    IN  CASE o # Null /\ o.pc = "dead" /\ (stops \/ o.resource # c) -> Null
          [] o # Null /\ o.pc = "dead" /\ ~(stops \/ o.resource # c) -> o
          [] (o = Null \/ o.pc # "dead") /\ stops -> Null
          [] OTHER -> IF o # Null /\ o.resource = c THEN o ELSE Observer(c)

KHandle ==
    /\ kqueue # Null
    /\ kqueue' = Null
    /\ observer' = Observed(kqueue, observer)
    /\ UNCHANGED <<db, queue, worker, im, scenario, budget, health>>

\* poll_resource
PollResource(c, nodes) ==
    CASE nodes = "down" -> "OFFLINE"
      [] nodes # "down" /\ c.status.state = "FAILING_METRICS" -> "FAILING_METRICS"
      [] nodes # "down" /\ c.status.state = "OFFLINE" -> "CONNECTING"
      [] nodes = "pressure" /\ c.status.state \notin {"FAILING_METRICS", "OFFLINE"} -> "UNHEALTHY"
      [] nodes = "notready" /\ c.status.state \notin {"FAILING_METRICS", "OFFLINE"} -> "NOTREADY"
      [] OTHER -> "ONLINE"
Nodes(c) == IF c.kubeconfig \in Ids /\ ~Exists(c.kubeconfig) THEN "down" ELSE health

\* observe_resource, up to the request; if nothing changed there is none
Observe ==
    /\ observer # Null /\ observer.pc = "wait"
    /\ LET found == PollResource(observer.resource, Nodes(observer.resource))
       IN  /\ found # observer.resource.status.state
           /\ observer' = [observer EXCEPT !.pc = "write", !.found = found]
    /\ UNCHANGED <<db, queue, worker, im, scenario, budget, kqueue, health>>

\* on_status_update: the status of the observer's own version, with the state found.
\* A request that fails ends the task
Report ==
    /\ observer # Null /\ observer.pc = "write"
    /\ LET c == [observer.resource EXCEPT !.status.state = observer.found,
                                          !.status.triggered = TRUE]
       IN  \/ /\ cluster = Null
              /\ observer' = Dead(observer) /\ UNCHANGED <<db, budget>>
           \/ /\ cluster # Null
              /\ UpdateStatus(c) /\ observer' = Observer(cluster')
              /\ UNCHANGED budget
           \/ Spend("observer") /\ observer' = Dead(observer) /\ UNCHANGED db
    /\ UNCHANGED <<queue, worker, im, scenario, kqueue, health>>

\* Faulty variant of KRestart: what is listed is not put into the queue
KRestartObserving ==
    /\ Spend("observer crash")
    /\ kqueue' = Null
    /\ observer' = IF cluster # Null /\ cluster.status.triggered THEN Observer(cluster) ELSE Null
    /\ feeds' = [feeds EXCEPT !["kubernetes"] = <<>>]
    /\ UNCHANGED <<cluster, queue, worker, im, scenario, health>>

\* list_cluster of a new controller: a cluster that was observed is observed again
KRestart ==
    /\ Spend("observer crash")
    /\ kqueue' = Null
    /\ observer' = IF cluster # Null /\ cluster.status.triggered THEN Observer(cluster) ELSE Null
    /\ feeds' = [feeds EXCEPT !["kubernetes"] = IF cluster = Null THEN <<>> ELSE <<cluster>>]
    /\ UNCHANGED <<cluster, queue, worker, im, scenario, health>>

HealthChanges ==
    /\ Spend("health")
    /\ health' \in {"ok", "pressure", "notready", "down"} \ {health}
    /\ UNCHANGED <<db, queue, worker, im, scenario, kqueue, observer>>
=============================================================================
