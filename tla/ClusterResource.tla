-------------------------- MODULE ClusterResource --------------------------
(***************************************************************************)
(* A Kubernetes cluster that Krake manages, as the database holds it, and  *)
(* the versions of it on their way to the two controllers that handle it.  *)
(* The handlers of krake/api/kubernetes.py that change it are atomic here, *)
(* as AtomicApi promises.                                                  *)
(***************************************************************************)
EXTENDS Naturals, Sequences, SequencesExt

CONSTANTS
    Null,     \* Python's None, and an absent cluster
    Ids,      \* the ids that the infrastructure provider gives
    Toscas,   \* TOSCA templates: 1 and the following, 0 is the empty one
    MaxLag    \* bound: versions a controller is behind

Finalizer == "infrastructure_resources_deletion"
Cascade == "cascade_deletion"

Own == "own"   \* the kubeconfig of a cluster that was registered

\* ClusterState, without DEGRADED, which no controller comes to set
ClusterStates ==
    {"PENDING", "ONLINE", "CONNECTING", "OFFLINE", "UNHEALTHY", "NOTREADY", "CREATING",
     "RECONCILING", "DELETING", "FAILING_METRICS", "FAILING_RECONCILIATION", "FAILED"}
\* cluster_id and kubeconfig name an infrastructure; last_applied_tosca; triggered:
\* kube_controller_triggered is set
Statuses ==
    [state: ClusterStates, scheduled_to: BOOLEAN, cluster_id: Ids \cup {Null},
     running_on: BOOLEAN, last_applied: Toscas, triggered: BOOLEAN]
Versions ==
    [deleted: BOOLEAN, finalizers: Seq({Finalizer, Cascade}), tosca: Toscas,
     kubeconfig: Ids \cup {Own, Null}, status: Statuses]

Controllers == {"infrastructure", "kubernetes"}

ASSUME ClusterAssumption ==
    /\ Null \notin Ids /\ Null # Own /\ Own \notin Ids /\ Null \notin Versions
    /\ 0 \in Toscas /\ Toscas \subseteq Nat
    /\ MaxLag \in Nat \ {0}

VARIABLES
    cluster,  \* the cluster in the database, or Null
    feeds     \* [Controllers -> versions that the watch has not delivered]
db == <<cluster, feeds>>

\* create_cluster: the status is reset
Created(tosca, kubeconfig) ==
    [deleted |-> FALSE, finalizers |-> <<>>, tosca |-> tosca, kubeconfig |-> kubeconfig,
     status |-> [state |-> "PENDING", scheduled_to |-> FALSE, cluster_id |-> Null,
                 running_on |-> FALSE, last_applied |-> 0, triggered |-> FALSE]]

Store(c) ==
    /\ \A k \in Controllers : Len(feeds[k]) < MaxLag
    /\ cluster' = c
    /\ feeds' = [k \in Controllers |-> Append(feeds[k], c)]
\* Removed: the infrastructure controller listens to this, and is given the last version
Erase ==
    /\ \A k \in Controllers : Len(feeds[k]) < MaxLag
    /\ cluster' = Null
    /\ feeds' = [feeds EXCEPT !["infrastructure"] = Append(@, cluster)]

\* Finalizers cannot be added to a cluster in deletion
Refuses(body) == cluster.deleted /\ ~(ToSet(body.finalizers) \subseteq ToSet(cluster.finalizers))
\* update_cluster: metadata and spec of the body; the last finalizer is followed by the end
Update(body) ==
    LET new == [body EXCEPT !.deleted = cluster.deleted, !.status = cluster.status]
    IN  IF cluster.deleted /\ body.finalizers = <<>> THEN Erase ELSE Store(new)
\* update_cluster_status: the status of the body as a whole
UpdateStatus(body) == Store([cluster EXCEPT !.status = body.status])
\* delete_cluster
Delete == Store([cluster EXCEPT !.deleted = TRUE, !.finalizers = Append(@, Cascade)])
\* update_cluster_binding
Bind == Store([cluster EXCEPT !.status.scheduled_to = TRUE])

\* The garbage collector, for a cluster that nothing depends on
Collect ==
    /\ cluster # Null /\ cluster.deleted
    /\ cluster.finalizers # <<>> /\ Last(cluster.finalizers) = Cascade
    /\ Update([cluster EXCEPT !.finalizers = Front(@)])
=============================================================================
