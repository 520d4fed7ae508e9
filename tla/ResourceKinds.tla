---------------------------- MODULE ResourceKinds ----------------------------
(***************************************************************************)
(* The kinds of resources of the API.  Their request handlers              *)
(* (krake/api/core.py, infrastructure.py, openstack.py, kubernetes.py) are *)
(* copies of one template that differ in a few decisions, and so are the   *)
(* methods of the client library (krake/client): each kind is described    *)
(* once as the server serves it and once as the client addresses it, and   *)
(* the template is written out below.                                      *)
(***************************************************************************)
EXTENDS Naturals, Sequences, FiniteSets

CONSTANT Null

Cascade == "cascade_deletion"

\* How a kind is served.  creation: "transaction" reports a key that exists
\* when the write fails, "checked" looks for it first.  sub: subresources with
\* a handler of their own.  same: the answer to an update that changes nothing.
Served(api, resource, namespaced, creation, sub, same, force) ==
    [api |-> api, resource |-> resource, namespaced |-> namespaced,
     creation |-> creation, sub |-> sub, same |-> same, force |-> force]

GlobalMetric == Served("core", "globalmetrics", FALSE, "transaction", {}, "refused", FALSE)
GlobalMetricsProvider ==
    Served("core", "globalmetricsproviders", FALSE, "transaction", {}, "answered", FALSE)
Role == Served("core", "roles", FALSE, "transaction", {}, "refused", FALSE)
RoleBinding == Served("core", "rolebindings", FALSE, "transaction", {}, "refused", FALSE)
Metric == Served("core", "metrics", TRUE, "transaction", {}, "refused", FALSE)
MetricsProvider == Served("core", "metricsproviders", TRUE, "transaction", {}, "refused", FALSE)
GlobalInfrastructureProvider ==
    Served("infrastructure", "globalinfrastructureproviders", FALSE, "checked", {}, "refused", FALSE)
InfrastructureProvider ==
    Served("infrastructure", "infrastructureproviders", TRUE, "checked", {}, "refused", FALSE)
GlobalCloud == Served("infrastructure", "globalclouds", FALSE, "checked", {"status"}, "refused", FALSE)
Cloud == Served("infrastructure", "clouds", TRUE, "checked", {"status"}, "refused", FALSE)
MagnumCluster ==
    Served("openstack", "magnumclusters", TRUE, "checked", {"binding", "status"}, "refused", FALSE)
Project == Served("openstack", "projects", TRUE, "checked", {"status"}, "refused", FALSE)
Cluster ==
    Served("kubernetes", "clusters", TRUE, "transaction", {"binding", "status"}, "refused", TRUE)
\* Without hooks; ApiHandlers has the rest of what is special to applications
Application ==
    Served("kubernetes", "applications", TRUE, "transaction", {"binding", "status"}, "refused", TRUE)

Kinds == {GlobalMetric, GlobalMetricsProvider, Role, RoleBinding, Metric, MetricsProvider,
          GlobalInfrastructureProvider, InfrastructureProvider, GlobalCloud, Cloud,
          MagnumCluster, Project, Cluster, Application}

-----------------------------------------------------------------------------
(* Requests: a verb and a path                                             *)

Path(api, resource, namespace, name, sub) ==
    [api |-> api, resource |-> resource, namespace |-> namespace, name |-> name, sub |-> sub]

\* How the client library addresses a kind
Addressed(api, resource, namespaced) ==
    [api |-> api, resource |-> resource, namespaced |-> namespaced]

\* Faulty variant of MetricClient: the namespace is left out of the path
MetricClientGlobal == Addressed("core", "metrics", FALSE)

GlobalMetricClient == Addressed("core", "globalmetrics", FALSE)
GlobalMetricsProviderClient == Addressed("core", "globalmetricsproviders", FALSE)
MetricClient == Addressed("core", "metrics", TRUE)
MetricsProviderClient == Addressed("core", "metricsproviders", TRUE)
RoleClient == Addressed("core", "roles", FALSE)
RoleBindingClient == Addressed("core", "rolebindings", FALSE)
GlobalInfrastructureProviderClient ==
    Addressed("infrastructure", "globalinfrastructureproviders", FALSE)
InfrastructureProviderClient == Addressed("infrastructure", "infrastructureproviders", TRUE)
GlobalCloudClient == Addressed("infrastructure", "globalclouds", FALSE)
CloudClient == Addressed("infrastructure", "clouds", TRUE)
MagnumClusterClient == Addressed("openstack", "magnumclusters", TRUE)
ProjectClient == Addressed("openstack", "projects", TRUE)
ClusterClient == Addressed("kubernetes", "clusters", TRUE)
ApplicationClient == Addressed("kubernetes", "applications", TRUE)

ClientOf(kind) ==
    CASE kind = GlobalMetric -> GlobalMetricClient
      [] kind = GlobalMetricsProvider -> GlobalMetricsProviderClient
      [] kind = Metric -> MetricClient
      [] kind = MetricsProvider -> MetricsProviderClient
      [] kind = Role -> RoleClient
      [] kind = RoleBinding -> RoleBindingClient
      [] kind = GlobalInfrastructureProvider -> GlobalInfrastructureProviderClient
      [] kind = InfrastructureProvider -> InfrastructureProviderClient
      [] kind = GlobalCloud -> GlobalCloudClient
      [] kind = Cloud -> CloudClient
      [] kind = MagnumCluster -> MagnumClusterClient
      [] kind = Project -> ProjectClient
      [] kind = Cluster -> ClusterClient
      [] kind = Application -> ApplicationClient

\* The methods of a client class
Method(op) == CASE op = "create" -> "POST"
                [] op = "delete" -> "DELETE"
                [] op \in {"read", "list", "list_all"} -> "GET"
                [] op \in {"update", "binding", "status"} -> "PUT"
PathOf(client, op, namespace, name) ==
    Path(client.api, client.resource,
         IF client.namespaced /\ op # "list_all" THEN namespace ELSE Null,
         IF op \in {"create", "list", "list_all"} THEN Null ELSE name,
         IF op \in {"binding", "status"} THEN op ELSE Null)

\* The routes of the server: what a request for a kind asks for, Null if no
\* route matches
Route(kind, method, path) ==
    LET spot == CASE path.name = Null /\ path.namespace = Null /\ kind.namespaced -> "everything"
                  [] path.name = Null /\ (path.namespace # Null) = kind.namespaced -> "collection"
                  [] path.name # Null /\ (path.namespace # Null) = kind.namespaced -> "item"
                  [] OTHER -> "elsewhere"
    IN  CASE method = "POST" /\ spot = "collection" -> "create"
          [] method = "GET" /\ spot = "collection" -> "list"
          [] method = "GET" /\ spot = "everything" -> "list_all"
          [] method = "GET" /\ spot = "item" /\ path.sub = Null -> "read"
          [] method = "DELETE" /\ spot = "item" /\ path.sub = Null -> "delete"
          [] method = "PUT" /\ spot = "item" /\ path.sub = Null -> "update"
          [] method = "PUT" /\ spot = "item" /\ path.sub \in kind.sub -> path.sub
          [] OTHER -> Null

\* The verb and the resource that the handler of a route is protected with
VerbOf(op) == CASE op = "read" -> "get"
                [] op = "list_all" -> "list"
                [] op \in {"binding", "status"} -> "update"
                [] OTHER -> op
ProtectedAs(kind, op, path) ==
    [api |-> kind.api, namespace |-> path.namespace, verb |-> VerbOf(op),
     resource |-> IF op \in {"binding", "status"} THEN <<kind.resource, op>>
                                                  ELSE <<kind.resource>>]

-----------------------------------------------------------------------------
(* The template of the handlers                                            *)

\* A stored resource; modified stands for the time of its last update
Resource(uid, modified, deleted, finalizers, owners, content, status) ==
    [uid |-> uid, modified |-> modified, deleted |-> deleted, finalizers |-> finalizers,
     owners |-> owners, content |-> content, status |-> status]

\* The subresource of a new resource, and of a kind that has none
Fresh == [state |-> "new", bound |-> Null]

Refused  == [kind |-> "refused"]
Answered == [kind |-> "answered"]
Removed  == [kind |-> "removed"]
Written(obj) == [kind |-> "written", obj |-> obj]

\* create_*: subresources are initialised whatever the body says
Made(body, now) == Resource(now, now, FALSE, body.finalizers, body.owners, body.content, Fresh)

\* delete_*
Deleted(kind, obj, force) ==
    CASE kind.force /\ force -> Removed
      [] ~(kind.force /\ force) /\ obj.deleted -> Answered
      [] OTHER -> Written([obj EXCEPT !.deleted = TRUE, !.finalizers = @ \cup {Cascade}])

\* Faulty variant of Updated: a resource in deletion is never erased
UpdatedForever(kind, obj, body, now) ==
    IF body = obj THEN Refused
    ELSE Written([obj EXCEPT !.finalizers = body.finalizers, !.owners = body.owners,
                             !.content = body.content, !.modified = now])

\* Faulty variant of Updated: the status is taken from the body as well
UpdatedWhole(kind, obj, body, now) ==
    LET new == [body EXCEPT !.uid = obj.uid, !.deleted = obj.deleted, !.modified = now]
    IN  IF body = obj \/ (obj.deleted /\ ~(body.finalizers \subseteq obj.finalizers)) THEN Refused
        ELSE IF new.deleted /\ new.finalizers = {} THEN Removed ELSE Written(new)

\* update_*: uid, deletion mark and status are not the client's to change
Updated(kind, obj, body, now) ==
    LET new == [obj EXCEPT !.finalizers = body.finalizers, !.owners = body.owners,
                           !.content = body.content, !.modified = now]
    IN  IF \/ obj.deleted /\ ~(body.finalizers \subseteq obj.finalizers)
           \/ body = obj /\ kind.same = "refused" THEN Refused
        ELSE IF body = obj /\ kind.same = "answered" THEN Answered
        ELSE IF new.deleted /\ new.finalizers = {} THEN Removed ELSE Written(new)

\* update_*_status and update_*_binding
Reported(obj, body) == Written([obj EXCEPT !.status = body.status])
Bound(obj, target) == Written([obj EXCEPT !.status.bound = target, !.owners = @ \cup {target}])
=============================================================================
