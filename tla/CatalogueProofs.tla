-------------------------- MODULE CatalogueProofs --------------------------
(***************************************************************************)
(* Proofs about Catalogue: for any number of clients, commands, resources  *)
(* and insertions of the bootstrap tool, no resource takes the place of    *)
(* another one, requests reach the resource they are meant for and write   *)
(* only their part of it, and a resource in deletion has a finalizer.      *)
(***************************************************************************)
EXTENDS Catalogue, TLAPS

-----------------------------------------------------------------------------
(* Routing                                                                 *)

\* A kind as the server serves it and as the client library addresses it.
Agree(kind, client) ==
    /\ client = Addressed(kind.api, kind.resource, kind.namespaced)
    /\ kind.sub \subseteq {"binding", "status"}
    /\ kind.namespaced \in BOOLEAN

\* The classes of the client library address the kinds that they are named after
\* (krake/client and the routes of krake/api).
LEMMA ClientsAgree ==
    /\ Agree(GlobalMetric, GlobalMetricClient)
    /\ Agree(GlobalMetricsProvider, GlobalMetricsProviderClient)
    /\ Agree(Metric, MetricClient)
    /\ Agree(MetricsProvider, MetricsProviderClient)
    /\ Agree(Role, RoleClient)
    /\ Agree(RoleBinding, RoleBindingClient)
    /\ Agree(GlobalInfrastructureProvider, GlobalInfrastructureProviderClient)
    /\ Agree(InfrastructureProvider, InfrastructureProviderClient)
    /\ Agree(GlobalCloud, GlobalCloudClient)
    /\ Agree(Cloud, CloudClient)
    /\ Agree(MagnumCluster, MagnumClusterClient)
    /\ Agree(Project, ProjectClient)
    /\ Agree(Cluster, ClusterClient)
    /\ Agree(Application, ApplicationClient)
  BY DEF Agree, Addressed, Served,
        GlobalMetric, GlobalMetricsProvider, Metric, MetricsProvider, Role, RoleBinding,
        GlobalInfrastructureProvider, InfrastructureProvider, GlobalCloud, Cloud, MagnumCluster,
        Project, Cluster, Application,
        GlobalMetricClient, GlobalMetricsProviderClient, MetricClient, MetricsProviderClient,
        RoleClient, RoleBindingClient, GlobalInfrastructureProviderClient,
        InfrastructureProviderClient, GlobalCloudClient, CloudClient, MagnumClusterClient,
        ProjectClient, ClusterClient, ApplicationClient

\* No two kinds are served under the same name.
LEMMA ResourceNames ==
    /\ GlobalMetric.resource = "globalmetrics"
    /\ GlobalMetricsProvider.resource = "globalmetricsproviders"
    /\ Metric.resource = "metrics"
    /\ MetricsProvider.resource = "metricsproviders"
    /\ Role.resource = "roles"
    /\ RoleBinding.resource = "rolebindings"
    /\ GlobalInfrastructureProvider.resource = "globalinfrastructureproviders"
    /\ InfrastructureProvider.resource = "infrastructureproviders"
    /\ GlobalCloud.resource = "globalclouds"
    /\ Cloud.resource = "clouds"
    /\ MagnumCluster.resource = "magnumclusters"
    /\ Project.resource = "projects"
    /\ Cluster.resource = "clusters"
    /\ Application.resource = "applications"
  BY DEF Served,
        GlobalMetric, GlobalMetricsProvider, Metric, MetricsProvider, Role, RoleBinding,
        GlobalInfrastructureProvider, InfrastructureProvider, GlobalCloud, Cloud, MagnumCluster,
        Project, Cluster, Application

\* A kind is found by its name (the prefixes of the routes).
LEMMA KindsApart ==
    ASSUME NEW k \in Kinds, NEW l \in Kinds, k.resource = l.resource
    PROVE  k = l
  BY ResourceNames DEF Kinds

\* The method of a client class addresses the kind of the command.
LEMMA ClientAddresses ==
    ASSUME NEW kind \in Kinds
    PROVE  Agree(kind, ClientOf(kind))
  <1>1. CASE kind = GlobalMetric
    BY <1>1, ResourceNames, ClientsAgree, Zenon DEF ClientOf
  <1>2. CASE kind = GlobalMetricsProvider
    BY <1>2, ResourceNames, ClientsAgree, Zenon DEF ClientOf
  <1>3. CASE kind = Metric
    BY <1>3, ResourceNames, ClientsAgree, Zenon DEF ClientOf
  <1>4. CASE kind = MetricsProvider
    BY <1>4, ResourceNames, ClientsAgree, Zenon DEF ClientOf
  <1>5. CASE kind = Role
    BY <1>5, ResourceNames, ClientsAgree, Zenon DEF ClientOf
  <1>6. CASE kind = RoleBinding
    BY <1>6, ResourceNames, ClientsAgree, Zenon DEF ClientOf
  <1>7. CASE kind = GlobalInfrastructureProvider
    BY <1>7, ResourceNames, ClientsAgree, Zenon DEF ClientOf
  <1>8. CASE kind = InfrastructureProvider
    BY <1>8, ResourceNames, ClientsAgree, Zenon DEF ClientOf
  <1>9. CASE kind = GlobalCloud
    BY <1>9, ResourceNames, ClientsAgree, Zenon DEF ClientOf
  <1>10. CASE kind = Cloud
    BY <1>10, ResourceNames, ClientsAgree, Zenon DEF ClientOf
  <1>11. CASE kind = MagnumCluster
    BY <1>11, ResourceNames, ClientsAgree, Zenon DEF ClientOf
  <1>12. CASE kind = Project
    BY <1>12, ResourceNames, ClientsAgree, Zenon DEF ClientOf
  <1>13. CASE kind = Cluster
    BY <1>13, ResourceNames, ClientsAgree, Zenon DEF ClientOf
  <1>14. CASE kind = Application
    BY <1>14, ResourceNames, ClientsAgree, Zenon DEF ClientOf
  <1> QED BY <1>1, <1>2, <1>3, <1>4, <1>5, <1>6, <1>7, <1>8, <1>9, <1>10, <1>11, <1>12, <1>13, <1>14 DEF Kinds

Operations == {"create", "read", "list", "list_all", "update", "delete", "binding", "status"}

\* A command is one of the operations of the API.
LEMMA CommandKnown ==
    ASSUME NEW cmd, IsCommand(cmd)
    PROVE  cmd.op \in Operations
  <1>1. cmd.kind.sub \subseteq {"binding", "status"}
    BY ClientAddresses DEF IsCommand, Agree
  <1> QED BY <1>1 DEF IsCommand, Operations

\* Every request of a command reaches the handler that it is meant for
\* (methods of krake/client, routes of krake/api).
LEMMA RoutedAsAsked ==
    ASSUME NEW r, IsCommand(r.cmd),
           r.op = r.cmd.op \/ (r.op = "read" /\ r.cmd.op \in {"update", "status"})
    PROVE  /\ Matched(r).kind = r.cmd.kind
           /\ Matched(r).op = r.op
           /\ r.op # "list_all" => Matched(r).namespace = r.cmd.namespace
  <1> DEFINE kind == r.cmd.kind
             path == PathOf(ClientOf(kind), r.op, r.cmd.namespace, r.cmd.name)
             found == CHOOSE k \in Kinds : k.api = path.api /\ k.resource = path.resource
  <1>1. kind \in Kinds /\ r.cmd.name # Null /\ (r.cmd.namespace # Null) = kind.namespaced
    BY DEF IsCommand
  <1>2. path = Path(kind.api, kind.resource,
                    IF kind.namespaced /\ r.op # "list_all" THEN r.cmd.namespace ELSE Null,
                    IF r.op \in {"create", "list", "list_all"} THEN Null ELSE r.cmd.name,
                    IF r.op \in {"binding", "status"} THEN r.op ELSE Null)
    BY <1>1, ClientAddresses DEF Agree, PathOf, Addressed
  <1>3. path.api = kind.api /\ path.resource = kind.resource
    BY <1>2 DEF Path
  <1>4. found \in Kinds /\ found.resource = kind.resource
    BY <1>1, <1>3
  <1>5. found = kind
    BY <1>1, <1>4, KindsApart
  <1>6. Matched(r) = [kind |-> kind, op |-> Route(kind, Method(r.op), path), namespace |-> path.namespace]
    BY <1>5 DEF Matched
  <1>7. \/ r.op \in {"create", "read", "list", "update", "delete"}
        \/ r.op \in kind.sub /\ r.op \in {"binding", "status"}
        \/ r.op = "list_all" /\ kind.namespaced
    BY <1>1, ClientAddresses DEF IsCommand, Agree
  <1>8. kind.namespaced \in BOOLEAN
    BY <1>1, ClientAddresses DEF Agree
  <1> HIDE DEF kind, path, found
  <1>9. /\ path.namespace = IF kind.namespaced /\ r.op # "list_all" THEN r.cmd.namespace ELSE Null
        /\ path.name = IF r.op \in {"create", "list", "list_all"} THEN Null ELSE r.cmd.name
        /\ path.sub = IF r.op \in {"binding", "status"} THEN r.op ELSE Null
    BY <1>2 DEF Path
  <1>10. Route(kind, Method(r.op), path) = r.op
    <2>0. Null \notin kind.sub /\ Null \notin {"binding", "status"}
      BY <1>1, ClientAddresses, CatalogueAssumption DEF Agree
    <2>1. CASE r.op \in {"create", "list"}
      BY <2>1, <1>1, <1>8, <1>9 DEF Route, Method
    <2>2. CASE r.op = "list_all"
      BY <2>2, <1>1, <1>7, <1>8, <1>9 DEF Route, Method
    <2>3. CASE r.op \in {"read", "update", "delete"}
      BY <2>0, <2>3, <1>1, <1>8, <1>9 DEF Route, Method
    <2>4. CASE r.op \in kind.sub /\ r.op \in {"binding", "status"}
      BY <2>0, <2>4, <1>1, <1>8, <1>9 DEF Route, Method
    <2> QED BY <1>7, <2>1, <2>2, <2>3, <2>4
  <1>11. r.op # "list_all" => path.namespace = r.cmd.namespace
    BY <1>1, <1>8, <1>9
  <1> QED BY <1>6, <1>10, <1>11 DEF kind

-----------------------------------------------------------------------------
(* What the handlers make of a resource                                    *)

\* A decision of a handler: nothing to write, or a resource that keeps what is
\* not the operation's to change
Proper(op, obj, outcome) ==
    \/ outcome \in {Refused, Answered, Removed}
    \/ \E new : outcome = Written(new) /\ IsResource(new) /\ Keeps(op, obj, new)

\* A deletion marks the resource and adds a finalizer, or removes it (delete_*).
LEMMA DeletedProper ==
    ASSUME NEW kind, NEW obj, NEW force, IsResource(obj)
    PROVE  Proper("delete", obj, Deleted(kind, obj, force))
  <1> DEFINE new == [obj EXCEPT !.deleted = TRUE, !.finalizers = @ \cup {Cascade}]
  <1>1. Deleted(kind, obj, force) \in {Removed, Answered, Written(new)}
    BY Zenon DEF Deleted
  <1>2. IsResource(new) /\ Keeps("delete", obj, new)
    BY DEF IsResource, Resource, Keeps
  <1> HIDE DEF new
  <1> QED BY <1>1, <1>2 DEF Proper

\* An update leaves uid, deletion mark and status alone and erases a resource in
\* deletion with its last finalizer (update_*).
LEMMA UpdatedProper ==
    ASSUME NEW kind, NEW obj, NEW body, NEW now, IsResource(obj)
    PROVE  Proper("update", obj, Updated(kind, obj, body, now))
  <1> DEFINE new == [obj EXCEPT !.finalizers = body.finalizers, !.owners = body.owners,
                                !.content = body.content, !.modified = now]
  <1>1. \/ Updated(kind, obj, body, now) \in {Refused, Answered, Removed}
        \/ Updated(kind, obj, body, now) = Written(new) /\ ~(new.deleted /\ new.finalizers = {})
    BY Zenon DEF Updated
  <1>2. ~(new.deleted /\ new.finalizers = {}) => IsResource(new) /\ Keeps("update", obj, new)
    BY DEF IsResource, Resource, Keeps
  <1> HIDE DEF new
  <1> QED BY <1>1, <1>2 DEF Proper

\* A report changes the status and nothing else (update_*_status).
LEMMA ReportedProper ==
    ASSUME NEW obj, NEW body, IsResource(obj)
    PROVE  Proper("status", obj, Reported(obj, body))
  <1> DEFINE new == [obj EXCEPT !.status = body.status]
  <1>1. IsResource(new) /\ Keeps("status", obj, new)
    BY DEF IsResource, Resource, Keeps
  <1>2. Reported(obj, body) = Written(new)
    BY DEF Reported
  <1> HIDE DEF new
  <1> QED BY <1>1, <1>2 DEF Proper

\* A binding keeps the resource apart from its status and owners (update_*_binding).
LEMMA BoundProper ==
    ASSUME NEW obj, NEW target, IsResource(obj)
    PROVE  Proper("binding", obj, Bound(obj, target))
  <1> DEFINE new == [obj EXCEPT !.status.bound = target, !.owners = @ \cup {target}]
  <1>1. IsResource(new) /\ Keeps("binding", obj, new)
    BY DEF IsResource, Resource, Keeps
  <1>2. Bound(obj, target) = Written(new)
    BY DEF Bound
  <1> HIDE DEF new
  <1> QED BY <1>1, <1>2 DEF Proper

\* What a handler decides is proper.
LEMMA OutcomeProper ==
    ASSUME NEW c, NEW obj, IsResource(obj),
           OpServed(c) \in {"delete", "update", "status", "binding"}
    PROVE  Proper(OpServed(c), obj, Outcome(c, obj))
  <1>1. CASE OpServed(c) = "delete"
    BY <1>1, DeletedProper, Zenon DEF Outcome
  <1>2. CASE OpServed(c) = "update"
    BY <1>2, UpdatedProper, Zenon DEF Outcome
  <1>3. CASE OpServed(c) = "status"
    BY <1>3, ReportedProper, Zenon DEF Outcome
  <1>4. CASE OpServed(c) = "binding"
    BY <1>4, BoundProper, Zenon DEF Outcome
  <1> QED BY <1>1, <1>2, <1>3, <1>4

-----------------------------------------------------------------------------
(* Writes to the database                                                  *)

\* What a step may do to the database: no row, or one that is erased, new, or
\* written for the same resource
StoreStep ==
    \/ UNCHANGED Stored
    \/ \E key \in DOMAIN db : Erase(key)
    \/ \E key \in DOMAIN db : \E obj :
         Put(key, obj) /\ IsResource(obj) /\ (db[key] # Null => obj.uid = db[key].obj.uid)

\* Every row is the same, gone, or newer than everything before
Aged ==
    /\ DOMAIN db' = DOMAIN db
    /\ revision' \in Nat /\ revision <= revision'
    /\ \A k \in DOMAIN db : \/ db'[k] = db[k]
                            \/ db'[k] = Null
                            \/ db'[k].mod > revision

\* Such a step keeps the rows whole and does not replace a resource by another
\* one (Session.put, Session.delete).
LEMMA StoreKept ==
    ASSUME RowsWhole, StoreStep
    PROVE  /\ RowsWhole' /\ Aged
           /\ \A k \in DOMAIN db : db[k] # Null /\ db'[k] # Null => db'[k].obj.uid = db[k].obj.uid
  <1>1. CASE UNCHANGED Stored
    BY <1>1 DEF RowsWhole, Stored, Aged
  <1>2. ASSUME NEW key \in DOMAIN db, Erase(key)
        PROVE  /\ RowsWhole' /\ Aged
               /\ \A k \in DOMAIN db : db[k] # Null /\ db'[k] # Null => db'[k].obj.uid = db[k].obj.uid
    <2>1. db' = [db EXCEPT ![key] = Null] /\ revision' = revision + 1
      BY <1>2 DEF Erase
    <2>2. DOMAIN db' = DOMAIN db /\ db' = [k \in DOMAIN db' |-> db'[k]]
      BY <2>1 DEF RowsWhole
    <2>3. \A k \in DOMAIN db : db'[k] = IF k = key THEN Null ELSE db[k]
      BY <2>1
    <2>4. revision' \in Nat /\ revision < revision'
      BY <2>1 DEF RowsWhole
    <2>5. ASSUME NEW k \in DOMAIN db, db'[k] # Null
          PROVE  IsResource(db'[k].obj) /\ db'[k].mod \in Nat /\ db'[k].mod <= revision'
      BY <2>3, <2>4, <2>5 DEF RowsWhole
    <2> QED BY <2>2, <2>3, <2>4, <2>5 DEF RowsWhole, Aged
  <1>3. ASSUME NEW key \in DOMAIN db, NEW obj, Put(key, obj), IsResource(obj),
               db[key] # Null => obj.uid = db[key].obj.uid
        PROVE  /\ RowsWhole' /\ Aged
               /\ \A k \in DOMAIN db : db[k] # Null /\ db'[k] # Null => db'[k].obj.uid = db[k].obj.uid
    <2>1. db' = [db EXCEPT ![key] = Row(obj)] /\ revision' = revision + 1
      BY <1>3 DEF Put
    <2>2. DOMAIN db' = DOMAIN db /\ db' = [k \in DOMAIN db' |-> db'[k]]
      BY <2>1 DEF RowsWhole
    <2>3. \A k \in DOMAIN db : db'[k] = IF k = key THEN Row(obj) ELSE db[k]
      BY <2>1
    <2>4. revision' \in Nat /\ revision < revision'
      BY <2>1 DEF RowsWhole
    <2>5. Row(obj).obj = obj /\ Row(obj).mod = revision'
      BY <2>1 DEF Row
    <2>6. ASSUME NEW k \in DOMAIN db, db'[k] # Null
          PROVE  IsResource(db'[k].obj) /\ db'[k].mod \in Nat /\ db'[k].mod <= revision'
      BY <1>3, <2>3, <2>4, <2>5, <2>6 DEF RowsWhole
    <2>7. \A k \in DOMAIN db : db[k] # Null /\ db'[k] # Null => db'[k].obj.uid = db[k].obj.uid
      BY <1>3, <2>3, <2>5
    <2>8. Aged
      BY <2>2, <2>3, <2>4, <2>5 DEF Aged, RowsWhole
    <2> QED BY <2>2, <2>4, <2>6, <2>7, <2>8 DEF RowsWhole
  <1> QED BY <1>1, <1>2, <1>3 DEF StoreStep

\* A command whose client does nothing is not affected: the revision tells what
\* was loaded from what is there now.
LEMMA CallKept ==
    ASSUME CatalogueInv, Aged, NEW c \in Clients, call'[c] = call[c]
    PROVE  (IsCall(call[c]) /\ ServedAsAsked(call[c]) /\ Decided(call[c]))'
  <1>1. IsCall(call[c]) /\ ServedAsAsked(call[c]) /\ Decided(call[c]) /\ RowsWhole
    BY DEF CatalogueInv
  <1>2. IsCall(call[c])'
    BY <1>1 DEF IsCall, Aged
  <1>3. ServedAsAsked(call[c])'
    BY <1>1 DEF ServedAsAsked
  <1>4. Decided(call[c])'
    <2>1. SUFFICES ASSUME call[c].at = "commit", call[c].loaded # Null
                   PROVE  /\ call[c].loaded.mod <= revision'
                          /\ Same(Target(call[c].cmd), call[c].loaded)'
                               => db'[Target(call[c].cmd)] = call[c].loaded
      BY <1>1 DEF Decided
    <2>2. Target(call[c].cmd) \in DOMAIN db
      BY <1>1, <2>1 DEF IsCall
    <2>3. call[c].loaded.mod \in Nat /\ call[c].loaded.mod <= revision /\ revision \in Nat
      BY <1>1, <2>1 DEF Decided, RowsWhole
    <2> QED BY <1>1, <2>1, <2>2, <2>3 DEF Decided, Same, Aged
  <1> QED BY <1>2, <1>3, <1>4

-----------------------------------------------------------------------------
(* The steps of a command                                                  *)

\* The command of a client is in order after the step
Fine(c) == (IsCall(call[c]) /\ ServedAsAsked(call[c]) /\ Decided(call[c]))'

\* A step of a client writes at most the resource that its command names, and
\* only the part of it that the operation may write
Writes(c) ==
    LET key == Target(call[c].cmd) IN
    \/ UNCHANGED Stored
    \/ /\ key \in DOMAIN db /\ call'[c].cmd = call[c].cmd
       /\ \/ Erase(key)
          \/ \E obj : /\ Put(key, obj) /\ IsResource(obj)
                      /\ db[key] # Null => Keeps(call[c].op, db[key].obj, obj)

\* What is known about the command of a client before the step.
LEMMA CallBefore ==
    ASSUME CatalogueInv, NEW c \in Clients
    PROVE  /\ IsCall(call[c]) /\ ServedAsAsked(call[c]) /\ Decided(call[c])
           /\ RowsWhole /\ c \in DOMAIN call
           /\ \A new : Is(c, new) => call'[c] = new
  BY DEF CatalogueInv, Is

\* A command that ends is in order.
LEMMA EndsFine ==
    ASSUME CatalogueInv, NEW c \in Clients, NEW answer, answer # "no route", Ends(c, answer)
    PROVE  Fine(c) /\ call'[c].cmd = call[c].cmd
  <1>1. call'[c] = [Waiting EXCEPT !.at = "done", !.cmd = call[c].cmd, !.answer = answer]
    BY CallBefore DEF Ends
  <1> QED BY <1>1 DEF Fine, Waiting, IsCall, Serving, ServedAsAsked, Decided

\* A request that is sent is in order.
LEMMA SendsFine ==
    ASSUME CatalogueInv, NEW c \in Clients, UNCHANGED Stored, NEW cmd, NEW op, NEW body,
           IsCommand(cmd), Target(cmd) \in DOMAIN db,
           op = cmd.op \/ (op = "read" /\ cmd.op \in {"update", "status"}),
           Sends(c, cmd, op, body)
    PROVE  Fine(c)
  <1>1. call'[c] = [call[c] EXCEPT !.at = "sent", !.cmd = cmd, !.op = op, !.body = body, !.tries = 0]
    BY CallBefore DEF Sends
  <1>2. IsCall(call[c]) /\ ServedAsAsked(call[c])
    BY CallBefore
  <1>3. /\ call'[c].at = "sent" /\ call'[c].cmd = cmd /\ call'[c].op = op
        /\ call'[c].answer = call[c].answer
    BY <1>1, <1>2 DEF IsCall
  <1>4. IsCall(call[c])'
    BY <1>1, <1>2, <1>3 DEF IsCall, Serving, Stored
  <1> QED BY <1>2, <1>3, <1>4 DEF Fine, Serving, ServedAsAsked, Decided

\* A command starts (krakectl).
LEMMA StartFine ==
    ASSUME CatalogueInv, NEW c \in Clients, Start(c)
    PROVE  Fine(c) /\ UNCHANGED Stored
  <1>1. PICK cmd \in pending[c] :
          \/ call' = [call EXCEPT ![c] = [call[c] EXCEPT !.at = "done", !.cmd = cmd, !.answer = "exit"]]
          \/ cmd.op = "create" /\ \E body : Sends(c, cmd, "create", body)
          \/ cmd.op # "create" /\ Sends(c, cmd, IF cmd.op \in {"update", "status"} THEN "read" ELSE cmd.op, Null)
    BY DEF Start, Is
  <1>2. IsCommand(cmd) /\ Target(cmd) \in DOMAIN db
    BY DEF CatalogueInv
  <1>3. UNCHANGED Stored
    BY DEF Start
  <1>4. CASE call' = [call EXCEPT ![c] = [call[c] EXCEPT !.at = "done", !.cmd = cmd, !.answer = "exit"]]
    <2>1. call'[c] = [call[c] EXCEPT !.at = "done", !.cmd = cmd, !.answer = "exit"]
      BY <1>4, CallBefore DEF Is
    <2> QED BY <2>1, <1>3, CallBefore DEF Fine, IsCall, Serving, ServedAsAsked, Decided
  <1> QED BY <1>1, <1>2, <1>3, <1>4, SendsFine

\* The resource is edited and put back (krakectl, Client.update_*).
LEMMA EditFine ==
    ASSUME CatalogueInv, NEW c \in Clients, Edit(c)
    PROVE  Fine(c) /\ UNCHANGED Stored
  <1>1. call[c].at = "edit" /\ UNCHANGED Stored
    BY DEF Edit
  <1>2. /\ IsCommand(call[c].cmd) /\ Target(call[c].cmd) \in DOMAIN db
        /\ call[c].cmd.op \in {"update", "status"}
    BY <1>1, CallBefore DEF IsCall, Serving
  <1>3. \/ Ends(c, "exit")
        \/ \E body : Sends(c, call[c].cmd, call[c].cmd.op, body)
    <2>1. CASE call[c].cmd.op = "status"
      BY <2>1, Zenon DEF Edit
    <2>2. CASE call[c].cmd.op = "update"
      BY <2>2, Zenon DEF Edit
    <2> QED BY <1>2, <2>1, <2>2
  <1> QED BY <1>1, <1>2, <1>3, EndsFine, SendsFine

\* A request is routed to its handler (auth_middleware, routes).
LEMMA ArriveFine ==
    ASSUME CatalogueInv, NEW c \in Clients, Arrive(c)
    PROVE  Fine(c) /\ UNCHANGED Stored
  <1> DEFINE found == Matched(call[c])
             user == User(setting.config, setting.credentials)
  <1>1. call[c].at = "sent" /\ UNCHANGED Stored
    BY DEF Arrive
  <1>2. IsCall(call[c]) /\ ServedAsAsked(call[c]) /\ IsCommand(call[c].cmd)
    BY <1>1, CallBefore DEF IsCall, Serving
  <1>3. /\ found.kind = call[c].cmd.kind
        /\ found.op = call[c].op
        /\ call[c].op # "list_all" => found.namespace = call[c].cmd.namespace
    BY <1>1, <1>2, RoutedAsAsked DEF IsCall
  <1>4. found.op # Null
    <2>1. call[c].op = call[c].cmd.op \/ call[c].op = "read"
      BY <1>1, <1>2 DEF IsCall
    <2>2. call[c].op \in Operations
      BY <1>2, <2>1, CommandKnown DEF Operations
    <2> QED BY <1>3, <2>2, CatalogueAssumption DEF Operations
  <1>5. \/ Ends(c, "unauthorized")
        \/ Is(c, [call[c] EXCEPT !.at = "protected", !.user = user, !.served = found])
    BY <1>4, Zenon DEF Arrive
  <1>6. CASE Is(c, [call[c] EXCEPT !.at = "protected", !.user = user, !.served = found])
    <2> HIDE DEF found, user
    <2>1. call'[c] = [call[c] EXCEPT !.at = "protected", !.user = user, !.served = found]
      BY <1>6, CallBefore
    <2> QED
      BY <2>1, <1>1, <1>2, <1>3 DEF Fine, IsCall, Serving, ServedAsAsked, Decided, Stored
  <1> QED BY <1>1, <1>5, <1>6, EndsFine

\* The key that a handler works on is the one that the command names.
LEMMA KeyIsTarget ==
    ASSUME CatalogueInv, NEW c \in Clients, call[c].at \in Serving
    PROVE  /\ OpServed(c) = call[c].op
           /\ IsCommand(call[c].cmd) /\ Target(call[c].cmd) \in DOMAIN db
           /\ call[c].op # "list_all" => KeyServed(c) = Target(call[c].cmd)
           /\ call[c].op \in Operations
  <1>1. IsCall(call[c]) /\ ServedAsAsked(call[c])
    BY CallBefore
  <1>2. IsCommand(call[c].cmd) /\ Target(call[c].cmd) \in DOMAIN db
    BY <1>1 DEF IsCall, Serving
  <1>3. call[c].op = call[c].cmd.op \/ call[c].op = "read"
    BY <1>1 DEF IsCall, Serving
  <1>4. call[c].op \in Operations
    BY <1>2, <1>3, CommandKnown DEF Operations
  <1> QED BY <1>1, <1>2, <1>4 DEF ServedAsAsked, OpServed, KeyServed, KindServed, Target

\* A step on the way to the handler: only the point and the roles to look at change
Proceeds(c, at) ==
    \/ Is(c, [call[c] EXCEPT !.at = at])
    \/ \E roles : Is(c, [call[c] EXCEPT !.at = at, !.roles = roles])
    \/ \E roles : Is(c, [call[c] EXCEPT !.roles = roles])

\* Such a step leaves the command in order.
LEMMA ProceedsFine ==
    ASSUME CatalogueInv, NEW c \in Clients, NEW at \in {"roles", "handler"},
           call[c].at \in {"protected", "roles"}, UNCHANGED Stored, Proceeds(c, at)
    PROVE  Fine(c)
  <1>1. IsCall(call[c]) /\ ServedAsAsked(call[c])
    BY CallBefore
  <1>2. PICK roles : \/ call'[c] = [call[c] EXCEPT !.at = at]
                     \/ call'[c] = [call[c] EXCEPT !.at = at, !.roles = roles]
                     \/ call'[c] = [call[c] EXCEPT !.roles = roles]
    BY CallBefore DEF Proceeds
  <1>3. /\ call'[c].at \in {"protected", "roles", "handler"}
        /\ call'[c].cmd = call[c].cmd /\ call'[c].op = call[c].op
        /\ call'[c].served = call[c].served /\ call'[c].answer = call[c].answer
    BY <1>1, <1>2 DEF IsCall
  <1>4. IsCall(call[c])'
    BY <1>1, <1>2, <1>3 DEF IsCall, Serving, Stored
  <1> QED BY <1>1, <1>3, <1>4 DEF Fine, Serving, ServedAsAsked, Decided

\* The authorization of a request (protected, rbac).
LEMMA AuthorizeFine ==
    ASSUME CatalogueInv, NEW c \in Clients, Authorize(c) \/ CheckRole(c)
    PROVE  Fine(c) /\ UNCHANGED Stored
  <1>1. call[c].at \in {"protected", "roles"} /\ UNCHANGED Stored
    BY DEF Authorize, CheckRole
  <1>2. \/ Ends(c, "forbidden") \/ Ends(c, "unauthorized")
        \/ \E at \in {"roles", "handler"} : Proceeds(c, at)
    <2>1. CASE Authorize(c)
      <3> DEFINE keys  == [i \in DOMAIN setting.bindings |-> KeyOf(RoleBinding, Null, setting.bindings[i])]
                 found == SelectSeq(keys, LAMBDA k : db[k] # Null)
                 names == RolesOf([i \in DOMAIN found |-> db[found[i]].obj.content], call[c].user)
      <3>1. \/ Ends(c, "forbidden") \/ Ends(c, "unauthorized")
            \/ Is(c, [call[c] EXCEPT !.at = "handler"])
            \/ Is(c, [call[c] EXCEPT !.at = "roles", !.roles = names])
        BY <2>1, Zenon DEF Authorize
      <3> HIDE DEF names
      <3> QED BY <3>1, Zenon DEF Proceeds
    <2>2. CASE CheckRole(c)
      <3>1. \/ Ends(c, "forbidden")
            \/ Is(c, [call[c] EXCEPT !.at = "handler", !.roles = <<>>])
            \/ Is(c, [call[c] EXCEPT !.roles = Tail(@)])
        BY <2>2, Zenon DEF CheckRole
      <3> QED BY <3>1, Zenon DEF Proceeds
    <2> QED BY <2>1, <2>2
  <1> QED BY <1>1, <1>2, EndsFine, ProceedsFine

\* The schema check, @load and the decisions of the template (create_*, read_*,
\* update_*, update_*_status, update_*_binding, delete_*).
LEMMA CreateFine ==
    ASSUME CatalogueInv, NEW c \in Clients, call[c].at = "handler", call[c].op = "create",
           HandleCreate(c)
    PROVE  Fine(c) /\ Writes(c)
  <1> DEFINE key == Target(call[c].cmd)
             new == Made(call[c].body, revision + 1)
  <1>1. /\ KeyServed(c) = key /\ key \in DOMAIN db
        /\ IsCall(call[c]) /\ ServedAsAsked(call[c]) /\ RowsWhole
    BY KeyIsTarget, CallBefore DEF Serving
  <1>2. IsResource(new)
    BY DEF Made, Resource, IsResource
  <1> HIDE DEF new, key
  <1>3. CASE Ends(c, "exists") /\ UNCHANGED Stored
    BY <1>3, EndsFine DEF Writes
  <1>4. CASE db[key] = Null /\ Put(key, new) /\ Ends(c, "ok")
    BY <1>1, <1>2, <1>4, EndsFine DEF Writes, key
  <1>5. CASE /\ Is(c, [call[c] EXCEPT !.at = "commit", !.loaded = Null, !.outcome = Written(new)])
             /\ UNCHANGED Stored
    <2>1. call'[c] = [call[c] EXCEPT !.at = "commit", !.loaded = Null, !.outcome = Written(new)]
      BY <1>5, CallBefore
    <2>2. /\ call'[c].at = "commit" /\ call'[c].loaded = Null /\ call'[c].outcome = Written(new)
          /\ call'[c].cmd = call[c].cmd /\ call'[c].op = call[c].op
          /\ call'[c].served = call[c].served /\ call'[c].answer = call[c].answer
      BY <2>1, <1>1 DEF IsCall
    <2>3. IsCall(call[c])'
      BY <2>1, <2>2, <1>1, <1>5 DEF IsCall, Serving, Stored
    <2>4. Decided(call[c])'
      BY <2>2, <1>2 DEF Decided, Written
    <2> QED BY <1>1, <1>5, <2>2, <2>3, <2>4 DEF Fine, ServedAsAsked, Serving, Writes
  <1> QED BY <1>1, <1>3, <1>4, <1>5 DEF HandleCreate, key, new

\* The handlers of the other operations, from @load to their decision.
LEMMA LoadFine ==
    ASSUME CatalogueInv, NEW c \in Clients, call[c].at = "handler", UNCHANGED Stored,
           call[c].op \in {"delete", "update", "status", "binding"},
           db[KeyServed(c)] # Null,
           Is(c, [call[c] EXCEPT !.at = "commit", !.loaded = db[KeyServed(c)],
                                 !.outcome = Outcome(c, db[KeyServed(c)].obj)]),
           Outcome(c, db[KeyServed(c)].obj) \notin {Refused, Answered}
    PROVE  Fine(c)
  <1> DEFINE key == Target(call[c].cmd)
             out == Outcome(c, db[key].obj)
  <1>1. /\ KeyServed(c) = key /\ key \in DOMAIN db /\ OpServed(c) = call[c].op
        /\ IsCall(call[c]) /\ ServedAsAsked(call[c]) /\ RowsWhole
    BY KeyIsTarget, CallBefore DEF Serving
  <1>2. IsResource(db[key].obj) /\ db[key].mod \in Nat /\ db[key].mod <= revision
    BY <1>1 DEF RowsWhole
  <1>3. Proper(call[c].op, db[key].obj, out)
    BY <1>1, <1>2, OutcomeProper
  <1> HIDE DEF key, out
  <1>4. \/ out = Removed
        \/ /\ out = Written(out.obj) /\ IsResource(out.obj)
           /\ Keeps(call[c].op, db[key].obj, out.obj)
    <2>1. CASE out \in {Refused, Answered, Removed}
      BY <2>1, <1>1 DEF out
    <2>2. CASE \E new : out = Written(new) /\ IsResource(new) /\ Keeps(call[c].op, db[key].obj, new)
      <3>1. PICK new : out = Written(new) /\ IsResource(new) /\ Keeps(call[c].op, db[key].obj, new)
        BY <2>2
      <3>2. out.obj = new
        BY <3>1 DEF Written
      <3> QED BY <3>1, <3>2
    <2> QED BY <1>3, <2>1, <2>2 DEF Proper
  <1>5. call'[c] = [call[c] EXCEPT !.at = "commit", !.loaded = db[key], !.outcome = out]
    BY <1>1, CallBefore DEF out
  <1>6. /\ call'[c].at = "commit" /\ call'[c].loaded = db[key] /\ call'[c].outcome = out
        /\ call'[c].cmd = call[c].cmd /\ call'[c].op = call[c].op
        /\ call'[c].served = call[c].served /\ call'[c].answer = call[c].answer
    BY <1>1, <1>5 DEF IsCall
  <1>7. IsCall(call[c])'
    BY <1>1, <1>5, <1>6 DEF IsCall, Serving, Stored
  <1>8. ServedAsAsked(call[c])'
    BY <1>1, <1>6 DEF ServedAsAsked, Serving
  <1>9. Decided(call[c])'
    <2>1. db' = db /\ revision' = revision /\ Target(call'[c].cmd) = key
      BY <1>6 DEF Stored, key
    <2> QED BY <1>2, <1>4, <1>6, <2>1 DEF Decided
  <1> QED BY <1>7, <1>8, <1>9 DEF Fine

\* The handlers of all operations up to their write.
LEMMA HandleFine ==
    ASSUME CatalogueInv, NEW c \in Clients, Handle(c)
    PROVE  Fine(c) /\ Writes(c)
  <1> DEFINE row == db[KeyServed(c)]
             out == Outcome(c, row.obj)
             on  == [call[c] EXCEPT !.loaded = row, !.outcome = out]
  <1>1. call[c].at = "handler" /\ IsCall(call[c]) /\ ServedAsAsked(call[c])
    BY CallBefore DEF Handle
  <1>2. OpServed(c) = call[c].op /\ call[c].op \in Operations
    BY <1>1, KeyIsTarget DEF Serving
  <1>3. on.outcome = out /\ [on EXCEPT !.at = "commit"]
          = [call[c] EXCEPT !.at = "commit", !.loaded = row, !.outcome = out]
    BY <1>1 DEF IsCall
  <1>4. \/ /\ Ends(c, "ok") \/ Ends(c, "invalid") \/ Ends(c, "missing") \/ Ends(c, "refused")
           /\ UNCHANGED Stored
        \/ OpServed(c) = "create" /\ HandleCreate(c)
        \/ /\ UNCHANGED Stored /\ OpServed(c) = "read" /\ call[c].cmd.op # "read"
           /\ Is(c, [call[c] EXCEPT !.at = "edit", !.base = row])
        \/ /\ UNCHANGED Stored /\ row # Null
           /\ OpServed(c) \notin {"list", "list_all", "read", "create"}
           /\ on.outcome \notin {Refused, Answered}
           /\ Is(c, [on EXCEPT !.at = "commit"])
    <2> HIDE DEF row, out
    <2> QED BY Zenon DEF Handle, row, out
  <1>5. CASE /\ UNCHANGED Stored /\ OpServed(c) = "read" /\ call[c].cmd.op # "read"
             /\ Is(c, [call[c] EXCEPT !.at = "edit", !.base = row])
    <2>1. call'[c] = [call[c] EXCEPT !.at = "edit", !.base = row]
      BY <1>5, CallBefore
    <2>2. call[c].cmd.op \in {"update", "status"}
      BY <1>1, <1>2, <1>5 DEF IsCall, Serving
    <2> QED
      BY <1>1, <1>5, <2>1, <2>2 DEF Fine, IsCall, Serving, ServedAsAsked, Decided, Stored, Writes
  <1>6. CASE /\ UNCHANGED Stored /\ row # Null
             /\ OpServed(c) \notin {"list", "list_all", "read", "create"}
             /\ on.outcome \notin {Refused, Answered}
             /\ Is(c, [on EXCEPT !.at = "commit"])
    BY <1>1, <1>2, <1>3, <1>6, LoadFine DEF Operations, Writes
  <1> HIDE DEF row, out, on
  <1> QED BY <1>1, <1>2, <1>4, <1>5, <1>6, EndsFine, CreateFine DEF Writes

\* The write of a handler, or the conflict that it meets (retry_transaction).
LEMMA CommitFine ==
    ASSUME CatalogueInv, NEW c \in Clients, Commit(c)
    PROVE  Fine(c) /\ Writes(c)
  <1> DEFINE key == Target(call[c].cmd)
             out == call[c].outcome
             loaded == call[c].loaded
  <1>1. call[c].at = "commit" /\ IsCall(call[c]) /\ ServedAsAsked(call[c]) /\ Decided(call[c])
    BY CallBefore DEF Commit
  <1>2. KeyServed(c) = key /\ key \in DOMAIN db
    <2>1. call[c].op # "list_all"
      BY <1>1 DEF Decided
    <2> QED BY <1>1, <2>1, KeyIsTarget DEF Serving
  <1> HIDE DEF key
  <1>3. CASE Conflict(c) /\ UNCHANGED Stored
    <2>1. CASE Ends(c, "conflict")
      BY <1>3, <2>1, EndsFine DEF Writes
    <2>2. CASE Is(c, [call[c] EXCEPT !.at = "protected", !.loaded = Null, !.outcome = Null, !.tries = @ + 1])
      <3>1. call'[c] = [call[c] EXCEPT !.at = "protected", !.loaded = Null, !.outcome = Null, !.tries = @ + 1]
        BY <2>2, CallBefore
      <3>2. /\ call'[c].at = "protected"
            /\ call'[c].cmd = call[c].cmd /\ call'[c].op = call[c].op
            /\ call'[c].served = call[c].served /\ call'[c].answer = call[c].answer
        BY <1>1, <3>1 DEF IsCall
      <3>3. IsCall(call[c])'
        BY <1>1, <1>3, <3>1, <3>2 DEF IsCall, Serving, Stored
      <3> QED BY <1>1, <1>3, <3>2, <3>3 DEF Fine, Serving, ServedAsAsked, Decided, Writes
    <2> QED BY <1>3, <2>1, <2>2 DEF Conflict
  <1>4. CASE /\ IF loaded = Null THEN db[key] = Null ELSE Same(key, loaded)
             /\ Ends(c, "ok")
             /\ IF out = Removed THEN Erase(key) ELSE Put(key, out.obj)
    <2>1. Fine(c) /\ call'[c].cmd = call[c].cmd
      BY <1>4, EndsFine
    <2>2. CASE out = Removed
      BY <1>2, <1>4, <2>1, <2>2 DEF Writes, key
    <2>3. CASE out # Removed
      <3>1. IsResource(out.obj) /\ Put(key, out.obj)
        BY <1>1, <1>4, <2>3 DEF Decided
      <3>2. db[key] # Null => Keeps(call[c].op, db[key].obj, out.obj)
        BY <1>1, <1>4, <2>3 DEF Decided, key
      <3> QED BY <1>2, <2>1, <3>1, <3>2 DEF Writes, key
    <2> QED BY <2>1, <2>2, <2>3
  <1> QED BY <1>2, <1>3, <1>4 DEF Commit

\* The steps of a command leave it in order and write nothing but its part of the
\* resource that it names.
LEMMA ClientStep ==
    ASSUME CatalogueInv, NEW c \in Clients, Start(c) \/ Edit(c) \/ Serve(c)
    PROVE  /\ Fine(c) /\ Writes(c)
           /\ \E new : Is(c, new)
           /\ UNCHANGED tool
           /\ pending' = pending \/ pending' = [pending EXCEPT ![c] = {}]
  <1>1. Fine(c) /\ Writes(c)
    BY StartFine, EditFine, ArriveFine, AuthorizeFine, HandleFine, CommitFine DEF Serve, Writes
  <1>2. UNCHANGED tool /\ (pending' = pending \/ pending' = [pending EXCEPT ![c] = {}])
    BY DEF Start, Edit, Serve, Arrive, Authorize, CheckRole, Handle, Commit
  <1>3. \E new : Is(c, new)
    <2>1. CASE Start(c)
      BY <2>1 DEF Start, Sends
    <2>2. CASE Edit(c)
      <3>1. call[c].cmd.op \in {"update", "status"}
        BY <2>2, CallBefore DEF Edit, IsCall
      <3> QED BY <2>2, <3>1, Zenon DEF Edit, Sends, Ends
    <2>3. CASE Arrive(c)
      BY <2>3, Zenon DEF Arrive, Ends
    <2>4. CASE Authorize(c)
      BY <2>4, Zenon DEF Authorize, Ends
    <2>5. CASE CheckRole(c)
      BY <2>5, Zenon DEF CheckRole, Ends
    <2>6. CASE Handle(c)
      BY <2>6, Zenon DEF Handle, HandleCreate, Ends
    <2>7. CASE Commit(c)
      BY <2>7 DEF Commit, Conflict, Ends
    <2> QED BY <2>1, <2>2, <2>3, <2>4, <2>5, <2>6, <2>7 DEF Serve
  <1> QED BY <1>1, <1>2, <1>3

-----------------------------------------------------------------------------
(* The steps of the bootstrap tool                                         *)

\* One job changes, or nothing of the jobs does
JobStep ==
    \/ tool'.jobs = tool.jobs
    \/ \E i \in DOMAIN tool.jobs : \E job :
         /\ IsJob(job)
         /\ tool'.jobs = [tool.jobs EXCEPT ![i] = job]
ToolShape == tool \in [phase: {tool.phase}, force: {tool.force}, jobs: {tool.jobs}, next: {tool.next}]

\* The jobs of the tool stay whole.
LEMMA JobsKept ==
    ASSUME JobsWhole, JobStep, ToolShape', DOMAIN db' = DOMAIN db
    PROVE  JobsWhole'
  <1>1. CASE tool'.jobs = tool.jobs
    BY <1>1 DEF JobsWhole, ToolShape, IsJob
  <1>2. ASSUME NEW i \in DOMAIN tool.jobs, NEW job, IsJob(job),
               tool'.jobs = [tool.jobs EXCEPT ![i] = job]
        PROVE  JobsWhole'
    <2>1. /\ DOMAIN tool'.jobs = DOMAIN tool.jobs
          /\ tool'.jobs = [j \in DOMAIN tool'.jobs |-> tool'.jobs[j]]
      BY <1>2 DEF JobsWhole
    <2>2. \A j \in DOMAIN tool.jobs : tool'.jobs[j] = IF j = i THEN job ELSE tool.jobs[j]
      BY <1>2
    <2>3. \A j \in DOMAIN tool.jobs : IsJob(tool.jobs[j])
      BY DEF JobsWhole
    <2>4. \A j \in DOMAIN tool.jobs : IsJob(tool'.jobs[j])
      BY <1>2, <2>2, <2>3
    <2> QED BY <2>1, <2>4 DEF JobsWhole, ToolShape, IsJob
  <1> QED BY <1>1, <1>2 DEF JobStep

\* What is known about the jobs before a step.
LEMMA JobsBefore ==
    ASSUME CatalogueInv
    PROVE  /\ ToolShape /\ RowsWhole /\ JobsWhole
           /\ \A i \in DOMAIN tool.jobs : IsJob(tool.jobs[i])
  BY DEF CatalogueInv, JobsWhole, ToolShape, IsJob

\* One insertion gets on.
LEMMA JobGoesOn ==
    ASSUME CatalogueInv, NEW i \in DOMAIN tool.jobs, NEW job, IsJob(job), JobIs(i, job)
    PROVE  JobStep /\ ToolShape'
  <1>1. ToolShape
    BY JobsBefore
  <1>2. tool'.jobs = [tool.jobs EXCEPT ![i] = job]
    BY <1>1 DEF JobIs, ToolShape
  <1>3. ToolShape'
    BY <1>1, <1>2 DEF JobIs, ToolShape
  <1> QED BY <1>2, <1>3 DEF JobStep

\* The tool ends because of an exception, or its phase changes.
LEMMA PhaseGoesOn ==
    ASSUME CatalogueInv,
           \/ \E phase : tool' = [tool EXCEPT !.phase = phase]
           \/ tool' = [tool EXCEPT !.next = @ + 1]
    PROVE  JobStep /\ ToolShape'
  BY JobsBefore DEF JobStep, ToolShape

\* insert_resource, up to what it finds in the database.
LEMMA BeginInsertKept ==
    ASSUME CatalogueInv, NEW i \in DOMAIN tool.jobs, BeginInsert(i)
    PROVE  StoreStep /\ JobStep /\ ToolShape'
  <1> DEFINE job == tool.jobs[i]
             stored == db[job.key]
  <1>1. \/ Abort
        \/ /\ UNCHANGED <<db, revision>>
           /\ \/ JobIs(i, [job EXCEPT !.at = "end", !.error = TRUE])
              \/ JobIs(i, [job EXCEPT !.at = "put"])
              \/ stored # Null /\ JobIs(i, [job EXCEPT !.at = "delete", !.previous = stored])
              \/ stored # Null /\ JobIs(i, [job EXCEPT !.at = "end", !.error = TRUE, !.previous = stored])
    BY Zenon DEF BeginInsert
  <1>2. IsJob(job) /\ job.at = "start" /\ (stored # Null => IsResource(stored.obj))
    BY JobsBefore DEF IsJob, RowsWhole, BeginInsert
  <1> HIDE DEF job, stored
  <1>3. /\ IsJob([job EXCEPT !.at = "end", !.error = TRUE])
        /\ IsJob([job EXCEPT !.at = "put"])
        /\ stored # Null => IsJob([job EXCEPT !.at = "delete", !.previous = stored])
        /\ stored # Null => IsJob([job EXCEPT !.at = "end", !.error = TRUE, !.previous = stored])
    BY <1>2 DEF IsJob
  <1> QED BY <1>1, <1>3, JobGoesOn, PhaseGoesOn DEF Abort, StoreStep, Stored

\* --force: the stored resource is deleted.
LEMMA RemoveStoredKept ==
    ASSUME CatalogueInv, NEW i \in DOMAIN tool.jobs, RemoveStored(i)
    PROVE  StoreStep /\ JobStep /\ ToolShape'
  <1> DEFINE job == tool.jobs[i]
  <1>1. IsJob(job) /\ IsJob([job EXCEPT !.at = "put"])
    BY JobsBefore DEF IsJob, RemoveStored
  <1>2. Abort \/ (Erase(job.key) /\ JobIs(i, [job EXCEPT !.at = "put"]))
    BY DEF RemoveStored
  <1>3. job.key \in DOMAIN db
    BY <1>1 DEF IsJob
  <1> QED BY <1>1, <1>2, <1>3, JobGoesOn, PhaseGoesOn DEF Abort, StoreStep, Stored

\* The resource of the file is inserted.
LEMMA InsertKept ==
    ASSUME CatalogueInv, NEW i \in DOMAIN tool.jobs, Insert(i)
    PROVE  StoreStep /\ JobStep /\ ToolShape'
  <1> DEFINE job == tool.jobs[i]
             new == Resource(revision + 1, revision + 1, FALSE, {}, {}, job.content, Fresh)
  <1>1. IsJob(job) /\ IsJob([job EXCEPT !.at = "end", !.inserted = Row(new)])
    BY JobsBefore DEF IsJob
  <1>2. \/ Abort
        \/ /\ db[job.key] = Null /\ Put(job.key, new)
           /\ JobIs(i, [job EXCEPT !.at = "end", !.inserted = Row(new)])
    BY DEF Insert
  <1>3. IsResource(new) /\ job.key \in DOMAIN db
    BY <1>1 DEF IsResource, Resource, IsJob
  <1> HIDE DEF job, new
  <1>4. CASE Abort
    BY <1>4, PhaseGoesOn DEF Abort, StoreStep, Stored
  <1>5. CASE /\ db[job.key] = Null /\ Put(job.key, new)
             /\ JobIs(i, [job EXCEPT !.at = "end", !.inserted = Row(new)])
    <2>1. StoreStep
      BY <1>3, <1>5 DEF StoreStep
    <2> QED BY <1>1, <1>5, <2>1, JobGoesOn
  <1> QED BY <1>2, <1>4, <1>5

\* The results are undone in their order (rollback).
LEMMA RollbackKept ==
    ASSUME CatalogueInv, Rollback
    PROVE  StoreStep /\ JobStep /\ ToolShape'
  <1> DEFINE job == tool.jobs[tool.next]
             on == [tool EXCEPT !.next = @ + 1]
  <1>1. tool.next \in DOMAIN tool.jobs /\ IsJob(job) /\ job.key \in DOMAIN db
    BY JobsBefore DEF Rollback, IsJob
  <1>2. \/ Abort
        \/ tool' = on /\ UNCHANGED <<db, revision>>
        \/ Erase(job.key) /\ tool' = on
        \/ /\ job.previous # Null
           /\ Erase(job.key) /\ tool' = [tool EXCEPT !.jobs[tool.next].at = "restore"]
        \/ /\ job.inserted # Null /\ job.at # "end"
           /\ db[job.key] = Null /\ Put(job.key, job.previous.obj) /\ tool' = on
    <2>1. job.inserted = Null \/ job.at = "end" \/ job.at = "restore"
      BY <1>1 DEF IsJob
    <2>2. CASE job.inserted = Null
      BY <2>2, Zenon DEF Rollback
    <2>3. CASE job.inserted # Null /\ job.at = "end"
      BY <2>3, Zenon DEF Rollback
    <2>4. CASE job.inserted # Null /\ job.at = "restore"
      BY <2>4, Zenon DEF Rollback
    <2> QED BY <2>1, <2>2, <2>3, <2>4
  <1>3. CASE /\ job.previous # Null
             /\ Erase(job.key) /\ tool' = [tool EXCEPT !.jobs[tool.next].at = "restore"]
    <2>1. tool' = [tool EXCEPT !.jobs[tool.next] = [job EXCEPT !.at = "restore"]]
      BY <1>1, <1>3, JobsBefore DEF ToolShape, JobsWhole
    <2>2. IsJob([job EXCEPT !.at = "restore"])
      BY <1>1, <1>3 DEF IsJob
    <2> QED BY <1>1, <1>3, <2>1, <2>2, JobGoesOn DEF JobIs, StoreStep
  <1>4. CASE /\ job.inserted # Null /\ job.at # "end"
             /\ db[job.key] = Null /\ Put(job.key, job.previous.obj) /\ tool' = on
    <2>1. IsResource(job.previous.obj)
      BY <1>1, <1>4 DEF IsJob
    <2> QED BY <1>1, <1>4, <2>1, PhaseGoesOn DEF StoreStep
  <1> QED BY <1>1, <1>2, <1>3, <1>4, PhaseGoesOn DEF Abort, StoreStep, Stored

\* A step of the tool.
LEMMA ToolKept ==
    ASSUME CatalogueInv, ToolStep
    PROVE  StoreStep /\ JobStep /\ ToolShape'
  <1>1. CASE \E i \in DOMAIN tool.jobs : BeginInsert(i) \/ RemoveStored(i) \/ Insert(i)
    BY <1>1, BeginInsertKept, RemoveStoredKept, InsertKept
  <1>2. CASE Gathered \/ RolledBack
    BY <1>2, PhaseGoesOn DEF Gathered, RolledBack, StoreStep, Stored
  <1> QED BY <1>1, <1>2, RollbackKept DEF ToolStep

-----------------------------------------------------------------------------
(* The invariant                                                           *)

\* What clients write is a write of the database as any other.
LEMMA WritesStore ==
    ASSUME CatalogueInv, NEW c \in Clients, Writes(c)
    PROVE  StoreStep
  BY DEF Writes, StoreStep, Keeps

\* Every step writes the database in the same way.
LEMMA NextStores ==
    ASSUME CatalogueInv, [Next]_vars
    PROVE  StoreStep
  <1>1. ASSUME NEW key \in DOMAIN db, Collect(key)
        PROVE  StoreStep
    BY <1>1 DEF Collect, StoreStep
  <1>2. CASE UNCHANGED vars
    BY <1>2 DEF vars, StoreStep, Stored
  <1> QED BY <1>1, <1>2, ClientStep, WritesStore, ToolKept DEF Next

\* The invariant holds at the start.
LEMMA InitInv == Init => CatalogueInv
  <1>1. SUFFICES ASSUME Init
                 PROVE  CatalogueInv
    OBVIOUS
  <1>2. PICK s \in Starts : pending = s.commands /\ db = s.rows /\ tool = s.tool
    BY <1>1 DEF Init
  <1>3. revision = 1 /\ call = [c \in Clients |-> Waiting]
    BY <1>1 DEF Init
  <1>4. RowsWhole
    <2>1. /\ db = [k \in DOMAIN db |-> db[k]]
          /\ \A k \in DOMAIN db : db[k] # Null => IsResource(db[k].obj) /\ db[k].mod = 1
      BY <1>2, CatalogueAssumption, Zenon
    <2> QED BY <1>3, <2>1 DEF RowsWhole
  <1>5. DeletedHeld
    BY <1>4 DEF RowsWhole, DeletedHeld, IsResource
  <1>6. IsCall(Waiting) /\ ServedAsAsked(Waiting) /\ Decided(Waiting)
    <2>1. Waiting.at = "idle" /\ Waiting.answer = Null
      BY DEF Waiting
    <2>2. IsCall(Waiting)
      BY DEF Waiting, IsCall, Serving
    <2> QED BY <2>1, <2>2, CatalogueAssumption DEF ServedAsAsked, Decided, Serving
  <1>7. JobsWhole
    <2>1. CASE tool = ToolOff
      BY <2>1 DEF ToolOff, JobsWhole
    <2>2. CASE tool # ToolOff
      <3>1. /\ tool = Tool(tool.force, tool.jobs)
            /\ tool.jobs = [i \in DOMAIN tool.jobs |-> tool.jobs[i]]
            /\ \A i \in DOMAIN tool.jobs :
                 /\ tool.jobs[i] = Job(tool.jobs[i].key, tool.jobs[i].content, tool.jobs[i].document)
                 /\ tool.jobs[i].key \in DOMAIN db
        BY <1>2, <2>2, CatalogueAssumption
      <3>2. \A key, content, document : key \in DOMAIN db => IsJob(Job(key, content, document))
        BY DEF IsJob, Job
      <3>3. \A force, jobs : Tool(force, jobs) \in [phase: {Tool(force, jobs).phase},
               force: {Tool(force, jobs).force}, jobs: {Tool(force, jobs).jobs},
               next: {Tool(force, jobs).next}]
        BY DEF Tool
      <3> QED BY <3>1, <3>2, <3>3 DEF JobsWhole
    <2> QED BY <2>1, <2>2
  <1>8. /\ pending = [c \in Clients |-> pending[c]]
        /\ \A c \in Clients : \A cmd \in pending[c] : IsCommand(cmd) /\ Target(cmd) \in DOMAIN db
    BY <1>2, CatalogueAssumption
  <1> QED BY <1>3, <1>4, <1>5, <1>6, <1>7, <1>8 DEF CatalogueInv

\* Every step preserves the invariant.
LEMMA NextInv == CatalogueInv /\ [Next]_vars => CatalogueInv'
  <1> SUFFICES ASSUME CatalogueInv, [Next]_vars
               PROVE  CatalogueInv'
    OBVIOUS
  <1>1. RowsWhole' /\ Aged
    BY NextStores, StoreKept DEF CatalogueInv
  <1>2. DeletedHeld'
    BY <1>1 DEF RowsWhole, DeletedHeld, IsResource
  <1>3. DOMAIN db' = DOMAIN db
    BY <1>1 DEF Aged
  <1>4. CASE UNCHANGED <<pending, call>> /\ JobStep /\ ToolShape'
    <2>1. JobsWhole'
      BY <1>3, <1>4, JobsKept DEF CatalogueInv
    <2>2. \A c \in Clients : (IsCall(call[c]) /\ ServedAsAsked(call[c]) /\ Decided(call[c]))'
      BY <1>1, <1>4, CallKept
    <2> QED BY <1>1, <1>2, <1>3, <1>4, <2>1, <2>2 DEF CatalogueInv
  <1>5. ASSUME NEW c \in Clients, Start(c) \/ Edit(c) \/ Serve(c)
        PROVE  CatalogueInv'
    <2>1. Fine(c) /\ UNCHANGED tool /\ (pending' = pending \/ pending' = [pending EXCEPT ![c] = {}])
      BY <1>5, ClientStep
    <2>2. PICK new : call' = [call EXCEPT ![c] = new]
      BY <1>5, ClientStep DEF Is
    <2>3. call' = [d \in Clients |-> call'[d]] /\ \A d \in Clients : d # c => call'[d] = call[d]
      BY <2>2 DEF CatalogueInv
    <2>4. \A d \in Clients : (IsCall(call[d]) /\ ServedAsAsked(call[d]) /\ Decided(call[d]))'
      BY <1>1, <2>1, <2>3, CallKept DEF Fine
    <2>5. pending' = [d \in Clients |-> pending'[d]] /\ \A d \in Clients : pending'[d] \subseteq pending[d]
      BY <2>1 DEF CatalogueInv
    <2>6. JobsWhole'
      BY <1>3, <2>1, JobsBefore, JobsKept DEF JobStep, ToolShape
    <2> QED BY <1>1, <1>2, <1>3, <2>3, <2>4, <2>5, <2>6 DEF CatalogueInv
  <1>6. CASE UNCHANGED <<pending, call, tool>>
    BY <1>4, <1>6, JobsBefore DEF JobStep, ToolShape
  <1>7. CASE ToolStep /\ UNCHANGED <<setting, pending, call>>
    BY <1>4, <1>7, ToolKept
  <1> QED BY <1>5, <1>6, <1>7 DEF Next, vars, Collect

\* Whatever clients, collector and tool do at the same time, what a request read is
\* either still there or can be told from what is there by its revision, requests
\* are served by the handler they are meant for, and a resource in deletion has a
\* finalizer (CatalogueInv).
THEOREM CatalogueInvariant == Spec => []CatalogueInv
  BY InitInv, NextInv, PTL DEF Spec

\* A resource never takes the place of another one under the same key
\* (create_*, insert_resource; NeverOverwritten).
THEOREM NobodyOverwrites == Spec => NeverOverwritten
  <1>1. CatalogueInv /\ [Next]_vars
          => [\A k \in DOMAIN db : db[k] # Null /\ db'[k] # Null => db'[k].obj.uid = db[k].obj.uid]_vars
    BY NextStores, StoreKept DEF CatalogueInv
  <1> QED BY <1>1, CatalogueInvariant, PTL DEF Spec, NeverOverwritten

\* A request changes the resource that its command names, and only its part of it.
LEMMA KeepsApart ==
    ASSUME CatalogueInv, [Next]_vars, NEW c \in Clients, call'[c] # call[c]
    PROVE  Fine(c) /\ Writes(c)
  <1>1. ASSUME NEW d \in Clients, Start(d) \/ Edit(d) \/ Serve(d)
        PROVE  d = c
    <2>1. PICK new : call' = [call EXCEPT ![d] = new]
      BY <1>1, ClientStep DEF Is
    <2> QED BY <2>1 DEF CatalogueInv
  <1>2. ~UNCHANGED call
    OBVIOUS
  <1>3. Start(c) \/ Edit(c) \/ Serve(c)
    BY <1>1, <1>2 DEF Next, vars, Collect
  <1> QED BY <1>3, ClientStep

\* Requests that are served at the same time keep to the resource that they address
\* and to their part of it (update_*, update_*_status; HandlersKeepApart).
THEOREM RequestsKeepApart == Spec => HandlersKeepApart
  <1>1. ASSUME CatalogueInv, [Next]_vars, NEW c \in Clients, call'[c] # call[c]
        PROVE  /\ call'[c].answer # "no route"
               /\ \A k \in DOMAIN db : db'[k] # db[k] => k = Target(call'[c].cmd)
    <2>1. Fine(c) /\ Writes(c)
      BY <1>1, KeepsApart
    <2>2. call'[c].answer # "no route"
      BY <2>1 DEF Fine, ServedAsAsked
    <2>3. ASSUME NEW k \in DOMAIN db, db'[k] # db[k]
          PROVE  k = Target(call'[c].cmd)
      BY <2>1, <2>3 DEF Writes, Stored, Erase, Put
    <2> QED BY <2>2, <2>3
  <1>2. ASSUME CatalogueInv, [Next]_vars, NEW c \in Clients, NEW k, k = Target(call[c].cmd),
               call'[c] # call[c], db[k] # Null, db'[k] # Null, db'[k] # db[k]
        PROVE  /\ call[c].op = "update" => db'[k].obj.status = db[k].obj.status
               /\ call[c].op = "status" =>
                    [db'[k].obj EXCEPT !.status = Null] = [db[k].obj EXCEPT !.status = Null]
    <2>1. Writes(c)
      BY <1>2, KeepsApart
    <2>2. k \in DOMAIN db /\ \E obj : Put(k, obj) /\ Keeps(call[c].op, db[k].obj, obj)
      BY <1>2, <2>1 DEF Writes, Stored, Erase
    <2>3. PICK obj : Put(k, obj) /\ Keeps(call[c].op, db[k].obj, obj)
      BY <2>2
    <2>4. db'[k].obj = obj
      BY <2>2, <2>3 DEF Put, Row
    <2> QED BY <2>3, <2>4 DEF Keeps
  <1>3. CatalogueInv /\ [Next]_vars =>
          [\A c \in Clients : call'[c] # call[c] =>
             /\ call'[c].answer # "no route"
             /\ \A k \in DOMAIN db : db'[k] # db[k] => k = Target(call'[c].cmd)]_vars
    BY <1>1
  <1>4. CatalogueInv /\ [Next]_vars =>
          [\A c \in Clients :
             LET k == Target(call[c].cmd) IN
             call'[c] # call[c] /\ call[c].cmd # Null /\ db[k] # Null /\ db'[k] # Null /\ db'[k] # db[k] =>
               /\ call[c].op = "update" => db'[k].obj.status = db[k].obj.status
               /\ call[c].op = "status" =>
                    [db'[k].obj EXCEPT !.status = Null] = [db[k].obj EXCEPT !.status = Null]]_vars
    BY <1>2
  <1> QED BY <1>3, <1>4, CatalogueInvariant, PTL DEF Spec, HandlersKeepApart, OnlyAddressed, OwnHalf

-----------------------------------------------------------------------------
(* The rollback of the tool                                                *)

\* The rollback invariant at the start.
LEMMA RollbackInit == Init => RollbackInv
  <1> SUFFICES ASSUME Init
               PROVE  RollbackInv
    OBVIOUS
  <1>1. PICK s \in Starts : setting = s.setting /\ db = s.rows /\ tool = s.tool
    BY DEF Init
  <1>2. setting.initial = db
    BY <1>1, CatalogueAssumption
  <1>3. \A k \in DOMAIN db : db[k] # Null => IsSome({db[k].obj})
    BY <1>1, CatalogueAssumption
  <1>4. CASE tool = ToolOff
    <2>1. tool.next = 1 /\ tool.phase = "off" /\ DOMAIN tool.jobs = {}
      BY <1>4 DEF ToolOff
    <2> QED BY <1>2, <1>3, <2>1 DEF RollbackInv, RollbackRestores, JobOrder, Undoable
  <1>5. CASE tool # ToolOff
    <2>1. /\ tool = Tool(tool.force, tool.jobs)
          /\ Len(tool.jobs) \in Nat
          /\ DOMAIN tool.jobs = 1..Len(tool.jobs)
          /\ \A i \in DOMAIN tool.jobs :
               /\ tool.jobs[i] = Job(tool.jobs[i].key, tool.jobs[i].content, tool.jobs[i].document)
               /\ IsSome(Inserts(tool.jobs[i].content))
      <3>1. /\ tool = Tool(tool.force, tool.jobs)
            /\ Len(tool.jobs) \in Nat
            /\ tool.jobs = [i \in 1..Len(tool.jobs) |-> tool.jobs[i]]
            /\ \A i \in DOMAIN tool.jobs :
                 /\ tool.jobs[i] = Job(tool.jobs[i].key, tool.jobs[i].content, tool.jobs[i].document)
                 /\ IsSome(Inserts(tool.jobs[i].content))
        BY <1>1, <1>5, CatalogueAssumption, Zenon
      <3> QED BY <3>1
    <2>2. tool.phase = "inserting" /\ tool.next = 1
      <3>1. \A force, jobs : Tool(force, jobs).phase = "inserting" /\ Tool(force, jobs).next = 1
        BY DEF Tool
      <3> QED BY <2>1, <3>1
    <2>3. \A i \in DOMAIN tool.jobs : /\ tool.jobs[i].at = "start" /\ tool.jobs[i].previous = Null
                                     /\ tool.jobs[i].inserted = Null
      <3>1. \A key, content, document :
              LET job == Job(key, content, document) IN
              job.at = "start" /\ job.previous = Null /\ job.inserted = Null
        BY DEF Job
      <3> QED BY <2>1, <3>1
    <2>4. \A i \in DOMAIN tool.jobs : i \in Nat \ {0} /\ 1..i \subseteq DOMAIN tool.jobs
      BY <2>1
    <2>5. JobOrder
      BY <1>2, <1>3, <2>1, <2>2, <2>3, <2>4 DEF JobOrder
    <2>6. \A k \in DOMAIN db : Undoable(k)
      BY <1>2, <2>2, <2>3 DEF Undoable, Untried, DoneFor, JobsOf
    <2> QED BY <2>2, <2>5, <2>6 DEF RollbackInv, RollbackRestores
  <1> QED BY <1>4, <1>5

\* A step that the tool does not take leaves what it does not touch as it is.
LEMMA OthersKeepUndo ==
    ASSUME CatalogueInv, RollbackInv, Aged, UNCHANGED <<tool, setting>>,
           \A k \in DOMAIN db : k \notin seen'.touched => k \notin seen.touched /\ db'[k] = db[k]
    PROVE  RollbackInv'
  <1>1. JobOrder'
    BY DEF RollbackInv, JobOrder, Aged, CatalogueInv, RowsWhole
  <1>2. ASSUME NEW k \in DOMAIN db, k \notin seen'.touched
        PROVE  Undoable(k)'
    <2>1. Undoable(k) /\ db'[k] = db[k]
      BY <1>2 DEF RollbackInv
    <2> QED BY <2>1 DEF Undoable, Untried, Cleared, Replaced, Contested, Restored, Restoring, Spoilt,
                        AsBefore, Same, DoneFor, JobsOf
  <1> QED BY <1>1, <1>2 DEF RollbackInv, RollbackRestores, Undoable, Aged

\* One job changes, and keeps its key and its content
Moves(i, job) ==
    /\ tool'.phase = tool.phase /\ tool'.next = tool.next
    /\ DOMAIN tool'.jobs = DOMAIN tool.jobs
    /\ \A j \in DOMAIN tool.jobs : tool'.jobs[j] = IF j = i THEN job ELSE tool.jobs[j]
    /\ job.key = tool.jobs[i].key /\ job.content = tool.jobs[i].content

\* JobIs changes one job.
LEMMA JobMoves ==
    ASSUME CatalogueInv, NEW i \in DOMAIN tool.jobs, NEW job, JobIs(i, job),
           job.key = tool.jobs[i].key, job.content = tool.jobs[i].content
    PROVE  Moves(i, job)
  <1>1. ToolShape
    BY JobsBefore
  <1>2. /\ tool'.jobs = [tool.jobs EXCEPT ![i] = job]
        /\ tool'.phase = tool.phase /\ tool'.next = tool.next
    BY <1>1 DEF JobIs, ToolShape
  <1> QED BY <1>2 DEF Moves

\* A job that changes keeps the order.
LEMMA OrderMoves ==
    ASSUME CatalogueInv, JobOrder, Aged, UNCHANGED setting,
           NEW i \in DOMAIN tool.jobs, NEW job, Moves(i, job),
           job.at # "start",
           job.at = "delete" => job.previous # Null,
           tool.phase = "inserting" => job.at # "restore",
           tool.phase = "rollback" => job.at = "end" \/ (job.at = "restore" /\ i <= tool.next),
           \/ job.inserted = tool.jobs[i].inserted
           \/ job.inserted.mod = revision + 1 /\ revision' = revision + 1
    PROVE  JobOrder'
  <1> DEFINE J == DOMAIN tool.jobs
  <1>1. /\ J' = J /\ tool'.next = tool.next /\ tool'.phase = tool.phase /\ DOMAIN db' = DOMAIN db
        /\ \A j \in J : tool'.jobs[j] = IF j = i THEN job ELSE tool.jobs[j]
        /\ revision \in Nat /\ revision' \in Nat /\ revision <= revision'
        /\ job.content = tool.jobs[i].content
    BY DEF Moves, Aged, CatalogueInv, RowsWhole
  <1>2. \A j \in J : tool'.jobs[j].inserted # Null =>
          /\ tool'.jobs[j].inserted.mod \in Nat /\ tool'.jobs[j].inserted.mod <= revision'
          /\ j # i => tool'.jobs[j].inserted.mod <= revision
    BY <1>1 DEF JobOrder
  <1>3. ASSUME NEW j \in J, NEW l \in J, j # l, tool'.jobs[j].inserted # Null, tool'.jobs[l].inserted # Null
        PROVE  tool'.jobs[j].inserted.mod # tool'.jobs[l].inserted.mod
    <2>1. CASE job.inserted = tool.jobs[i].inserted
      BY <1>1, <1>3, <2>1 DEF JobOrder
    <2>2. CASE job.inserted.mod = revision + 1
      BY <1>1, <1>2, <1>3, <2>2 DEF JobOrder
    <2> QED BY <2>1, <2>2
  <1>4. ASSUME NEW j \in J
        PROVE  /\ j \in Nat \ {0} /\ 1..j \subseteq J
               /\ IsSome(Inserts(tool'.jobs[j].content))
               /\ tool'.jobs[j].at = "start" => tool'.jobs[j].previous = Null
               /\ tool'.jobs[j].at = "delete" => tool'.jobs[j].previous # Null
               /\ tool.phase = "inserting" => tool'.jobs[j].at # "restore"
               /\ tool.phase = "rollback" =>
                    tool'.jobs[j].at = "end" \/ (tool'.jobs[j].at = "restore" /\ j <= tool.next)
    BY <1>1, <1>4 DEF JobOrder
  <1>5. \A k \in DOMAIN db : setting.initial[k] # Null => IsSome({setting.initial[k].obj})
    BY DEF JobOrder
  <1>6. tool.next \in Nat \ {0} /\ (tool.phase = "inserting" => tool.next = 1)
    BY DEF JobOrder
  <1>7. \A j \in DOMAIN tool'.jobs : j \in J
    BY <1>1
  <1> QED BY <1>1, <1>2, <1>3, <1>4, <1>5, <1>6, <1>7 DEF JobOrder, IsSome, Inserts, Fresh

\* A change of the phase keeps the order.
LEMMA OrderPhase ==
    ASSUME CatalogueInv, JobOrder, Aged, UNCHANGED setting,
           tool'.jobs = tool.jobs, tool'.next \in {tool.next, tool.next + 1},
           tool'.phase # "inserting",
           tool'.phase = "rollback" =>
             \/ tool.phase = "rollback"
             \/ \A i \in DOMAIN tool.jobs : tool.jobs[i].at = "end"
    PROVE  JobOrder'
  <1>1. /\ DOMAIN db' = DOMAIN db /\ revision \in Nat /\ revision' \in Nat /\ revision <= revision'
    BY DEF Aged, CatalogueInv, RowsWhole
  <1>2. tool'.next \in Nat \ {0} /\ tool.next <= tool'.next
    BY DEF JobOrder
  <1>3. ASSUME NEW i \in DOMAIN tool.jobs
        PROVE  /\ i \in Nat \ {0} /\ 1..i \subseteq DOMAIN tool.jobs
               /\ IsSome(Inserts(tool.jobs[i].content))
               /\ tool.jobs[i].at = "start" => tool.jobs[i].previous = Null
               /\ tool.jobs[i].at = "delete" => tool.jobs[i].previous # Null
               /\ tool'.phase = "rollback" =>
                    tool.jobs[i].at = "end" \/ (tool.jobs[i].at = "restore" /\ i <= tool'.next)
    BY <1>2 DEF JobOrder
  <1>4. \A i \in DOMAIN tool.jobs : tool.jobs[i].inserted # Null =>
          /\ tool.jobs[i].inserted.mod \in Nat /\ tool.jobs[i].inserted.mod <= revision'
          /\ \A j \in DOMAIN tool.jobs : i # j /\ tool.jobs[j].inserted # Null
               => tool.jobs[i].inserted.mod # tool.jobs[j].inserted.mod
    BY <1>1 DEF JobOrder
  <1>5. \A k \in DOMAIN db' : setting'.initial[k] # Null => IsSome({setting'.initial[k].obj})
    BY <1>1 DEF JobOrder
  <1>6. \A i \in DOMAIN tool'.jobs :
          /\ i \in Nat \ {0} /\ 1..i \subseteq DOMAIN tool'.jobs
          /\ IsSome(Inserts(tool'.jobs[i].content))
          /\ tool'.jobs[i].at = "start" => tool'.jobs[i].previous = Null
          /\ tool'.jobs[i].at = "delete" => tool'.jobs[i].previous # Null
          /\ tool'.phase = "rollback" =>
               tool'.jobs[i].at = "end" \/ (tool'.jobs[i].at = "restore" /\ i <= tool'.next)
    BY <1>3
  <1>7. \A i \in DOMAIN tool'.jobs : tool'.jobs[i].inserted # Null =>
          /\ tool'.jobs[i].inserted.mod \in Nat /\ tool'.jobs[i].inserted.mod <= revision'
          /\ \A j \in DOMAIN tool'.jobs : i # j /\ tool'.jobs[j].inserted # Null
               => tool'.jobs[i].inserted.mod # tool'.jobs[j].inserted.mod
    BY <1>4
  <1> QED BY <1>2, <1>5, <1>6, <1>7 DEF JobOrder, IsSome, Inserts, Fresh

\* A key that the job is not about is undoable as before.
LEMMA OtherKey ==
    ASSUME CatalogueInv, NEW k \in DOMAIN db, Undoable(k), UNCHANGED setting, db'[k] = db[k],
           NEW i \in DOMAIN tool.jobs, NEW job, Moves(i, job), job.key # k
    PROVE  Undoable(k)'
  <1>1. JobsOf(k)' = JobsOf(k) /\ i \notin JobsOf(k)
    BY DEF JobsOf, Moves
  <1>2. \A j \in JobsOf(k) : tool'.jobs[j] = tool.jobs[j]
    BY <1>1 DEF Moves, JobsOf
  <1>3. DoneFor(k)' = DoneFor(k) /\ DoneFor(k) \subseteq JobsOf(k)
    BY <1>1, <1>2 DEF DoneFor
  <1>4. tool'.next = tool.next /\ tool'.phase = tool.phase
    BY DEF Moves
  <1>5. (Untried(k) => Untried(k)') /\ (Cleared(k) => Cleared(k)')
    BY <1>1, <1>2, <1>3 DEF Untried, Cleared
  <1>6. Replaced(k) => Replaced(k)'
    BY <1>2, <1>3, <1>4 DEF Replaced
  <1>7. Contested(k) => Contested(k)'
    BY <1>1, <1>2, <1>3 DEF Contested
  <1>8. (Restored(k) => Restored(k)') /\ (AsBefore(k) => AsBefore(k)')
    BY <1>3, <1>4 DEF Restored, AsBefore
  <1>9. Restoring(k) => Restoring(k)'
    BY <1>2, <1>3, <1>4 DEF Restoring
  <1>10. Spoilt(k) => Spoilt(k)'
    BY <1>2, <1>3, <1>4 DEF Spoilt, Same
  <1> QED BY <1>4, <1>5, <1>6, <1>7, <1>8, <1>9, <1>10 DEF Undoable

\* An exception ends the tool: there is no rollback to speak of.
LEMMA AbortUndo ==
    ASSUME CatalogueInv, JobOrder, Abort, UNCHANGED setting
    PROVE  JobOrder' /\ \A k : Undoable(k)'
  <1>1. tool'.jobs = tool.jobs /\ tool'.next = tool.next /\ tool'.phase = "aborted"
    BY JobsBefore DEF Abort, ToolShape
  <1>2. Aged
    BY DEF Abort, Aged, CatalogueInv, RowsWhole
  <1> QED BY <1>1, <1>2, OrderPhase DEF Undoable

\* What moves with a job of the key itself.
LEMMA SameKey ==
    ASSUME CatalogueInv, NEW i \in DOMAIN tool.jobs, NEW job, Moves(i, job),
           NEW k, k = tool.jobs[i].key
    PROVE  /\ JobsOf(k)' = JobsOf(k) /\ i \in JobsOf(k)
           /\ DoneFor(k) \subseteq JobsOf(k)
           /\ tool'.jobs[i] = job
           /\ \A j \in JobsOf(k) : j # i => tool'.jobs[j] = tool.jobs[j]
           /\ job.inserted = tool.jobs[i].inserted => DoneFor(k)' = DoneFor(k)
           /\ job.inserted # Null => DoneFor(k)' = DoneFor(k) \cup {i}
           /\ i \in DoneFor(k) <=> tool.jobs[i].inserted # Null
           /\ tool'.next = tool.next /\ tool'.phase = tool.phase
  <1>1. /\ JobsOf(k)' = JobsOf(k) /\ i \in JobsOf(k) /\ tool'.jobs[i] = job
        /\ \A j \in JobsOf(k) : j # i => tool'.jobs[j] = tool.jobs[j]
    BY DEF JobsOf, Moves
  <1>2. /\ DoneFor(k) = {j \in JobsOf(k) : tool.jobs[j].inserted # Null}
        /\ DoneFor(k)' = {j \in JobsOf(k) : tool'.jobs[j].inserted # Null}
    BY <1>1 DEF DoneFor
  <1>3. tool'.next = tool.next /\ tool'.phase = tool.phase
    BY DEF Moves
  <1>4. job.inserted = tool.jobs[i].inserted => DoneFor(k)' = DoneFor(k)
    BY <1>1, <1>2
  <1>5. job.inserted # Null => DoneFor(k)' = DoneFor(k) \cup {i}
    BY <1>1, <1>2
  <1> QED BY <1>1, <1>2, <1>3, <1>4, <1>5

\* The read of insert_resource: what is stored is remembered.
LEMMA BeginInsertUndo ==
    ASSUME CatalogueInv, RollbackInv, UNCHANGED setting,
           NEW i \in DOMAIN tool.jobs, BeginInsert(i)
    PROVE  JobOrder' /\ \A k \in DOMAIN db \ seen.touched : Undoable(k)'
  <1> DEFINE old == tool.jobs[i]
             key == old.key
             stored == db[key]
  <1>1. \/ Abort
        \/ /\ UNCHANGED <<db, revision>>
           /\ \/ JobIs(i, [old EXCEPT !.at = "end", !.error = TRUE])
              \/ stored = Null /\ JobIs(i, [old EXCEPT !.at = "put"])
              \/ stored # Null /\ JobIs(i, [old EXCEPT !.at = "delete", !.previous = stored])
              \/ stored # Null /\ JobIs(i, [old EXCEPT !.at = "end", !.error = TRUE, !.previous = stored])
    BY Zenon DEF BeginInsert
  <1>2. /\ tool.phase = "inserting" /\ old.at = "start" /\ IsJob(old) /\ JobOrder
        /\ old.inserted = Null /\ old.previous = Null
    BY JobsBefore DEF BeginInsert, RollbackInv, JobOrder, IsJob
  <1>3. CASE Abort
    BY <1>2, <1>3, AbortUndo
  <1>4. ASSUME NEW job, UNCHANGED <<db, revision>>, JobIs(i, job),
               job.key = old.key, job.content = old.content, job.inserted = old.inserted,
               job.at \in {"put", "delete", "end"},
               job.previous \in {Null, stored}, job.at = "put" => stored = Null,
               job.at = "delete" => job.previous # Null
        PROVE  JobOrder' /\ \A k \in DOMAIN db \ seen.touched : Undoable(k)'
    <2>1. Moves(i, job)
      BY <1>4, JobMoves
    <2>2. Aged
      BY <1>4 DEF Aged, CatalogueInv, RowsWhole
    <2>3. JobOrder'
      BY <1>2, <1>4, <2>1, <2>2, OrderMoves
    <2>4. ASSUME NEW k \in DOMAIN db \ seen.touched, k = key
          PROVE  Undoable(k)'
      <3>1. Untried(k) \/ Cleared(k) \/ Replaced(k) \/ Contested(k)
        BY <1>2, <2>4 DEF RollbackInv, Undoable
      <3>2. /\ JobsOf(k)' = JobsOf(k) /\ DoneFor(k)' = DoneFor(k)
            /\ DoneFor(k) \subseteq JobsOf(k) /\ i \notin DoneFor(k)
            /\ \A j \in JobsOf(k) : j # i => tool'.jobs[j] = tool.jobs[j]
            /\ tool'.jobs[i] = job /\ tool'.next = tool.next /\ tool'.phase = tool.phase
        BY <1>2, <1>4, <2>1, <2>4, SameKey
      <3>3. Untried(k) => Untried(k)'
        BY <1>2, <1>4, <2>4, <3>2 DEF Untried
      <3>4. Cleared(k) => Cleared(k)'
        BY <1>2, <1>4, <3>2 DEF Cleared
      <3>5. Replaced(k) => Replaced(k)'
        BY <1>4, <3>2 DEF Replaced
      <3>6. Contested(k) => Contested(k)'
        BY <1>2, <1>4, <3>2 DEF Contested
      <3> QED BY <1>2, <3>1, <3>2, <3>3, <3>4, <3>5, <3>6 DEF Undoable
    <2>5. ASSUME NEW k \in DOMAIN db \ seen.touched, k # key
          PROVE  Undoable(k)'
      BY <1>4, <2>1, <2>5, OtherKey DEF RollbackInv
    <2> QED BY <2>3, <2>4, <2>5
  <1> HIDE DEF stored
  <1>5. CASE /\ UNCHANGED <<db, revision>> /\ JobIs(i, [old EXCEPT !.at = "end", !.error = TRUE])
    <2> DEFINE job == [old EXCEPT !.at = "end", !.error = TRUE]
    <2>1. /\ job.key = old.key /\ job.content = old.content /\ job.inserted = old.inserted
          /\ job.at = "end" /\ job.previous = Null
      BY <1>2 DEF IsJob
    <2> HIDE DEF job
    <2> QED BY <1>4, <1>5, <2>1 DEF job
  <1>6. CASE /\ UNCHANGED <<db, revision>> /\ stored = Null /\ JobIs(i, [old EXCEPT !.at = "put"])
    <2> DEFINE job == [old EXCEPT !.at = "put"]
    <2>1. /\ job.key = old.key /\ job.content = old.content /\ job.inserted = old.inserted
          /\ job.at = "put" /\ job.previous = Null
      BY <1>2 DEF IsJob
    <2> HIDE DEF job
    <2> QED BY <1>4, <1>6, <2>1 DEF job
  <1>7. CASE /\ UNCHANGED <<db, revision>> /\ stored # Null
             /\ JobIs(i, [old EXCEPT !.at = "delete", !.previous = stored])
    <2> DEFINE job == [old EXCEPT !.at = "delete", !.previous = stored]
    <2>1. /\ job.key = old.key /\ job.content = old.content /\ job.inserted = old.inserted
          /\ job.at = "delete" /\ job.previous = stored
      BY <1>2 DEF IsJob
    <2> HIDE DEF job
    <2> QED BY <1>4, <1>7, <2>1 DEF job
  <1>8. CASE /\ UNCHANGED <<db, revision>> /\ stored # Null
             /\ JobIs(i, [old EXCEPT !.at = "end", !.error = TRUE, !.previous = stored])
    <2> DEFINE job == [old EXCEPT !.at = "end", !.error = TRUE, !.previous = stored]
    <2>1. /\ job.key = old.key /\ job.content = old.content /\ job.inserted = old.inserted
          /\ job.at = "end" /\ job.previous = stored
      BY <1>2 DEF IsJob
    <2> HIDE DEF job
    <2> QED BY <1>4, <1>8, <2>1 DEF job
  <1> QED BY <1>1, <1>3, <1>5, <1>6, <1>7, <1>8

\* --force: the deletion of what is stored.
LEMMA RemoveStoredUndo ==
    ASSUME CatalogueInv, RollbackInv, UNCHANGED setting, Aged,
           NEW i \in DOMAIN tool.jobs, RemoveStored(i)
    PROVE  JobOrder' /\ \A k \in DOMAIN db \ seen.touched : Undoable(k)'
  <1> DEFINE old == tool.jobs[i]
             job == [old EXCEPT !.at = "put"]
  <1>1. Abort \/ (Same(old.key, old.previous) /\ Erase(old.key) /\ JobIs(i, job))
    BY DEF RemoveStored
  <1>2. /\ tool.phase = "inserting" /\ old.at = "delete" /\ IsJob(old) /\ JobOrder
        /\ old.inserted = Null /\ old.previous # Null
    BY JobsBefore DEF RemoveStored, RollbackInv, JobOrder, IsJob
  <1>3. CASE Abort
    BY <1>2, <1>3, AbortUndo
  <1>4. CASE Same(old.key, old.previous) /\ Erase(old.key) /\ JobIs(i, job)
    <2>1. /\ job.key = old.key /\ job.content = old.content /\ job.inserted = old.inserted
          /\ job.at = "put" /\ job.previous = old.previous
      BY <1>2 DEF IsJob
    <2> HIDE DEF job
    <2>2. Moves(i, job)
      BY <1>4, <2>1, JobMoves
    <2>3. JobOrder'
      BY <1>2, <2>1, <2>2, OrderMoves
    <2>4. \A k \in DOMAIN db : db'[k] = IF k = old.key THEN Null ELSE db[k]
      BY <1>4 DEF Erase
    <2>5. ASSUME NEW k \in DOMAIN db \ seen.touched, k = old.key
          PROVE  Undoable(k)'
      <3>1. Untried(k) \/ Cleared(k) \/ Replaced(k) \/ Contested(k)
        BY <1>2, <2>5 DEF RollbackInv, Undoable
      <3>2. /\ JobsOf(k)' = JobsOf(k) /\ i \in JobsOf(k) /\ DoneFor(k)' = DoneFor(k)
            /\ DoneFor(k) \subseteq JobsOf(k) /\ i \notin DoneFor(k)
            /\ \A j \in JobsOf(k) : j # i => tool'.jobs[j] = tool.jobs[j]
            /\ tool'.jobs[i] = job /\ tool'.next = tool.next /\ tool'.phase = tool.phase
        BY <1>2, <2>1, <2>2, <2>5, SameKey
      <3>3. db'[k] = Null /\ db[k] # Null
        BY <1>4, <2>4, <2>5 DEF Same
      <3>4. Untried(k) => Cleared(k)'
        BY <1>2, <2>1, <3>2, <3>3 DEF Untried, Cleared
      <3>5. ~Cleared(k)
        BY <3>3 DEF Cleared
      <3>6. Replaced(k) => Contested(k)'
        BY <2>1, <3>2 DEF Replaced, Contested
      <3>7. Contested(k) => Contested(k)'
        BY <1>2, <2>1, <3>2 DEF Contested
      <3> QED BY <1>2, <3>1, <3>2, <3>4, <3>5, <3>6, <3>7 DEF Undoable
    <2>6. ASSUME NEW k \in DOMAIN db \ seen.touched, k # old.key
          PROVE  Undoable(k)'
      BY <2>1, <2>2, <2>4, <2>6, OtherKey DEF RollbackInv
    <2> QED BY <2>3, <2>5, <2>6
  <1> QED BY <1>1, <1>3, <1>4

\* The insertion itself: the only one of its key, or in conflict with another one.
LEMMA InsertUndo ==
    ASSUME CatalogueInv, RollbackInv, UNCHANGED setting, Aged,
           NEW i \in DOMAIN tool.jobs, Insert(i)
    PROVE  JobOrder' /\ \A k \in DOMAIN db \ seen.touched : Undoable(k)'
  <1> DEFINE old == tool.jobs[i]
             new == Resource(revision + 1, revision + 1, FALSE, {}, {}, old.content, Fresh)
             job == [old EXCEPT !.at = "end", !.inserted = Row(new)]
  <1>1. Abort \/ (db[old.key] = Null /\ Put(old.key, new) /\ JobIs(i, job))
    BY DEF Insert
  <1>2. /\ tool.phase = "inserting" /\ old.at = "put" /\ IsJob(old) /\ JobOrder
        /\ old.inserted = Null /\ IsSome(Inserts(old.content)) /\ revision \in Nat
        /\ tool.next = 1 /\ i \in Nat \ {0}
    BY JobsBefore DEF Insert, RollbackInv, JobOrder, IsJob, RowsWhole
  <1>3. CASE Abort
    BY <1>2, <1>3, AbortUndo
  <1>4. CASE db[old.key] = Null /\ Put(old.key, new) /\ JobIs(i, job)
    <2>1. /\ job.key = old.key /\ job.content = old.content /\ job.inserted = Row(new)
          /\ job.at = "end" /\ job.previous = old.previous
      BY <1>2 DEF IsJob
    <2>2. Row(new) # Null /\ Row(new).mod = revision + 1
      <3>1. new \in Inserts(old.content)
        BY <1>2 DEF Resource, Inserts
      <3> HIDE DEF new
      <3>2. Row(new) \in [obj: Inserts(old.content), mod: Nat] /\ Row(new).mod = revision + 1
        BY <1>2, <3>1 DEF Row
      <3> QED BY <1>2, <3>2 DEF IsSome
    <2> HIDE DEF job, new
    <2>3. Moves(i, job)
      BY <1>4, <2>1, JobMoves
    <2>4. /\ \A k \in DOMAIN db : db'[k] = IF k = old.key THEN Row(new) ELSE db[k]
          /\ revision' = revision + 1
      BY <1>4 DEF Put
    <2>5. JobOrder'
      BY <1>2, <2>1, <2>2, <2>3, <2>4, OrderMoves
    <2>6. ASSUME NEW k \in DOMAIN db \ seen.touched, k = old.key
          PROVE  Undoable(k)'
      <3>1. Untried(k) \/ Cleared(k) \/ Replaced(k) \/ Contested(k)
        BY <1>2, <2>6 DEF RollbackInv, Undoable
      <3>2. /\ JobsOf(k)' = JobsOf(k) /\ i \in JobsOf(k) /\ DoneFor(k)' = DoneFor(k) \cup {i}
            /\ DoneFor(k) \subseteq JobsOf(k) /\ i \notin DoneFor(k)
            /\ \A j \in JobsOf(k) : j # i => tool'.jobs[j] = tool.jobs[j]
            /\ tool'.jobs[i] = job /\ tool'.next = tool.next /\ tool'.phase = tool.phase
        <4>1. job.inserted # Null /\ tool.jobs[i].inserted = Null /\ k = tool.jobs[i].key
          BY <1>2, <2>1, <2>2, <2>6
        <4>2. /\ JobsOf(k)' = JobsOf(k) /\ i \in JobsOf(k)
              /\ DoneFor(k) \subseteq JobsOf(k)
              /\ tool'.jobs[i] = job
              /\ \A j \in JobsOf(k) : j # i => tool'.jobs[j] = tool.jobs[j]
              /\ job.inserted # Null => DoneFor(k)' = DoneFor(k) \cup {i}
              /\ i \in DoneFor(k) <=> tool.jobs[i].inserted # Null
              /\ tool'.next = tool.next /\ tool'.phase = tool.phase
          BY <2>3, <4>1, SameKey, SMTT(30)
        <4> QED BY <4>1, <4>2
      <3>3. db'[k] = Row(new)
        BY <2>4, <2>6
      <3>4. Untried(k) => Replaced(k)'
        BY <1>2, <2>1, <3>2, <3>3 DEF Untried, Replaced
      <3>5. Cleared(k) => Replaced(k)' \/ Contested(k)'
        <4>1. SUFFICES ASSUME Cleared(k)
                       PROVE  Replaced(k)' \/ Contested(k)'
          OBVIOUS
        <4>2. PICK j \in JobsOf(k) : tool.jobs[j].at = "put" /\ tool.jobs[j].previous = setting.initial[k]
          BY <4>1 DEF Cleared
        <4>3. CASE j = i
          BY <1>2, <2>1, <3>2, <3>3, <4>1, <4>2, <4>3 DEF Cleared, Replaced
        <4>4. CASE j # i
          BY <3>2, <4>2, <4>4 DEF Contested
        <4> QED BY <4>3, <4>4
      <3>6. Replaced(k) => Contested(k)'
        BY <3>2 DEF Replaced, Contested
      <3>7. Contested(k) => Contested(k)'
        BY <3>2 DEF Contested
      <3> QED BY <1>2, <3>1, <3>2, <3>4, <3>5, <3>6, <3>7 DEF Undoable
    <2>7. ASSUME NEW k \in DOMAIN db \ seen.touched, k # old.key
          PROVE  Undoable(k)'
      BY <2>1, <2>3, <2>4, <2>7, OtherKey DEF RollbackInv
    <2> QED BY <2>5, <2>6, <2>7
  <1> QED BY <1>1, <1>3, <1>4

\* The results are gathered: a key without a conflict is as it was or replaced once.
LEMMA GatheredUndo ==
    ASSUME CatalogueInv, RollbackInv, UNCHANGED setting, Aged, Gathered
    PROVE  JobOrder' /\ \A k \in DOMAIN db \ seen.touched : Undoable(k)'
  <1>1. /\ tool'.jobs = tool.jobs /\ tool'.next = tool.next
        /\ tool'.phase \in {"rollback", "done"}
        /\ tool.phase = "inserting" /\ \A i \in DOMAIN tool.jobs : tool.jobs[i].at = "end"
        /\ db' = db /\ JobOrder
    BY JobsBefore DEF Gathered, ToolShape, RollbackInv
  <1>2. JobOrder'
    BY <1>1, OrderPhase
  <1>3. ASSUME NEW k \in DOMAIN db \ seen.touched, tool'.phase = "rollback"
        PROVE  Undoable(k)'
    <2>1. Untried(k) \/ Cleared(k) \/ Replaced(k) \/ Contested(k)
      BY <1>1 DEF RollbackInv, Undoable
    <2>2. DoneFor(k)' = DoneFor(k) /\ JobsOf(k)' = JobsOf(k)
      BY <1>1 DEF DoneFor, JobsOf
    <2>3. DoneFor(k) \subseteq JobsOf(k) /\ JobsOf(k) \subseteq DOMAIN tool.jobs
      BY DEF DoneFor, JobsOf
    <2>4. Untried(k) => Restored(k)'
      BY <1>1, <2>2 DEF Untried, Restored, AsBefore
    <2>5. ~Cleared(k)
      BY <1>1, <2>3 DEF Cleared
    <2>6. Replaced(k) => Replaced(k)'
      BY <1>1, <2>2 DEF Replaced
    <2>7. Contested(k) => Spoilt(k)'
      <3>1. SUFFICES ASSUME Contested(k)
                     PROVE  Spoilt(k)'
        OBVIOUS
      <3>2. PICK i \in DoneFor(k), j \in DoneFor(k) : i # j
        BY <1>1, <2>3, <3>1 DEF Contested
      <3>3. tool.jobs[i].inserted.mod # tool.jobs[j].inserted.mod
        BY <1>1, <2>3, <3>2 DEF JobOrder, DoneFor
      <3>4. /\ ~Same(k, tool.jobs[i].inserted) \/ ~Same(k, tool.jobs[j].inserted)
            /\ i >= tool.next /\ j >= tool.next
        BY <1>1, <2>3, <3>2, <3>3 DEF Same, JobOrder
      <3> QED BY <1>1, <2>2, <2>3, <3>2, <3>4 DEF Spoilt, Same
    <2> QED BY <1>3, <2>1, <2>4, <2>5, <2>6, <2>7 DEF Undoable
  <1>4. ASSUME NEW k, tool'.phase = "done"
        PROVE  Undoable(k)'
    BY <1>4 DEF Undoable
  <1> QED BY <1>1, <1>2, <1>3, <1>4

\* The rollback has seen every result: nothing is left to undo.
LEMMA RolledBackUndo ==
    ASSUME CatalogueInv, RollbackInv, UNCHANGED setting, Aged, RolledBack
    PROVE  JobOrder' /\ \A k \in DOMAIN db \ seen.touched : Undoable(k)'
  <1>1. /\ tool'.jobs = tool.jobs /\ tool'.next = tool.next /\ tool'.phase = "failed"
        /\ tool.phase = "rollback" /\ tool.next \notin DOMAIN tool.jobs
        /\ db' = db /\ JobOrder
    BY JobsBefore DEF RolledBack, ToolShape, RollbackInv
  <1>2. JobOrder'
    BY <1>1, OrderPhase
  <1>3. \A i \in DOMAIN tool.jobs : i < tool.next
    BY <1>1 DEF JobOrder
  <1>4. ASSUME NEW k \in DOMAIN db \ seen.touched
        PROVE  Undoable(k)'
    <2>1. Restored(k) \/ Replaced(k) \/ Restoring(k) \/ Spoilt(k)
      BY <1>1 DEF RollbackInv, Undoable
    <2>2. DoneFor(k) \subseteq DOMAIN tool.jobs
      BY DEF DoneFor, JobsOf
    <2>3. \A i \in DoneFor(k) : ~(i >= tool.next) /\ i # tool.next
      BY <1>1, <1>3, <2>2 DEF JobOrder
    <2>4. ~Replaced(k) /\ ~Restoring(k) /\ ~Spoilt(k)
      BY <2>3 DEF Replaced, Restoring, Spoilt
    <2> QED BY <1>1, <2>1, <2>4 DEF Undoable, Restored, AsBefore
  <1> QED BY <1>2, <1>4

\* The rollback goes on to the next result: a key that it was not about is
\* undoable as before.
LEMMA NextOn ==
    ASSUME CatalogueInv, JobOrder, NEW k \in DOMAIN db, Undoable(k), UNCHANGED setting,
           db'[k] = db[k], tool.phase = "rollback", tool'.phase = tool.phase,
           tool'.jobs = tool.jobs, tool'.next = tool.next + 1, tool.next \notin DoneFor(k)
    PROVE  Undoable(k)'
  <1>1. DoneFor(k)' = DoneFor(k) /\ DoneFor(k) \subseteq DOMAIN tool.jobs
    BY DEF DoneFor, JobsOf
  <1>2. tool.next \in Nat /\ \A i \in DoneFor(k) : i \in Nat /\ i # tool.next
    BY <1>1 DEF JobOrder
  <1>3. \A i \in DoneFor(k) : (i < tool.next => i < tool'.next) /\ (i >= tool.next => i >= tool'.next)
    BY <1>2
  <1>4. Restored(k) => Restored(k)'
    BY <1>1, <1>3 DEF Restored, AsBefore
  <1>5. Replaced(k) => Replaced(k)'
    BY <1>1, <1>3 DEF Replaced
  <1>6. ~Restoring(k)
    BY DEF Restoring
  <1>7. Spoilt(k) => Spoilt(k)'
    BY <1>1, <1>3 DEF Spoilt, Same
  <1> QED BY <1>4, <1>5, <1>6, <1>7 DEF Undoable

\* The rollback undoes the next result (rollback).
LEMMA RollbackUndo ==
    ASSUME CatalogueInv, RollbackInv, UNCHANGED setting, Aged, Rollback
    PROVE  JobOrder' /\ \A k \in DOMAIN db \ seen.touched : Undoable(k)'
  <1> DEFINE old == tool.jobs[tool.next]
             on == [tool EXCEPT !.next = @ + 1]
             job == [old EXCEPT !.at = "restore"]
  <1>1. /\ tool.phase = "rollback" /\ tool.next \in DOMAIN tool.jobs /\ IsJob(old) /\ JobOrder
        /\ tool.next \in Nat /\ revision \in Nat
    BY JobsBefore DEF Rollback, RollbackInv, JobOrder, RowsWhole
  <1>2. \/ Abort
        \/ old.inserted = Null /\ tool' = on /\ UNCHANGED <<db, revision>>
        \/ /\ old.inserted # Null /\ old.at = "end" /\ Same(old.key, old.inserted)
           /\ old.previous = Null /\ Erase(old.key) /\ tool' = on
        \/ /\ old.inserted # Null /\ old.at = "end" /\ Same(old.key, old.inserted)
           /\ old.previous # Null /\ Erase(old.key)
           /\ tool' = [tool EXCEPT !.jobs[tool.next].at = "restore"]
        \/ /\ old.inserted # Null /\ old.at = "restore"
           /\ Put(old.key, old.previous.obj) /\ tool' = on
    <2>1. old.inserted = Null \/ old.at = "end" \/ old.at = "restore"
      BY <1>1 DEF IsJob
    <2>2. CASE old.inserted = Null
      BY <2>2, Zenon DEF Rollback
    <2>3. CASE old.inserted # Null /\ old.at = "end"
      BY <2>3, Zenon DEF Rollback
    <2>4. CASE old.inserted # Null /\ old.at = "restore"
      BY <2>4, Zenon DEF Rollback
    <2> QED BY <2>1, <2>2, <2>3, <2>4
  <1>3. CASE Abort
    BY <1>1, <1>3, AbortUndo
  <1>4. tool' = on => /\ tool'.jobs = tool.jobs /\ tool'.phase = tool.phase
                      /\ tool'.next = tool.next + 1
    BY JobsBefore DEF ToolShape
  <1>5. tool' = on => JobOrder'
    BY <1>1, <1>4, OrderPhase
  <1> HIDE DEF on
  \* The keys of other results
  <1>6. ASSUME NEW k \in DOMAIN db \ seen.touched, tool' = on, db'[k] = db[k],
               old.inserted = Null \/ old.key # k
        PROVE  Undoable(k)'
    <2>1. tool.next \notin DoneFor(k)
      BY <1>6 DEF DoneFor, JobsOf
    <2> QED BY <1>1, <1>4, <1>6, <2>1, NextOn DEF RollbackInv
  \* What is known about the key of the result
  <1>7. ASSUME NEW k \in DOMAIN db \ seen.touched, k = old.key, old.inserted # Null
        PROVE  /\ tool.next \in DoneFor(k) /\ DoneFor(k) \subseteq DOMAIN tool.jobs
               /\ Replaced(k) \/ Restoring(k) \/ Spoilt(k)
    <2>1. tool.next \in DoneFor(k) /\ DoneFor(k) \subseteq DOMAIN tool.jobs
      BY <1>1, <1>7 DEF DoneFor, JobsOf
    <2>2. ~Restored(k)
      BY <1>1, <2>1 DEF Restored
    <2> QED BY <1>1, <2>1, <2>2 DEF RollbackInv, Undoable
  <1>8. CASE old.inserted = Null /\ tool' = on /\ UNCHANGED <<db, revision>>
    BY <1>5, <1>6, <1>8
  <1>9. CASE /\ old.inserted # Null /\ old.at = "end" /\ Same(old.key, old.inserted)
             /\ old.previous = Null /\ Erase(old.key) /\ tool' = on
    <2>1. \A k \in DOMAIN db : db'[k] = IF k = old.key THEN Null ELSE db[k]
      BY <1>9 DEF Erase
    <2>2. ASSUME NEW k \in DOMAIN db \ seen.touched, k = old.key
          PROVE  Undoable(k)'
      <3>1. /\ tool.next \in DoneFor(k) /\ DoneFor(k) \subseteq DOMAIN tool.jobs
            /\ Replaced(k) \/ Restoring(k) \/ Spoilt(k)
        BY <1>7, <1>9, <2>2
      <3>2. db'[k] = Null /\ DoneFor(k)' = DoneFor(k)
        BY <1>4, <1>9, <2>1, <2>2 DEF DoneFor, JobsOf
      <3>3. Replaced(k) => Restored(k)'
        BY <1>1, <1>4, <1>9, <3>1, <3>2 DEF Replaced, Restored, AsBefore
      <3>4. ~Restoring(k)
        BY <1>9 DEF Restoring
      <3>5. Spoilt(k) => Spoilt(k)'
        <4>1. SUFFICES ASSUME Spoilt(k)
                       PROVE  Spoilt(k)'
          OBVIOUS
        <4>2. PICK i \in DoneFor(k) : /\ i >= tool.next /\ tool.jobs[i].at = "end"
                                      /\ ~Same(k, tool.jobs[i].inserted)
          BY <4>1 DEF Spoilt
        <4>3. i # tool.next /\ i \in Nat
          BY <1>1, <1>9, <2>2, <3>1, <4>2 DEF JobOrder
        <4>4. i >= tool'.next
          BY <1>1, <1>4, <1>9, <4>2, <4>3
        <4> QED BY <1>4, <1>9, <3>2, <4>2, <4>4 DEF Spoilt, Same
      <3> QED BY <1>1, <1>4, <1>9, <3>1, <3>3, <3>4, <3>5 DEF Undoable
    <2>3. ASSUME NEW k \in DOMAIN db \ seen.touched, k # old.key
          PROVE  Undoable(k)'
      BY <1>6, <1>9, <2>1, <2>3
    <2> QED BY <1>5, <1>9, <2>2, <2>3
  <1>10. CASE /\ old.inserted # Null /\ old.at = "end" /\ Same(old.key, old.inserted)
              /\ old.previous # Null /\ Erase(old.key)
              /\ tool' = [tool EXCEPT !.jobs[tool.next].at = "restore"]
    <2>1. \A k \in DOMAIN db : db'[k] = IF k = old.key THEN Null ELSE db[k]
      BY <1>10 DEF Erase
    <2>2. JobIs(tool.next, job)
      BY <1>1, <1>10, JobsBefore DEF JobIs, ToolShape, JobsWhole
    <2>3. /\ job.key = old.key /\ job.content = old.content /\ job.inserted = old.inserted
          /\ job.at = "restore" /\ job.previous = old.previous
      BY <1>1 DEF IsJob
    <2> HIDE DEF job
    <2>4. Moves(tool.next, job)
      BY <1>1, <2>2, <2>3, JobMoves
    <2>5. JobOrder'
      BY <1>1, <2>3, <2>4, OrderMoves
    <2>6. ASSUME NEW k \in DOMAIN db \ seen.touched, k = old.key
          PROVE  Undoable(k)'
      <3>1. /\ tool.next \in DoneFor(k) /\ DoneFor(k) \subseteq DOMAIN tool.jobs
            /\ Replaced(k) \/ Restoring(k) \/ Spoilt(k)
        BY <1>7, <1>10, <2>6
      <3>2. /\ DoneFor(k)' = DoneFor(k) /\ DoneFor(k) \subseteq JobsOf(k)
            /\ \A j \in JobsOf(k) : j # tool.next => tool'.jobs[j] = tool.jobs[j]
            /\ tool'.jobs[tool.next] = job
            /\ tool'.next = tool.next /\ tool'.phase = tool.phase
        <4>1. tool.next \in DOMAIN tool.jobs /\ k = tool.jobs[tool.next].key
              /\ job.inserted = tool.jobs[tool.next].inserted
          BY <1>1, <2>3, <2>6
        <4>2. JobsOf(k)' = JobsOf(k)
          BY <2>4, <4>1 DEF Moves, JobsOf
        <4>3. /\ \A j \in JobsOf(k) : j # tool.next => tool'.jobs[j] = tool.jobs[j]
              /\ tool'.jobs[tool.next] = job
              /\ tool'.next = tool.next /\ tool'.phase = tool.phase
          BY <2>4, <4>1 DEF Moves, JobsOf
        <4> QED BY <4>1, <4>2, <4>3 DEF DoneFor
      <3>3. db'[k] = Null
        BY <2>1, <2>6
      <3>4. Replaced(k) => Restoring(k)'
        BY <2>3, <3>1, <3>2, <3>3 DEF Replaced, Restoring
      <3>5. ~Restoring(k)
        BY <1>10 DEF Restoring
      <3>6. Spoilt(k) => Spoilt(k)'
        BY <1>10, <2>6, <3>2, <3>3 DEF Spoilt, Same
      <3> QED BY <1>1, <3>1, <3>2, <3>4, <3>5, <3>6 DEF Undoable
    <2>7. ASSUME NEW k \in DOMAIN db \ seen.touched, k # old.key
          PROVE  Undoable(k)'
      BY <1>1, <2>1, <2>3, <2>4, <2>7, OtherKey DEF RollbackInv
    <2> QED BY <2>5, <2>6, <2>7
  <1>11. CASE /\ old.inserted # Null /\ old.at = "restore"
              /\ Put(old.key, old.previous.obj) /\ tool' = on
    <2>1. /\ \A k \in DOMAIN db : db'[k] = IF k = old.key THEN Row(old.previous.obj) ELSE db[k]
          /\ revision' = revision + 1
      BY <1>11 DEF Put
    <2>2. ASSUME NEW k \in DOMAIN db \ seen.touched, k = old.key
          PROVE  Undoable(k)'
      <3>1. /\ tool.next \in DoneFor(k) /\ DoneFor(k) \subseteq DOMAIN tool.jobs
            /\ Replaced(k) \/ Restoring(k) \/ Spoilt(k)
        BY <1>7, <1>11, <2>2
      <3>2. DoneFor(k)' = DoneFor(k) /\ tool'.jobs = tool.jobs /\ tool'.next = tool.next + 1
        BY <1>4, <1>11 DEF DoneFor, JobsOf
      <3>3. /\ db'[k] = Row(old.previous.obj) /\ db'[k].obj = old.previous.obj
            /\ db'[k].mod = revision + 1
        BY <2>1, <2>2 DEF Row
      <3>4. ~Replaced(k)
        BY <1>11, <3>1 DEF Replaced
      <3>5. Restoring(k) => Restored(k)'
        <4>1. SUFFICES ASSUME Restoring(k)
                       PROVE  Restored(k)'
          OBVIOUS
        <4>2. old.previous = setting.initial[k] /\ old.previous # Null /\ DoneFor(k) = {tool.next}
          BY <1>1, <1>11, <4>1 DEF Restoring, IsJob
        <4>3. Null \notin [obj: {old.previous.obj}, mod: Nat]
          BY <1>1, <4>2 DEF JobOrder, IsSome
        <4>4. Row(old.previous.obj) # Null
          BY <1>1, <4>3 DEF Row
        <4> QED BY <1>1, <3>2, <3>3, <4>2, <4>4 DEF Restored, AsBefore
      <3>6. Spoilt(k) => Spoilt(k)'
        <4>1. SUFFICES ASSUME Spoilt(k)
                       PROVE  Spoilt(k)'
          OBVIOUS
        <4>2. PICK i \in DoneFor(k) : i >= tool.next /\ tool.jobs[i].at = "end"
          BY <4>1 DEF Spoilt
        <4>3. i # tool.next /\ i \in Nat
          BY <1>1, <1>11, <3>1, <4>2 DEF JobOrder
        <4>4. tool.jobs[i].inserted.mod <= revision /\ tool.jobs[i].inserted.mod \in Nat
          BY <1>1, <3>1, <4>2 DEF JobOrder, DoneFor
        <4>5. i >= tool'.next /\ tool'.jobs[i].at = "end" /\ i \in DoneFor(k)'
          BY <1>1, <3>2, <4>2, <4>3
        <4>6. ~Same(k, tool.jobs[i].inserted)'
          BY <1>1, <3>2, <3>3, <4>4 DEF Same
        <4> QED BY <4>5, <4>6 DEF Spoilt
      <3> QED BY <1>1, <1>4, <1>11, <3>1, <3>4, <3>5, <3>6 DEF Undoable
    <2>3. ASSUME NEW k \in DOMAIN db \ seen.touched, k # old.key
          PROVE  Undoable(k)'
      BY <1>6, <1>11, <2>1, <2>3
    <2> QED BY <1>5, <1>11, <2>2, <2>3
  <1> QED BY <1>2, <1>3, <1>8, <1>9, <1>10, <1>11

\* Every step preserves the invariant of the rollback.
LEMMA RollbackNext == CatalogueInv /\ RollbackInv /\ [Next]_vars => RollbackInv'
  <1> SUFFICES ASSUME CatalogueInv, RollbackInv, [Next]_vars
               PROVE  RollbackInv'
    OBVIOUS
  <1>1. Aged
    BY NextStores, StoreKept DEF CatalogueInv
  <1>2. UNCHANGED setting
    <2>1. ASSUME NEW c \in Clients, Start(c) \/ Edit(c) \/ Serve(c)
          PROVE  UNCHANGED setting
      BY <2>1, Zenon DEF Start, Edit, Serve, Arrive, Authorize, CheckRole, Handle, Commit
    <2> QED BY <2>1 DEF Next, Collect, vars
  <1>3. CASE tool' = tool
    <2>1. \A k \in DOMAIN db : k \notin seen'.touched => k \notin seen.touched /\ db'[k] = db[k]
      BY <1>3 DEF Next, Remember, vars
    <2> QED BY <1>1, <1>2, <1>3, <2>1, OthersKeepUndo
  <1>4. CASE tool' # tool
    <2>1. ToolStep
      BY <1>4, ClientStep DEF Next, Collect, vars
    <2>2. seen'.touched = seen.touched
      BY <1>4 DEF Next, Remember, vars
    <2>3. JobOrder' /\ \A k \in DOMAIN db \ seen.touched : Undoable(k)'
      BY <1>1, <1>2, <2>1, BeginInsertUndo, RemoveStoredUndo, InsertUndo, GatheredUndo, RollbackUndo,
         RolledBackUndo DEF ToolStep
    <2>4. \A k \in DOMAIN db' \ seen'.touched : Undoable(k)'
      BY <1>1, <2>2, <2>3 DEF Aged
    <2> QED BY <2>3, <2>4 DEF RollbackInv, RollbackRestores, Undoable
  <1> QED BY <1>3, <1>4

\* The rollback of the bootstrap tool restores what was there before, whatever requests
\* run at the same time and however often a key is in its files (insert_resource,
\* rollback; RollbackInv).
THEOREM RollbackInvariant == Spec => []RollbackInv
  BY RollbackInit, RollbackNext, CatalogueInvariant, PTL DEF Spec
=============================================================================
