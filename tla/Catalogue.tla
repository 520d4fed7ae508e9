----------------------------- MODULE Catalogue -----------------------------
(***************************************************************************)
(* The resources of all kinds under concurrent commands: krakectl and the  *)
(* client library on one side, the authentication, the authorization and   *)
(* the handlers of the API on the other, and the bootstrap tool that       *)
(* writes to the same database.  Requests are served concurrently: every   *)
(* access to the database is a step.                                       *)
(***************************************************************************)
EXTENDS Krakectl, AccessControl, Bootstrap

CONSTANTS
    Clients,   \* users of krakectl, scripts and controllers
    Retries,   \* retry_transactions of the configuration
    Starts     \* what there is at the start: setting, commands, rows of the database, tool

VARIABLES
    setting,   \* what is fixed for a behaviour: configuration, credentials, environment
    pending,   \* [Clients -> the commands that a client may give, one of them]
    call,      \* [Clients -> the command a client is running]
    seen       \* history, see Remember

vars == <<db, revision, tool, setting, pending, call, seen>>

\* A command: an operation on a resource, with its options
Command(op, kind, namespace, name, options) ==
    [op |-> op, kind |-> kind, namespace |-> IF kind.namespaced THEN namespace ELSE Null,
     name |-> name, options |-> options]
Waiting == [at |-> "idle", cmd |-> Null, op |-> Null, body |-> Null, base |-> Null,
            served |-> Null, user |-> Null, roles |-> <<>>, loaded |-> Null, outcome |-> Null,
            tries |-> 0, answer |-> Null]

KeyOf(kind, namespace, name) == <<kind.resource, namespace, name>>
Target(cmd) == KeyOf(cmd.kind, cmd.namespace, cmd.name)

\* What krakectl and the controllers can ask for: the name and the namespace of
\* a resource are there, subresources only where the kind has them
IsCommand(cmd) ==
    /\ cmd.kind \in Kinds
    /\ cmd.name # Null
    /\ (cmd.namespace # Null) = cmd.kind.namespaced
    /\ \/ cmd.op \in {"create", "read", "list", "update", "delete"} \cup cmd.kind.sub
       \/ cmd.op = "list_all" /\ cmd.kind.namespaced

\* A resource as it is stored.  One in deletion has a finalizer: whoever takes
\* the last one away erases the resource.
IsResource(o) ==
    /\ o \in [uid: {o.uid}, modified: {o.modified}, deleted: {o.deleted},
              finalizers: {o.finalizers}, owners: {o.owners}, content: {o.content},
              status: {o.status}]
    /\ o.deleted \in BOOLEAN
    /\ o.deleted => o.finalizers # {}

\* What the tool makes of the content of a document; rows with one of these
\* objects differ from None
Inserts(content) ==
    [uid: Nat, modified: Nat, deleted: {FALSE}, finalizers: {{}}, owners: {{}},
     content: {content}, status: {Fresh}]
IsSome(objs) == Null \notin [obj: objs, mod: Nat]

\* At the start the resources are whole, there is a row for everything that
\* somebody may write, and the tool has not done anything
ASSUME CatalogueAssumption ==
    /\ Retries \in Nat
    /\ Null \notin {"create", "read", "list", "list_all", "update", "delete", "binding", "status",
                   "no route"}
    /\ \A s \in Starts :
         /\ s.rows = [k \in DOMAIN s.rows |-> s.rows[k]]
         /\ s.setting.initial = s.rows
         /\ s.commands = [c \in Clients |-> s.commands[c]]
         /\ \A k \in DOMAIN s.rows : s.rows[k] # Null =>
              IsResource(s.rows[k].obj) /\ s.rows[k].mod = 1 /\ IsSome({s.rows[k].obj})
         /\ \A c \in Clients : \A cmd \in s.commands[c] : IsCommand(cmd) /\ Target(cmd) \in DOMAIN s.rows
         /\ \/ s.tool = ToolOff
            \/ /\ s.tool = Tool(s.tool.force, s.tool.jobs)
               /\ Len(s.tool.jobs) \in Nat
               /\ s.tool.jobs = [i \in 1..Len(s.tool.jobs) |-> s.tool.jobs[i]]
               /\ \A i \in DOMAIN s.tool.jobs :
                    /\ s.tool.jobs[i] = Job(s.tool.jobs[i].key, s.tool.jobs[i].content,
                                            s.tool.jobs[i].document)
                    /\ s.tool.jobs[i].key \in DOMAIN s.rows
                    /\ IsSome(Inserts(s.tool.jobs[i].content))

Is(c, new) == call' = [call EXCEPT ![c] = new]
Ends(c, answer) == Is(c, [Waiting EXCEPT !.at = "done", !.cmd = call[c].cmd, !.answer = answer])
Stored == <<db, revision>>

-----------------------------------------------------------------------------
(* The client side                                                         *)

\* A request of the command is sent
Sends(c, cmd, op, body) ==
    Is(c, [call[c] EXCEPT !.at = "sent", !.cmd = cmd, !.op = op, !.body = body, !.tries = 0])

\* The body of a creation
Posted(cmd, content) == Resource(0, 0, FALSE, {}, {}, content, Fresh)

\* A command starts.  An update and a status report get the resource first.
Start(c) ==
    /\ call[c].at = "idle"
    /\ pending' = [pending EXCEPT ![c] = {}]
    /\ \E cmd \in pending[c] :
         IF cmd.op = "create"
           THEN LET content == ContentOf(cmd.kind, cmd.name, cmd.options, setting.env) IN
                IF content = Null
                  THEN Is(c, [call[c] EXCEPT !.at = "done", !.cmd = cmd, !.answer = "exit"])
                  ELSE Sends(c, cmd, "create", Posted(cmd, content))
           ELSE Sends(c, cmd, IF cmd.op \in {"update", "status"} THEN "read" ELSE cmd.op, Null)
    /\ UNCHANGED <<Stored, tool, setting>>

\* The resource has arrived: it is edited and put back
Edit(c) ==
    LET cmd == call[c].cmd
        old == call[c].base.obj
        new == Edited(cmd.kind, old.content, cmd.options, setting.env)
    IN  /\ call[c].at = "edit"
        /\ CASE cmd.op = "status" -> Sends(c, cmd, "status", [old EXCEPT !.status.state = "reported"])
             [] cmd.op = "update" /\ new = Null -> Ends(c, "exit")
             [] cmd.op = "update" /\ new # Null -> Sends(c, cmd, "update", [old EXCEPT !.content = new])
        /\ UNCHANGED <<Stored, tool, setting, pending>>

\* What the router makes of a request: its handler (kind and op) and the
\* namespace of its path
Matched(request) ==
    LET path == PathOf(ClientOf(request.cmd.kind), request.op, request.cmd.namespace, request.cmd.name)
        kind == CHOOSE k \in Kinds : k.api = path.api /\ k.resource = path.resource
    IN  [kind |-> kind, op |-> Route(kind, Method(request.op), path), namespace |-> path.namespace]

KindServed(c) == call[c].served.kind
OpServed(c) == call[c].served.op
KeyServed(c) == KeyOf(KindServed(c), call[c].served.namespace, call[c].cmd.name)
Asked(c) == ProtectedAs(KindServed(c), OpServed(c), call[c].served)

-----------------------------------------------------------------------------
(* The server side                                                         *)

\* The middlewares up to the handler: the request is routed, its user known
Arrive(c) ==
    LET user  == User(setting.config, setting.credentials)
        found == Matched(call[c])
    IN
    /\ call[c].at = "sent"
    /\ CASE found.op = Null -> Ends(c, "no route")
         [] found.op # Null /\ user = Unauthorized -> Ends(c, "unauthorized")
         [] OTHER -> Is(c, [call[c] EXCEPT !.at = "protected", !.user = user, !.served = found])
    /\ UNCHANGED <<Stored, tool, setting, pending>>

\* protected: always_allow, always_deny, or rbac up to the answer of the
\* database with the role bindings
Authorize(c) ==
    LET keys  == [i \in DOMAIN setting.bindings |-> KeyOf(RoleBinding, Null, setting.bindings[i])]
        found == SelectSeq(keys, LAMBDA k : db[k] # Null)
        names == RolesOf([i \in DOMAIN found |-> db[found[i]].obj.content], call[c].user)
    IN  /\ call[c].at = "protected"
        /\ CASE setting.config.authorization = "always-allow" -> Is(c, [call[c] EXCEPT !.at = "handler"])
             [] setting.config.authorization = "always-deny" -> Ends(c, "forbidden")
             [] OTHER ->
                  IF call[c].user = Anonymous THEN Ends(c, "unauthorized")
                  ELSE IF names = <<>> THEN Ends(c, "forbidden")
                  ELSE Is(c, [call[c] EXCEPT !.at = "roles", !.roles = names])
        /\ UNCHANGED <<Stored, tool, setting, pending>>

\* rbac reads the next role of the user
CheckRole(c) ==
    LET row == db[KeyOf(Role, Null, Head(call[c].roles))] IN
    /\ call[c].at = "roles"
    /\ CASE row # Null /\ Grants(row.obj.content, Asked(c)) ->
              Is(c, [call[c] EXCEPT !.at = "handler", !.roles = <<>>])
         [] (row = Null \/ ~Grants(row.obj.content, Asked(c))) /\ Len(call[c].roles) = 1 ->
              Ends(c, "forbidden")
         [] OTHER -> Is(c, [call[c] EXCEPT !.roles = Tail(@)])
    /\ UNCHANGED <<Stored, tool, setting, pending>>

\* What a handler makes of the resource that it has loaded
Outcome(c, obj) ==
    LET body == call[c].body IN
    CASE OpServed(c) = "delete"  -> Deleted(KindServed(c), obj, Given(call[c].cmd.options, "force"))
      [] OpServed(c) = "update"  -> Updated(KindServed(c), obj, body, revision + 1)
      [] OpServed(c) = "status"  -> Reported(obj, body)
      [] OpServed(c) = "binding" -> Bound(obj, call[c].cmd.options.target)

\* Faulty variant of HandleCreate: the key is not compared
HandleCreateBlindly(c) ==
    /\ Put(KeyServed(c), Made(call[c].body, revision + 1))
    /\ Ends(c, "ok")

\* create_*: either the write finds out that the key is taken or it is looked
\* for before
HandleCreate(c) ==
    IF db[KeyServed(c)] # Null THEN Ends(c, "exists") /\ UNCHANGED Stored
    ELSE IF KindServed(c).creation = "transaction"
      THEN Put(KeyServed(c), Made(call[c].body, revision + 1)) /\ Ends(c, "ok")
      ELSE /\ Is(c, [call[c] EXCEPT !.at = "commit", !.loaded = Null,
                                    !.outcome = Written(Made(call[c].body, revision + 1))])
           /\ UNCHANGED Stored

\* A handler, up to its write: schema, @load, the decisions of the template
Handle(c) ==
    LET row == db[KeyServed(c)]
        on  == [call[c] EXCEPT !.loaded = row, !.outcome = Outcome(c, row.obj)]
    IN  /\ call[c].at = "handler"
        /\ CASE OpServed(c) \in {"list", "list_all"} -> Ends(c, "ok") /\ UNCHANGED Stored
             [] OpServed(c) \in {"create", "update"} /\ ~Valid(KindServed(c), call[c].body.content) ->
                  Ends(c, "invalid") /\ UNCHANGED Stored
             [] OpServed(c) = "create" /\ Valid(KindServed(c), call[c].body.content) ->
                  HandleCreate(c)
             [] OTHER ->
                  /\ IF row = Null THEN Ends(c, "missing")
                     ELSE IF OpServed(c) = "read"
                       THEN IF call[c].cmd.op = "read" THEN Ends(c, "ok")
                            ELSE Is(c, [call[c] EXCEPT !.at = "edit", !.base = row])
                     ELSE CASE on.outcome = Refused  -> Ends(c, "refused")
                            [] on.outcome = Answered -> Ends(c, "ok")
                            [] OTHER -> Is(c, [on EXCEPT !.at = "commit"])
                  /\ UNCHANGED Stored
        /\ UNCHANGED <<tool, setting, pending>>

\* retry_transaction: the request is handled once more from its authorization
Conflict(c) ==
    IF call[c].tries < Retries
      THEN Is(c, [call[c] EXCEPT !.at = "protected", !.loaded = Null, !.outcome = Null,
                                 !.tries = @ + 1])
      ELSE Ends(c, "conflict")

\* The write of a handler
Commit(c) ==
    LET key == KeyServed(c)
        out == call[c].outcome
        free == IF call[c].loaded = Null THEN db[key] = Null ELSE Same(key, call[c].loaded)
    IN  /\ call[c].at = "commit"
        /\ IF ~free THEN Conflict(c) /\ UNCHANGED Stored
           ELSE /\ Ends(c, "ok")
                /\ IF out = Removed THEN Erase(key) ELSE Put(key, out.obj)
        /\ UNCHANGED <<tool, setting, pending>>

\* The garbage collector ends the deletion of a resource without dependents
Collect(key) ==
    /\ db[key] # Null
    /\ db[key].obj.deleted
    /\ db[key].obj.finalizers = {Cascade}
    /\ Erase(key)
    /\ UNCHANGED <<tool, setting, pending, call>>

-----------------------------------------------------------------------------
(* History                                                                 *)

\* What a role allows according to the documentation of Role, the wildcards spelled out
\* for the request: resources of the namespaces of a rule, and resources that are not
\* namespaced
Covers(role, namespaced, request) ==
    \E rule \in role.rules :
       <<request.api, request.verb, request.resource, request.namespace>> \in
         (IF rule.api = "" THEN {request.api} ELSE {rule.api}) \X rule.verbs
           \X (IF <<"">> \in rule.resources THEN {request.resource} ELSE rule.resources)
           \X (IF "" \in rule.namespaces \/ ~namespaced THEN {request.namespace}
               ELSE rule.namespaces)

\* The roles that the database gives to a user, and those of them that allow
\* a request
RolesBound(rows, user) ==
    UNION {{rows[k].obj.content.roles[i] : i \in DOMAIN rows[k].obj.content.roles} :
             k \in {k \in DOMAIN rows : /\ k[1] = RoleBinding.resource
                                        /\ rows[k] # Null
                                        /\ user \in rows[k].obj.content.users}}
RolesThatAllow(rows, user, namespaced, request) ==
    {name \in RolesBound(rows, user) :
       LET row == rows[KeyOf(Role, Null, name)]
       IN  row # Null /\ Covers(row.obj.content, namespaced, request)}

\* bound: the roles of the user when the authorization of a request began;
\* held: those that allow the request and have been there since then.
\* touched: keys that something other than the tool has written.
NotAsked == [bound |-> {}, held |-> {}]
Remember ==
    seen' = [touched |-> IF tool' = tool THEN seen.touched \cup {k \in DOMAIN db : db'[k] # db[k]}
                                         ELSE seen.touched,
             access |-> [c \in Clients |->
               CASE setting.config.authorization # "RBAC" -> NotAsked
                 [] setting.config.authorization = "RBAC" /\ call'[c].at = "protected" ->
                      [bound |-> RolesBound(db', call'[c].user),
                       held |-> RolesThatAllow(db', call'[c].user, KindServed(c)'.namespaced, Asked(c)')]
                 [] setting.config.authorization = "RBAC" /\ call'[c].at = "roles" ->
                      [seen.access[c] EXCEPT
                         !.held = @ \cap RolesThatAllow(db', call'[c].user, KindServed(c)'.namespaced,
                                                  Asked(c)')]
                 [] OTHER -> seen.access[c]]]

-----------------------------------------------------------------------------
Init ==
    /\ \E s \in Starts : /\ setting = s.setting
                         /\ pending = s.commands
                         /\ db = s.rows
                         /\ tool = s.tool
    /\ revision = 1
    /\ call = [c \in Clients |-> Waiting]
    /\ seen = [touched |-> {}, access |-> [c \in Clients |-> NotAsked]]

Serve(c) == Arrive(c) \/ Authorize(c) \/ CheckRole(c) \/ Handle(c) \/ Commit(c)

Next ==
    /\ \/ \E c \in Clients : Start(c) \/ Edit(c) \/ Serve(c)
       \/ ToolStep /\ UNCHANGED <<setting, pending, call>>
       \/ \E key \in DOMAIN db : Collect(key)
    /\ Remember

Spec == Init /\ [][Next]_vars

-----------------------------------------------------------------------------
(* Properties                                                              *)

\* A resource never takes the place of another one under the same key: a
\* creation that runs together with another creation, with a deletion or with
\* the tool reports that the key is taken (create_*, insert_resource).
NeverOverwritten ==
    [][\A k \in DOMAIN db : db[k] # Null /\ db'[k] # Null => db'[k].obj.uid = db[k].obj.uid]_vars

\* A resource in deletion has a finalizer as long as it is there: whoever
\* takes the last one away erases it (update_*), be it the garbage collector
\* or the update of a user who read the resource before it was deleted.
\* Without one nobody would ever erase it.
DeletedHeld ==
    \A k \in DOMAIN db : db[k] # Null /\ db[k].obj.deleted => db[k].obj.finalizers # {}

\* The rows of the database
RowsWhole ==
    /\ revision \in Nat
    /\ db = [k \in DOMAIN db |-> db[k]]
    /\ \A k \in DOMAIN db :
         db[k] # Null => IsResource(db[k].obj) /\ db[k].mod \in Nat /\ db[k].mod <= revision

\* A command that runs; an update and a status report read the resource first
Serving == {"protected", "roles", "handler", "commit"}
IsCall(r) ==
    /\ r \in [at: {r.at}, cmd: {r.cmd}, op: {r.op}, body: {r.body}, base: {r.base},
              served: {r.served}, user: {r.user}, roles: {r.roles}, loaded: {r.loaded},
              outcome: {r.outcome}, tries: {r.tries}, answer: {r.answer}]
    /\ r.at \in {"idle", "done", "sent", "edit"} \cup Serving
    /\ r.at \notin {"idle", "done"} =>
         /\ IsCommand(r.cmd) /\ Target(r.cmd) \in DOMAIN db
         /\ r.op = r.cmd.op \/ (r.op = "read" /\ r.cmd.op \in {"update", "status"})
    /\ r.at = "edit" => r.cmd.op \in {"update", "status"}

\* The handler that serves a request is the one that it is meant for
ServedAsAsked(r) ==
    /\ r.answer # "no route"
    /\ r.at \in Serving =>
         /\ r.served.kind = r.cmd.kind
         /\ r.served.op = r.op
         /\ r.op # "list_all" => r.served.namespace = r.cmd.namespace

\* What an operation keeps of the resource that it writes
Keeps(op, old, new) ==
    /\ new.uid = old.uid
    /\ op = "update" => new.status = old.status
    /\ op = "status" => [new EXCEPT !.status = Null] = [old EXCEPT !.status = Null]

\* The decision of a handler between its read and its write.  Whoever finds the
\* revision that was loaded finds the resource that was loaded.
Decided(r) ==
    r.at = "commit" =>
      /\ r.op \in {"create", "update", "status", "binding", "delete"}
      /\ r.outcome # Removed => r.outcome = Written(r.outcome.obj) /\ IsResource(r.outcome.obj)
      /\ r.loaded # Null =>
           /\ r.loaded.mod \in Nat /\ r.loaded.mod <= revision
           /\ Same(Target(r.cmd), r.loaded) => db[Target(r.cmd)] = r.loaded
           /\ r.outcome # Removed => Keeps(r.op, r.loaded.obj, r.outcome.obj)

\* An insertion of the tool: what it replaces can be put back
IsJob(job) ==
    /\ job \in [key: {job.key}, content: {job.content}, document: {job.document},
                at: {job.at}, previous: {job.previous}, inserted: {job.inserted},
                error: {job.error}]
    /\ job.key \in DOMAIN db
    /\ job.previous # Null => IsResource(job.previous.obj)
    /\ job.inserted # Null => job.at = "end" \/ (job.at = "restore" /\ job.previous # Null)
JobsWhole ==
    /\ tool \in [phase: {tool.phase}, force: {tool.force}, jobs: {tool.jobs}, next: {tool.next}]
    /\ tool.jobs = [i \in DOMAIN tool.jobs |-> tool.jobs[i]]
    /\ \A i \in DOMAIN tool.jobs : IsJob(tool.jobs[i])

\* Between the read and the write of a request, between the commands of a client
\* and the steps of the tool, what was read is either still there or can be told
\* from what is there by its revision (@load, transaction, retry_transaction); the
\* request is served by the handler it is meant for (routes of the API); and a
\* resource in deletion has a finalizer (update_*).
CatalogueInv ==
    /\ RowsWhole /\ DeletedHeld
    /\ call = [c \in Clients |-> call[c]]
    /\ pending = [c \in Clients |-> pending[c]]
    /\ \A c \in Clients :
         /\ IsCall(call[c]) /\ ServedAsAsked(call[c]) /\ Decided(call[c])
         /\ \A cmd \in pending[c] : IsCommand(cmd) /\ Target(cmd) \in DOMAIN db
    /\ JobsWhole

\* Every method of the client library reaches the handler of its kind, and the
\* handler works on the resource that the command named and on nothing else.
OnlyAddressed ==
    [][\A c \in Clients : call'[c] # call[c] =>
         /\ call'[c].answer # "no route"
         /\ \A k \in DOMAIN db : db'[k] # db[k] => k = Target(call'[c].cmd)]_vars

\* The owner of the specification and the owner of the status do not undo each
\* other's work, however their requests interleave: an update leaves the status
\* alone, a status report everything else (update_* and update_*_status).
OwnHalf ==
    [][\A c \in Clients :
         LET k == Target(call[c].cmd) IN
         call'[c] # call[c] /\ call[c].cmd # Null /\ db[k] # Null /\ db'[k] # Null /\ db'[k] # db[k] =>
           /\ call[c].op = "update" => db'[k].obj.status = db[k].obj.status
           /\ call[c].op = "status" =>
                [db'[k].obj EXCEPT !.status = Null] = [db[k].obj EXCEPT !.status = Null]]_vars

\* Requests that are served at the same time keep to the resource they address, and to
\* their part of it: an update leaves the status alone and an update of the status
\* everything else (api/core.py, infrastructure.py, kubernetes.py, openstack.py).
HandlersKeepApart == OnlyAddressed /\ OwnHalf

\* The step writes an update of a resource that is as krakectl read it
Undisturbed(c) ==
    LET k == Target(call[c].cmd) IN
    /\ call'[c] # call[c] /\ call[c].at = "commit" /\ call[c].op = "update"
    /\ db[k] # Null /\ db[k].mod = call[c].base.mod
    /\ db'[k] # Null /\ db'[k] # db[k]

\* What an option is about, and what an update writes whatever its options
About(p) ==
    CASE p \in {"file", "url"} -> {"url", "manifest", "tosca", "csar"}
      [] p = "mp_name" -> {"provider"}
      [] p = "metric_name" -> {"metric"}
      [] p \in {"infra_provider", "global_infra_provider"} -> {"provider", "namespaced"}
      [] p \in {"global_metrics", "remove_existing_metrics"} -> {"metrics"}
      [] p = "remove_existing_labels" -> {"labels"}
      [] p = "cluster_label_constraints" -> {"label_constraints"}
      [] p = "cluster_metric_constraints" -> {"metric_constraints"}
      [] p = "project_label_constraints" -> {"constraints"}
      [] p = "auth_url" -> {"url"}
      [] OTHER -> {p}
AlwaysWritten == {"password", "auth", "backoff", "backoff_delay", "backoff_limit"}

\* krakectl puts back the whole resource that it got.  When nobody has changed
\* it in between, only the fields change that an option of the command is
\* about; the exceptions are the ones that every update writes: password,
\* authentication, and the backoff options, which have defaults.
OnlyAskedFields ==
    [][\A c \in Clients : Undisturbed(c) =>
         LET k == Target(call[c].cmd)
             old == db[k].obj.content
             new == db'[k].obj.content
         IN  {f \in DOMAIN old : new[f] # old[f]} \subseteq
               UNION {About(p) : p \in DOMAIN call[c].cmd.options} \cup AlwaysWritten]_vars

\* The definition that the controller deploys: a manifest wins over a TOSCA
\* template, the template over a CSAR
InForce(content) ==
    IF content.manifest # "" THEN content.manifest
    ELSE IF content.tosca # "" THEN content.tosca ELSE content.csar

\* After an update the application is deployed from the file or URL that the
\* command named, whatever it was defined by before; a cloud is provided by the
\* provider that was named, looked up where the option says (in the namespace
\* or globally); the labels that were named have their new values.
OptionsTakeEffect ==
    [][\A c \in Clients : Undisturbed(c) =>
         LET cmd == call[c].cmd
             o   == cmd.options
             new == db'[Target(cmd)].obj.content
         IN  /\ cmd.kind = Application /\ (Given(o, "file") \/ Given(o, "url")) =>
                  InForce(new) = Definition(o).text
             /\ cmd.kind = Cloud /\ Given(o, "infra_provider") =>
                  new.provider = o.infra_provider /\ new.namespaced
             /\ cmd.kind \in {Cloud, GlobalCloud} /\ Given(o, "global_infra_provider") =>
                  new.provider = o.global_infra_provider /\ ~new.namespaced
             /\ Given(o, "labels") =>
                  \A l \in DOMAIN o.labels : l \in DOMAIN new.labels /\ new.labels[l] = o.labels[l]]_vars

\* Fields that an update adds to, or whose form differs between create and update
Accumulating == {"cloud_label_constraints", "cloud_metric_constraints", "metric_constraints",
                 "constraints", "hooks", "allowed_values"}

\* An update with the options that a resource was created with changes none of
\* its fields: the options mean the same to both commands of a kind, and
\* repeating a command does not add its labels and metrics a second time.
RepeatChangesNothing ==
    \A c \in Clients :
      LET cmd == call[c].cmd IN
      call[c].at = "sent" /\ call[c].op = "create" =>
        LET made  == call[c].body.content
            again == Edited(cmd.kind, made, cmd.options, setting.env)
        IN  again # Null => \A f \in DOMAIN made \ Accumulating : again[f] = made[f]

\* The update commands of krakectl do what their options say and nothing else, and a
\* repeated command with the options of the creation changes nothing but the
\* fields that accumulate (krakectl: update commands of core.py, infrastructure.py, kubernetes.py, openstack.py).
CommandsExact == OnlyAskedFields /\ OptionsTakeEffect /\ []RepeatChangesNothing

LetThrough(c) == call[c].at = "roles" /\ call'[c].at = "handler"
CoveredByRole(c) ==
    \E name \in seen.access[c].bound :
       LET row == db[KeyOf(Role, Null, name)]
       IN  row # Null /\ Covers(row.obj.content, KindServed(c).namespaced, Asked(c))

\* rbac lets a request through only if a role that was bound to the user when
\* the authorization began, and is there when it is looked at, covers API,
\* verb, resource and namespace of the request; but for lists over all namespaces.
GrantedByRoles ==
    [][\A c \in Clients : LetThrough(c) /\ OpServed(c) # "list_all" => CoveredByRole(c)]_vars

\* The same for lists over all namespaces: does not hold.  They have no namespace, and are
\* taken for requests about a kind that is not namespaced (rbac).
ListsGrantedByRoles == [][\A c \in Clients : LetThrough(c) => CoveredByRole(c)]_vars

\* Who holds a role that covers the request, and keeps it while the request is
\* authorized, is not refused, whatever happens to the other roles and
\* bindings between the reads of rbac.
HeldAccessGranted ==
    [][\A c \in Clients :
         /\ setting.config.authorization = "RBAC"
         /\ call[c].at \in {"protected", "roles"} /\ call'[c].answer = "forbidden"
         => seen.access[c].held = {}]_vars

\* A request, other than for a list over all namespaces, is let through only if a role that
\* is bound to its user says so, and any request is if such a role does, whatever changes
\* between the reads of bindings and roles (rbac, protected).
AccessByRoles == GrantedByRoles /\ HeldAccessGranted

\* The key is as it was before the tool was started
AsBefore(k) ==
    IF setting.initial[k] = Null THEN db[k] = Null
    ELSE db[k] # Null /\ db[k].obj = setting.initial[k].obj

\* When the bootstrap tool has reported an error and rolled back, everything is
\* as it was before: replaced resources are there again with their uid, new
\* ones are gone.  Resources that somebody else has written are left out.
RollbackRestores == tool.phase = "failed" => \A k \in DOMAIN db \ seen.touched : AsBefore(k)

\* The insertions of a key, and those that have inserted their resource
JobsOf(k) == {i \in DOMAIN tool.jobs : tool.jobs[i].key = k}
DoneFor(k) == {i \in JobsOf(k) : tool.jobs[i].inserted # Null}

\* While the tool inserts: nothing has happened to the key; what was stored has
\* been deleted; one insertion has replaced it; two insertions compete for it, so
\* that one of them, or its rollback, must fail
Untried(k) ==
    /\ db[k] = setting.initial[k] /\ DoneFor(k) = {}
    /\ \A i \in JobsOf(k) :
         /\ tool.jobs[i].previous \in {Null, setting.initial[k]}
         /\ tool.jobs[i].at = "put" => setting.initial[k] = Null
Cleared(k) ==
    /\ db[k] = Null /\ DoneFor(k) = {}
    /\ \E i \in JobsOf(k) : tool.jobs[i].at = "put" /\ tool.jobs[i].previous = setting.initial[k]
Replaced(k) ==
    \E i \in DoneFor(k) :
       /\ DoneFor(k) = {i} /\ i >= tool.next /\ tool.jobs[i].at = "end"
       /\ db[k] = tool.jobs[i].inserted /\ tool.jobs[i].previous = setting.initial[k]
Contested(k) ==
    \E i \in DoneFor(k), j \in JobsOf(k) : i # j /\ (j \in DoneFor(k) \/ tool.jobs[j].at = "put")

\* While it rolls back: the key is as it was; its resource is being put back; an
\* insertion that is still to be undone will not find its resource
Restored(k) == AsBefore(k) /\ \A i \in DoneFor(k) : i < tool.next
Restoring(k) ==
    /\ db[k] = Null /\ DoneFor(k) = {tool.next} /\ tool.jobs[tool.next].at = "restore"
    /\ tool.jobs[tool.next].previous = setting.initial[k]
Spoilt(k) ==
    \E i \in DoneFor(k) : i >= tool.next /\ tool.jobs[i].at = "end" /\ ~Same(k, tool.jobs[i].inserted)

Undoable(k) ==
    /\ tool.phase = "inserting" => Untried(k) \/ Cleared(k) \/ Replaced(k) \/ Contested(k)
    /\ tool.phase = "rollback" => Restored(k) \/ Replaced(k) \/ Restoring(k) \/ Spoilt(k)
    /\ tool.phase = "failed" => AsBefore(k)

\* Where the insertions are in each phase, and that their writes are told apart;
\* what the tool writes is a row, not None
JobOrder ==
    /\ \A k \in DOMAIN db : setting.initial[k] # Null => IsSome({setting.initial[k].obj})
    /\ tool.next \in Nat \ {0}
    /\ tool.phase = "inserting" => tool.next = 1
    /\ \A i \in DOMAIN tool.jobs :
         LET job == tool.jobs[i] IN
         /\ i \in Nat \ {0} /\ 1..i \subseteq DOMAIN tool.jobs
         /\ IsSome(Inserts(job.content))
         /\ job.at = "start" => job.previous = Null
         /\ job.at = "delete" => job.previous # Null
         /\ tool.phase = "inserting" => job.at # "restore"
         /\ tool.phase = "rollback" => job.at = "end" \/ (job.at = "restore" /\ i <= tool.next)
         /\ job.inserted # Null => job.inserted.mod \in Nat /\ job.inserted.mod <= revision
         /\ \A j \in DOMAIN tool.jobs :
              i # j /\ job.inserted # Null /\ tool.jobs[j].inserted # Null
                => job.inserted.mod # tool.jobs[j].inserted.mod

\* The rollback of the bootstrap tool restores what was there (RollbackRestores), also
\* when several resources of its files have the same key, because at every moment it
\* knows what each key held or meets a conflict (insert_resource, rollback).
RollbackInv ==
    /\ RollbackRestores /\ JobOrder
    /\ \A k \in DOMAIN db \ seen.touched : Undoable(k)

\* "If any issue arises during insertion, the newly inserted values will be
\* removed, and if previous values were present and have been replaced, they
\* will be added again" (documentation of bootstrap_db): also when the tool
\* ends because of an exception.
NoPartialInsertion ==
    tool.phase \in {"failed", "aborted"} =>
      \A k \in DOMAIN db \ seen.touched : AsBefore(k)

=============================================================================
