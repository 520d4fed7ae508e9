---------------------------- MODULE ApiHandlers ----------------------------
(***************************************************************************)
(* What the request handlers of the Krake API decide, given the entity     *)
(* loaded from the database and the request: the application handlers of   *)
(* krake/api/kubernetes.py.  The cluster, cloud, project, metric and role  *)
(* handlers are instances of the same template without the operations on   *)
(* hooks.  Timestamps are abstracted to whether they are set, and the parts *)
(* of the status that no handler looks at are left out.                    *)
(***************************************************************************)
EXTENDS Naturals, Sequences, Functions

CONSTANTS
    Refs,        \* references to owners and binding targets (clusters)
    Finalizers,  \* names of finalizers, "cascade_deletion" among them
    Specs,       \* contents of the spec, all mutable fields together
    Hooked,      \* the specs that declare a shutdown hook
    Null         \* Python's None, and an absent database entry

Cascade == "cascade_deletion"

\* The application states that the handlers look at or set
AppStates == {"PENDING", "RUNNING", "WAITING_FOR_CLEANING",
              "READY_FOR_ACTION", "DEGRADED"}

Metadata == [uid: Nat, deleted: BOOLEAN, finalizers: Seq(Finalizers), owners: SUBSET Refs]
Status   == [state: AppStates, scheduled_to: Refs \cup {Null}]
Entities == [metadata: Metadata, spec: Specs, status: Status]

ASSUME HandlersAssumption ==
    /\ Cascade \in Finalizers
    /\ Hooked \subseteq Specs
    /\ Null \notin Entities /\ Null \notin Refs

Entity(m, sp, st) == [metadata |-> m, spec |-> sp, status |-> st]
Meta(u, d, f, o) == [uid |-> u, deleted |-> d, finalizers |-> f, owners |-> o]
StatusOf(s, to) == [state |-> s, scheduled_to |-> to]

\* The entity with another state
InState(e, s) == Entity(e.metadata, e.spec, StatusOf(s, e.status.scheduled_to))

-----------------------------------------------------------------------------
(* A handler raises an HTTP error, answers without a write, stores an      *)
(* entity or removes it.                                                   *)

Reject    == [kind |-> "error"]
Answer    == [kind |-> "answer"]
Erase     == [kind |-> "remove"]
Store(e)  == [kind |-> "store", obj |-> e]

\* create_application: metadata is filled in, the status is reset
NewEntity(uid, body) ==
    Entity(Meta(uid, FALSE, body.metadata.finalizers, body.metadata.owners),
           body.spec, StatusOf("PENDING", Null))

\* delete_application
DeleteEntity(e, force) ==
    CASE force              -> Erase
      [] ~force /\ e.metadata.deleted -> Answer
      [] OTHER ->
           Store(Entity(Meta(e.metadata.uid, TRUE,
                             Append(e.metadata.finalizers, Cascade),
                             e.metadata.owners),
                        e.spec,
                        IF e.spec \in Hooked
                          THEN StatusOf("WAITING_FOR_CLEANING", e.status.scheduled_to)
                          ELSE e.status))

\* Faulty variant of Merge: the deletion mark is not read-only
MergeDeleted(e, body) ==
    Entity(Meta(e.metadata.uid, body.metadata.deleted,
                body.metadata.finalizers, body.metadata.owners), body.spec, e.status)

\* Serializable.update on an entity: the status is a subresource, uid and
\* deleted are read-only, everything else is taken from the body
Merge(e, body) ==
    Entity(Meta(e.metadata.uid, e.metadata.deleted,
                body.metadata.finalizers, body.metadata.owners),
           body.spec, e.status)

\* Faulty variants of UpdateEntity: finalizers may be added during a deletion;
\* a resource without finalizers is removed whether it is in deletion or not
UpdateUnchecked(e, body, stamped) ==
    LET new == Merge(e, body) IN
    IF body = e /\ stamped THEN Reject
    ELSE IF new.metadata.deleted /\ new.metadata.finalizers = <<>> THEN Erase ELSE Store(new)
UpdateErases(e, body, stamped) ==
    IF body = e /\ stamped THEN Reject
    ELSE IF body.metadata.finalizers = <<>> THEN Erase ELSE Store(Merge(e, body))

\* update_application.  stamped: the body has the timestamps of the entity,
\* without which the two are not equal
UpdateEntity(e, body, stamped) ==
    LET new == Merge(e, body) IN
    CASE e.metadata.deleted
           /\ ~(Range(body.metadata.finalizers) \subseteq Range(e.metadata.finalizers))
             -> Reject
      [] body = e /\ stamped -> Reject
      [] OTHER -> IF new.metadata.deleted /\ new.metadata.finalizers = <<>>
                    THEN Erase ELSE Store(new)

\* Faulty variant of BindEntity: the owner added is the former cluster
BindFormer(e, ref) ==
    Store(Entity(Meta(e.metadata.uid, e.metadata.deleted, e.metadata.finalizers,
                      e.metadata.owners \cup {e.status.scheduled_to}),
                 e.spec, StatusOf(e.status.state, ref)))

\* update_application_binding
BindEntity(e, ref) ==
    Store(Entity(Meta(e.metadata.uid, e.metadata.deleted, e.metadata.finalizers,
                      e.metadata.owners \cup {ref}),
                 e.spec, StatusOf(e.status.state, ref)))

\* update_application_complete: marks as deleted, without a finalizer
CompleteEntity(e, valid) ==
    IF ~valid THEN Reject
    ELSE Store(Entity(Meta(e.metadata.uid, TRUE, e.metadata.finalizers, e.metadata.owners),
                      e.spec, StatusOf("READY_FOR_ACTION", e.status.scheduled_to)))

\* update_application_shutdown
ShutdownEntity(e, valid) ==
    IF ~valid THEN Reject
    ELSE IF e.status.state \in {"WAITING_FOR_CLEANING", "DEGRADED"}
           THEN Store(InState(e, "READY_FOR_ACTION"))
           ELSE Store(e)

\* update_application_status: the status is replaced as a whole
StatusEntity(e, status) == Store(Entity(e.metadata, e.spec, status))

\* retry_application
RetryEntity(e) ==
    IF e.status.state = "DEGRADED"
      THEN Store(InState(e, "WAITING_FOR_CLEANING"))
      ELSE Reject

-----------------------------------------------------------------------------
(* Requests that load an entity, and their outcome                         *)

Requests ==
    [op: {"delete"}, force: BOOLEAN]
      \cup [op: {"update"}, body: Entities, stamped: BOOLEAN]
      \cup [op: {"binding"}, ref: Refs]
      \cup [op: {"complete", "shutdown"}, valid: BOOLEAN]
      \cup [op: {"status"}, status: Status]
      \cup [op: {"retry"}]

Outcome(e, r) ==
    CASE r.op = "delete"   -> DeleteEntity(e, r.force)
      [] r.op = "update"   -> UpdateEntity(e, r.body, r.stamped)
      [] r.op = "binding"  -> BindEntity(e, r.ref)
      [] r.op = "complete" -> CompleteEntity(e, r.valid)
      [] r.op = "shutdown" -> ShutdownEntity(e, r.valid)
      [] r.op = "status"   -> StatusEntity(e, r.status)
      [] r.op = "retry"    -> RetryEntity(e)

-----------------------------------------------------------------------------
(* What the proofs ask of every handler                                    *)

\* Every handler stores an entity of the same identity, keeps a deletion
\* mark, and adds no finalizer to a resource in deletion.
Faithful(e, o) ==
    /\ o.kind \in {"error", "answer", "remove", "store"}
    /\ o.kind = "store" =>
         /\ o.obj \in Entities
         /\ o.obj.metadata.uid = e.metadata.uid
         /\ e.metadata.deleted => o.obj.metadata.deleted
         /\ e.metadata.deleted =>
              Range(o.obj.metadata.finalizers) \subseteq Range(e.metadata.finalizers)
=============================================================================
