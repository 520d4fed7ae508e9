-------------------------- MODULE ApiTransactions --------------------------
(***************************************************************************)
(* The API server over etcd.  A handler loads its entity with the revision *)
(* of the key (helpers.load, Session.get), decides, and commits a          *)
(* transaction that compares this revision (Session.put, Session.delete);  *)
(* other requests are served between the two.  A failed comparison is a    *)
(* TransactionError, after which the middleware runs the handler again.    *)
(*                                                                         *)
(* Clients build the body of a request from the copy of the resource they  *)
(* read last, however old it is.                                           *)
(***************************************************************************)
EXTENDS ApiHandlers

CONSTANTS
    Names,        \* names of resources
    Clients,      \* users and controllers
    Owned,        \* [Clients -> the finalizer a controller manages, or Null]
    Retries,      \* retry_transactions of the configuration
    Reported,     \* application states that controllers report
    AllowForce,   \* do clients ask for forced deletions?
    MaxRevision   \* bound: no new request once the database has this revision

\* An etcd key: the stored entity and the revision of its last modification
Rows == [obj: Entities, mod: Nat]
\* A request being served: how often it was retried, what its handler loaded
AllRequests == Requests \cup [op: {"create"}, body: Entities]
CallSet == [name: Names, req: AllRequests, tries: Nat, entity: Rows \cup {Null}]
\* What the client asked for
Orders == [name: Names, req: AllRequests]

ASSUME TransactionsAssumption ==
    /\ Null \notin Rows /\ Null \notin CallSet /\ Null \notin Orders
    /\ Owned \in [Clients -> Finalizers \cup {Null}]
    /\ Retries \in Nat
    /\ Reported \subseteq AppStates
    /\ AllowForce \in BOOLEAN
    /\ MaxRevision \in Nat

VARIABLES
    db,        \* [Names -> [obj, mod] or Null]: the etcd keys
    revision,  \* revision of the etcd store
    call,      \* [Clients -> request being served, or Null]
    copy       \* [Clients -> [Names -> entity the client knows, or Null]]

vars == <<db, revision, call, copy>>

Init ==
    /\ db = [n \in Names |-> Null]
    /\ revision = 0
    /\ call = [c \in Clients |-> Null]
    /\ copy = [c \in Clients |-> [n \in Names |-> Null]]

-----------------------------------------------------------------------------
(* Clients                                                                 *)

\* read_application, a listing or a watch event: a fresh copy, or none
Read(c, n) ==
    /\ call[c] = Null
    /\ copy' = [copy EXCEPT ![c][n] = IF db[n] = Null THEN Null ELSE db[n].obj]
    /\ UNCHANGED <<db, revision, call>>

\* The bodies a client makes of its copy: another spec, its finalizer added,
\* its finalizer removed from the tail of a deleted resource
Bodies(c, e) ==
    LET m == e.metadata
        f == Owned[c]
        WithFinalizers(fs) == Entity(Meta(m.uid, m.deleted, fs, m.owners), e.spec, e.status)
    IN  {Entity(m, s, e.status) : s \in Specs}
          \cup (IF f # Null /\ f # Cascade /\ ~m.deleted /\ f \notin Range(m.finalizers)
                  THEN {WithFinalizers(Append(m.finalizers, f))} ELSE {})
          \cup (IF f # Null /\ m.deleted /\ m.finalizers # <<>>
                     /\ m.finalizers[Len(m.finalizers)] = f
                  THEN {WithFinalizers(SubSeq(m.finalizers, 1, Len(m.finalizers) - 1))}
                  ELSE {})

\* The requests of a client about a resource it knows
RequestsOf(c, e) ==
    [op: {"delete"}, force: IF AllowForce THEN BOOLEAN ELSE {FALSE}]
      \cup [op: {"update"}, body: Bodies(c, e), stamped: BOOLEAN]
      \cup [op: {"binding"}, ref: Refs]
      \cup [op: {"complete", "shutdown"}, valid: BOOLEAN]
      \cup [op: {"status"}, status: {StatusOf(s, e.status.scheduled_to) : s \in Reported}]
      \cup [op: {"retry"}]

\* What a user submits to create a resource
Blank(s) == Entity(Meta(0, FALSE, <<>>, {}), s, StatusOf("PENDING", Null))

Calling(n, r) == [name |-> n, req |-> r, tries |-> 0, entity |-> Null]

Request(c, n) ==
    /\ call[c] = Null
    /\ revision < MaxRevision
    /\ copy[c][n] # Null
    /\ \E r \in RequestsOf(c, copy[c][n]) : call' = [call EXCEPT ![c] = Calling(n, r)]
    /\ UNCHANGED <<db, revision, copy>>

RequestCreate(c, n) ==
    /\ call[c] = Null
    /\ revision < MaxRevision
    /\ \E s \in Specs :
         call' = [call EXCEPT ![c] = Calling(n, [op |-> "create", body |-> Blank(s)])]
    /\ UNCHANGED <<db, revision, copy>>

-----------------------------------------------------------------------------
(* Request handlers                                                        *)

\* The handler ends with a response
Respond(c) == call' = [call EXCEPT ![c] = Null]

\* helpers.load, and the handler up to its write, if it writes at all
Load(c) ==
    /\ call[c] # Null
    /\ call[c].req.op # "create"
    /\ call[c].entity = Null
    /\ LET n == call[c].name IN
         \/ /\ db[n] = Null
            /\ Respond(c)
         \/ /\ db[n] # Null
            /\ Outcome(db[n].obj, call[c].req).kind \in {"error", "answer"}
            /\ Respond(c)
         \/ /\ db[n] # Null
            /\ Outcome(db[n].obj, call[c].req).kind \in {"store", "remove"}
            /\ call' = [call EXCEPT ![c] = [name |-> n, req |-> call[c].req,
                                            tries |-> call[c].tries, entity |-> db[n]]]
    /\ UNCHANGED <<db, revision, copy>>

\* Faulty variant of Unmodified: only the existence of the key is compared
Exists(n, entity) == db[n] # Null

\* The comparison of the transaction: the key has the revision that was loaded
Unmodified(n, entity) == db[n] # Null /\ db[n].mod = entity.mod

\* Session.put and Session.delete: the transaction succeeds
Commit(c) ==
    /\ call[c] # Null
    /\ call[c].entity # Null
    /\ LET n == call[c].name
           o == Outcome(call[c].entity.obj, call[c].req)
       IN  /\ Unmodified(n, call[c].entity)
           /\ db' = [db EXCEPT ![n] = IF o.kind = "store"
                                        THEN [obj |-> o.obj, mod |-> revision + 1]
                                        ELSE Null]
    /\ revision' = revision + 1
    /\ Respond(c)
    /\ UNCHANGED copy

\* Faulty variants of Conflict: the handler runs again on what it had loaded,
\* with the revision of the key brought up to date; without any change
ConflictRebase(c) ==
    /\ call[c] # Null
    /\ call[c].entity # Null
    /\ ~Unmodified(call[c].name, call[c].entity)
    /\ LET n == call[c].name IN
       IF db[n] # Null
         THEN call' = [call EXCEPT ![c] = [name |-> n, req |-> call[c].req, tries |-> call[c].tries,
                         entity |-> [obj |-> call[c].entity.obj, mod |-> db[n].mod]]]
         ELSE Respond(c)
    /\ UNCHANGED <<db, revision, copy>>
ConflictAgain(c) ==
    /\ call[c] # Null
    /\ call[c].entity # Null
    /\ ~Unmodified(call[c].name, call[c].entity)
    /\ UNCHANGED vars

\* The transaction fails: retry_transaction runs the handler again, or
\* answers that there are concurrent writes
Conflict(c) ==
    /\ call[c] # Null
    /\ call[c].entity # Null
    /\ ~Unmodified(call[c].name, call[c].entity)
    /\ IF call[c].tries < Retries
         THEN call' = [call EXCEPT ![c] = [name |-> call[c].name, req |-> call[c].req,
                                           tries |-> call[c].tries + 1, entity |-> Null]]
         ELSE Respond(c)
    /\ UNCHANGED <<db, revision, copy>>

\* create_application: the key must not exist; uids are never reused
Create(c) ==
    /\ call[c] # Null
    /\ call[c].req.op = "create"
    /\ LET n == call[c].name IN
         \/ /\ db[n] = Null
            /\ db' = [db EXCEPT ![n] = [obj |-> NewEntity(revision + 1, call[c].req.body),
                                        mod |-> revision + 1]]
            /\ revision' = revision + 1
         \/ /\ db[n] # Null
            /\ UNCHANGED <<db, revision>>
    /\ Respond(c)
    /\ UNCHANGED copy

-----------------------------------------------------------------------------
Next ==
    \E c \in Clients :
        \/ \E n \in Names : Read(c, n) \/ Request(c, n) \/ RequestCreate(c, n)
        \/ Load(c) \/ Commit(c) \/ Conflict(c) \/ Create(c)

Spec == Init /\ [][Next]_vars

\* The server goes on serving a request once it has received it.
FairSpec ==
    Spec /\ \A c \in Clients :
              WF_vars(Load(c)) /\ WF_vars(Commit(c)) /\ WF_vars(Conflict(c)) /\ WF_vars(Create(c))

-----------------------------------------------------------------------------
(* Properties                                                              *)

\* The shape of the state.
TypeOK ==
    /\ db \in [Names -> Rows \cup {Null}]
    /\ revision \in Nat
    /\ call \in [Clients -> CallSet \cup {Null}]
    /\ copy \in [Clients -> [Names -> Entities \cup {Null}]]

\* Revisions identify contents: a handler whose comparison would succeed
\* holds the entity that is stored, not one that merely has its revision.
LoadedIsCurrent ==
    /\ \A n \in Names : db[n] # Null => db[n].mod <= revision
    /\ \A c \in Clients : call[c] # Null /\ call[c].entity # Null =>
         /\ call[c].req.op # "create"
         /\ call[c].entity.mod <= revision
         /\ Outcome(call[c].entity.obj, call[c].req).kind \in {"store", "remove"}
         /\ Unmodified(call[c].name, call[c].entity) => db[call[c].name] = call[c].entity

\* The state is well typed, and a handler whose comparison of revisions would succeed
\* (Session.put, Session.delete) holds the stored entity itself.  It is inductive.
TxInv == TypeOK /\ LoadedIsCurrent

MetaOf(n) == db[n].obj.metadata

\* The same resource before and after a step
Survives(n) == db[n] # Null /\ db'[n] # Null /\ MetaOf(n).uid = MetaOf(n)'.uid

Stored == [n \in Names |-> IF db[n] = Null THEN Null ELSE db[n].obj]
Pending == [c \in Clients |-> IF call[c] = Null THEN Null
                              ELSE [name |-> call[c].name, req |-> call[c].req]]

Atomic == INSTANCE AtomicApi WITH stored <- Stored, pending <- Pending

\* Handlers that run concurrently behave as if each took effect in one step:
\* no write is lost between the load and the commit of another handler.
ImplementsAtomicApi == Atomic!AtomicSpec

\* "in deletion" is irreversible, for every handler and every stale body, and a
\* resource in deletion gains no finalizer: a controller that did not block the
\* deletion in time cannot block it any more.
DeletionIrreversible ==
    [][\A n \in Names : Survives(n) /\ MetaOf(n).deleted =>
         /\ MetaOf(n)'.deleted
         /\ Range(MetaOf(n)'.finalizers) \subseteq Range(MetaOf(n).finalizers)]_vars

\* Only a resource in deletion leaves the database, unless by force.
RemovedOnlyInDeletion ==
    [][\A n \in Names : db[n] # Null /\ db'[n] = Null =>
         \/ MetaOf(n).deleted
         \/ \E c \in Clients : /\ call[c] # Null /\ call'[c] = Null
                               /\ call[c].req.op = "delete" /\ call[c].req.force]_vars

\* Every request is answered: the retries of a transaction are bounded.
RequestsAnswered ==
    \A c \in Clients : call[c] # Null ~> call[c] = Null
=============================================================================
