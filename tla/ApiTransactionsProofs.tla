----------------------- MODULE ApiTransactionsProofs -----------------------
(***************************************************************************)
(* Proofs about ApiTransactions, for any number of clients, resources,     *)
(* retries and revisions: optimistic concurrency control makes handlers    *)
(* atomic, and deletion is irreversible.                                   *)
(***************************************************************************)
EXTENDS ApiTransactions, TLAPS

-----------------------------------------------------------------------------
(* What the handlers return                                                *)

\* delete_application keeps uid and owners, marks the entity and only adds the
\* collector's finalizer, so its outcome is a well-typed, faithful successor.
LEMMA DeleteFaithful ==
    ASSUME NEW e \in Entities, NEW force \in BOOLEAN
    PROVE  Faithful(e, DeleteEntity(e, force))
  <1>1. CASE force \/ e.metadata.deleted
    BY <1>1 DEF DeleteEntity, Faithful, Erase, Answer
  <1>2. CASE ~force /\ ~e.metadata.deleted
    <2>1. Append(e.metadata.finalizers, Cascade) \in Seq(Finalizers)
      BY HandlersAssumption DEF Entities, Metadata
    <2> DEFINE st == IF e.spec \in Hooked
                       THEN StatusOf("WAITING_FOR_CLEANING", e.status.scheduled_to)
                       ELSE e.status
               m == Meta(e.metadata.uid, TRUE, Append(e.metadata.finalizers, Cascade),
                         e.metadata.owners)
    <2>2. st \in Status
      BY DEF Entities, Status, StatusOf, AppStates
    <2>3. m \in Metadata /\ m.uid = e.metadata.uid
      BY <2>1 DEF Entities, Metadata, Meta
    <2>4. DeleteEntity(e, force) = Store(Entity(m, e.spec, st))
      BY <1>2 DEF DeleteEntity
    <2> HIDE DEF st, m
    <2>5. Entity(m, e.spec, st) \in Entities /\ Entity(m, e.spec, st).metadata = m
      BY <2>2, <2>3 DEF Entity, Entities
    <2> QED BY <1>2, <2>3, <2>4, <2>5 DEF Faithful, Store
  <1> QED BY <1>1, <1>2

\* update_application stores a well-typed successor: never unmarked, and in
\* deletion without new finalizers.
LEMMA UpdateFaithful ==
    ASSUME NEW e \in Entities, NEW body \in Entities, NEW stamped \in BOOLEAN
    PROVE  Faithful(e, UpdateEntity(e, body, stamped))
  <1> DEFINE new == Merge(e, body)
  <1>1. /\ new \in Entities
        /\ new.metadata.uid = e.metadata.uid
        /\ new.metadata.deleted = e.metadata.deleted
        /\ new.metadata.finalizers = body.metadata.finalizers
    BY DEF Merge, Entity, Meta, Entities, Metadata
  <1> DEFINE grows == e.metadata.deleted
                   /\ ~(Range(body.metadata.finalizers) \subseteq Range(e.metadata.finalizers))
  <1>2. CASE grows \/ (body = e /\ stamped)
    BY <1>2 DEF UpdateEntity, Faithful, Reject
  <1>3. CASE ~grows /\ ~(body = e /\ stamped)
    <2>1. UpdateEntity(e, body, stamped) = IF new.metadata.deleted /\ new.metadata.finalizers = <<>>
                                    THEN Erase ELSE Store(new)
      BY <1>3 DEF UpdateEntity
    <2> HIDE DEF new
    <2> QED BY <1>1, <1>3, <2>1 DEF Faithful, Erase, Store
  <1> QED BY <1>2, <1>3

\* A handler that keeps the finalizers and does not unmark the resource.
LEMMA StoreFaithful ==
    ASSUME NEW e \in Entities, NEW m \in Metadata, NEW st \in Status,
           m.uid = e.metadata.uid, m.finalizers = e.metadata.finalizers,
           e.metadata.deleted => m.deleted
    PROVE  Faithful(e, Store(Entity(m, e.spec, st)))
  <1>1. Entity(m, e.spec, st) \in Entities /\ Entity(m, e.spec, st).metadata = m
    BY DEF Entity, Entities
  <1> QED BY <1>1 DEF Faithful, Store

\* A change of state alone keeps metadata and spec.
LEMMA InStateFaithful ==
    ASSUME NEW e \in Entities, NEW s \in AppStates
    PROVE  Faithful(e, Store(InState(e, s)))
  <1>1. StatusOf(s, e.status.scheduled_to) \in Status /\ e.metadata \in Metadata
    BY DEF StatusOf, Status, Entities
  <1> QED BY <1>1, StoreFaithful DEF InState

\* Whatever the handler and its request, the outcome is well typed and faithful
\* to the entity that was loaded.
LEMMA OutcomeFaithful ==
    ASSUME NEW e \in Entities, NEW r \in Requests
    PROVE  Faithful(e, Outcome(e, r))
  <1> USE DEF Requests
  <1>0. e.metadata \in Metadata /\ e.status \in Status /\ e.spec \in Specs
    BY DEF Entities
  <1>1. CASE r.op = "delete"
    BY <1>1, DeleteFaithful DEF Outcome
  <1>2. CASE r.op = "update"
    BY <1>2, UpdateFaithful DEF Outcome
  <1>3. CASE r.op = "binding"
    <2> DEFINE m == Meta(e.metadata.uid, e.metadata.deleted, e.metadata.finalizers,
                         e.metadata.owners \cup {r.ref})
               st == StatusOf(e.status.state, r.ref)
    <2>1. r.ref \in Refs
      BY <1>3
    <2>2. m \in Metadata /\ st \in Status
      BY <1>0, <2>1 DEF Meta, Metadata, StatusOf, Status
    <2>3. m.uid = e.metadata.uid /\ m.finalizers = e.metadata.finalizers
            /\ m.deleted = e.metadata.deleted
      BY DEF Meta
    <2>4. Outcome(e, r) = Store(Entity(m, e.spec, st))
      BY <1>3 DEF Outcome, BindEntity
    <2> HIDE DEF m, st
    <2> QED BY <2>2, <2>3, <2>4, StoreFaithful
  <1>4. CASE r.op = "complete"
    <2> DEFINE m == Meta(e.metadata.uid, TRUE, e.metadata.finalizers, e.metadata.owners)
               st == StatusOf("READY_FOR_ACTION", e.status.scheduled_to)
    <2>1. m \in Metadata /\ st \in Status
      BY <1>0 DEF Meta, Metadata, StatusOf, Status, AppStates
    <2>2. m.uid = e.metadata.uid /\ m.finalizers = e.metadata.finalizers /\ m.deleted
      BY DEF Meta
    <2>3. Outcome(e, r) = IF ~r.valid THEN Reject ELSE Store(Entity(m, e.spec, st))
      BY <1>4 DEF Outcome, CompleteEntity
    <2> HIDE DEF m, st
    <2>4. Faithful(e, Store(Entity(m, e.spec, st)))
      BY <2>1, <2>2, StoreFaithful
    <2>5. Faithful(e, Reject)
      BY DEF Faithful, Reject
    <2> QED BY <2>3, <2>4, <2>5
  <1>5. CASE r.op = "shutdown"
    <2>1. Faithful(e, Store(InState(e, "READY_FOR_ACTION")))
      BY InStateFaithful DEF AppStates
    <2>2. Faithful(e, Reject) /\ Faithful(e, Store(e))
      BY DEF Faithful, Reject, Store
    <2> QED BY <1>5, <2>1, <2>2 DEF Outcome, ShutdownEntity
  <1>6. CASE r.op = "status"
    BY <1>0, <1>6, StoreFaithful DEF Outcome, StatusEntity
  <1>7. CASE r.op = "retry"
    <2>1. Faithful(e, Store(InState(e, "WAITING_FOR_CLEANING")))
      BY InStateFaithful DEF AppStates
    <2>2. Faithful(e, Reject)
      BY DEF Faithful, Reject
    <2> QED BY <1>7, <2>1, <2>2 DEF Outcome, RetryEntity
  <1>8. r.op \in {"delete", "update", "binding", "complete", "shutdown", "status", "retry"}
    OBVIOUS
  <1> QED BY <1>1, <1>2, <1>3, <1>4, <1>5, <1>6, <1>7, <1>8

-----------------------------------------------------------------------------
(* What clients send                                                       *)

\* The bodies a client makes of its copy are well-typed entities.
LEMMA BodiesType ==
    ASSUME NEW c \in Clients, NEW e \in Entities
    PROVE  Bodies(c, e) \subseteq Entities
  <1> DEFINE m == e.metadata
             f == Owned[c]
             With(fs) == Entity(Meta(m.uid, m.deleted, fs, m.owners), e.spec, e.status)
             cut == SubSeq(m.finalizers, 1, Len(m.finalizers) - 1)
  <1>1. m \in Metadata /\ e.spec \in Specs /\ e.status \in Status
        /\ m.finalizers \in Seq(Finalizers)
    BY DEF Entities, Metadata
  <1>2. ASSUME NEW fs \in Seq(Finalizers)
        PROVE  With(fs) \in Entities
    BY <1>1 DEF Entity, Meta, Entities, Metadata
  <1>3. \A sp \in Specs : Entity(m, sp, e.status) \in Entities
    BY <1>1 DEF Entity, Entities
  <1>4. f # Null => f \in Finalizers
    BY TransactionsAssumption
  <1>5. f # Null => Append(m.finalizers, f) \in Seq(Finalizers)
    BY <1>1, <1>4
  <1>6. m.finalizers # <<>> => cut \in Seq(Finalizers)
    BY <1>1
  <1>7. f # Null => With(Append(m.finalizers, f)) \in Entities
    BY <1>2, <1>5
  <1>8. m.finalizers # <<>> => With(cut) \in Entities
    BY <1>2, <1>6
  <1> HIDE DEF With, cut
  <1>9. Bodies(c, e) \subseteq
          {Entity(m, sp, e.status) : sp \in Specs}
            \cup (IF f # Null THEN {With(Append(m.finalizers, f))} ELSE {})
            \cup (IF m.finalizers # <<>> THEN {With(cut)} ELSE {})
    BY Zenon DEF Bodies, With, cut
  <1> QED BY <1>3, <1>7, <1>8, <1>9

\* The requests of a client are well typed.
LEMMA RequestsType ==
    ASSUME NEW c \in Clients, NEW e \in Entities
    PROVE  RequestsOf(c, e) \subseteq Requests
  <1>1. \A s \in Reported : StatusOf(s, e.status.scheduled_to) \in Status
    BY TransactionsAssumption DEF StatusOf, Status, Entities
  <1>2. Bodies(c, e) \subseteq Entities
    BY BodiesType
  <1> SUFFICES ASSUME NEW r \in RequestsOf(c, e)
               PROVE  r \in Requests
    OBVIOUS
  <1>3. CASE r \in [op: {"delete"}, force: IF AllowForce THEN BOOLEAN ELSE {FALSE}]
    BY <1>3 DEF Requests
  <1>4. CASE r \in [op: {"update"}, body: Bodies(c, e), stamped: BOOLEAN]
    BY <1>2, <1>4 DEF Requests
  <1>5. CASE r \in [op: {"binding"}, ref: Refs] \cup [op: {"complete", "shutdown"}, valid: BOOLEAN]
                     \cup [op: {"retry"}]
    BY <1>5 DEF Requests
  <1>6. CASE r \in [op: {"status"},
                    status: {StatusOf(s, e.status.scheduled_to) :
                               s \in Reported}]
    BY <1>1, <1>6 DEF Requests
  <1> QED BY <1>3, <1>4, <1>5, <1>6 DEF RequestsOf

\* What a user submits to create a resource is a well-typed entity.
LEMMA BlankType ==
    ASSUME NEW sp \in Specs
    PROVE  Blank(sp) \in Entities
  <1>1. Meta(0, FALSE, <<>>, {}) \in Metadata
    BY DEF Meta, Metadata
  <1>2. StatusOf("PENDING", Null) \in Status
    BY DEF StatusOf, Status, AppStates
  <1> QED BY <1>1, <1>2 DEF Blank, Entity, Entities

\* create_application makes a well-typed entity of a well-typed body.
LEMMA NewEntityType ==
    ASSUME NEW u \in Nat, NEW body \in Entities
    PROVE  NewEntity(u, body) \in Entities /\ NewEntity(u, body).metadata.uid = u
  <1> DEFINE m == Meta(u, FALSE, body.metadata.finalizers, body.metadata.owners)
             st == StatusOf("PENDING", Null)
  <1>1. m \in Metadata /\ m.uid = u
    BY DEF Meta, Metadata, Entities
  <1>2. st \in Status
    BY DEF StatusOf, Status, AppStates
  <1>3. body.spec \in Specs
    BY DEF Entities
  <1> HIDE DEF m, st
  <1>4. Entity(m, body.spec, st) \in Entities /\ Entity(m, body.spec, st).metadata = m
    BY <1>1, <1>2, <1>3 DEF Entity, Entities
  <1>5. NewEntity(u, body) = Entity(m, body.spec, st)
    BY DEF NewEntity, m, st
  <1> QED BY <1>1, <1>4, <1>5

-----------------------------------------------------------------------------
(* The inductive invariant                                                 *)

\* A request that loads its entity is one of Requests.
LEMMA CallFacts ==
    ASSUME TypeOK, NEW c \in Clients, call[c] # Null
    PROVE  /\ call[c] \in CallSet
           /\ call[c].name \in Names /\ call[c].tries \in Nat
           /\ call[c].entity \in Rows \cup {Null}
           /\ call[c].req.op # "create" => call[c].req \in Requests
           /\ call[c].req.op = "create" => call[c].req.body \in Entities
  <1>1. call[c] \in CallSet
    BY DEF TypeOK
  <1>2. call[c].req \in Requests \cup [op: {"create"}, body: Entities]
    BY <1>1 DEF CallSet, AllRequests
  <1>3. \A r \in Requests : r.op # "create"
    BY DEF Requests
  <1>4. call[c].req.op = "create" => call[c].req \in [op: {"create"}, body: Entities]
    BY <1>2, <1>3
  <1>5. call[c].req.op # "create" => call[c].req \in Requests
    BY <1>2
  <1> QED BY <1>1, <1>4, <1>5 DEF CallSet

\* A response ends the call of one client and leaves the others alone.
LEMMA RespondType ==
    ASSUME TypeOK, NEW c \in Clients, Respond(c)
    PROVE  /\ call' \in [Clients -> CallSet \cup {Null}]
           /\ \A d \in Clients : call'[d] = IF d = c THEN Null ELSE call[d]
  BY DEF TypeOK, Respond

\* The invariant survives when no key is written and every call that holds
\* an entity held it before.
LEMMA NoWrite ==
    ASSUME TxInv, TypeOK', UNCHANGED <<db, revision>>,
           \A d \in Clients : call'[d] # Null /\ call'[d].entity # Null => call'[d] = call[d]
    PROVE  TxInv'
  BY DEF TxInv, LoadedIsCurrent, Unmodified

\* read_application keeps the invariant.
LEMMA ReadStep ==
    ASSUME TxInv, NEW c \in Clients, NEW n \in Names, Read(c, n)
    PROVE  TxInv'
  <1>1. (IF db[n] = Null THEN Null ELSE db[n].obj) \in Entities \cup {Null}
    BY DEF TxInv, TypeOK, Rows
  <1>2. TypeOK'
    BY <1>1 DEF Read, TxInv, TypeOK
  <1> QED BY <1>2, NoWrite DEF Read

\* Sending a request keeps the invariant.
LEMMA RequestStep ==
    ASSUME TxInv, NEW c \in Clients, NEW n \in Names, Request(c, n) \/ RequestCreate(c, n)
    PROVE  TxInv'
  <1>1. PICK r \in AllRequests :
          call' = [call EXCEPT ![c] = Calling(n, r)]
    <2>1. CASE Request(c, n)
      <3>1. copy[c][n] \in Entities
        BY <2>1 DEF Request, TxInv, TypeOK
      <3> QED BY <2>1, <3>1, RequestsType DEF Request, AllRequests
    <2>2. CASE RequestCreate(c, n)
      <3>1. PICK sp \in Specs :
              call' = [call EXCEPT ![c] = Calling(n, [op |-> "create", body |-> Blank(sp)])]
        BY <2>2 DEF RequestCreate
      <3>2. [op |-> "create", body |-> Blank(sp)] \in [op: {"create"}, body: Entities]
        BY BlankType
      <3> QED BY <3>1, <3>2 DEF AllRequests
    <2> QED BY <2>1, <2>2
  <1>2. Calling(n, r) \in CallSet /\ Calling(n, r).entity = Null
    BY DEF Calling, CallSet
  <1>3. UNCHANGED <<db, revision, copy>>
    BY DEF Request, RequestCreate
  <1>4. TypeOK'
    BY <1>1, <1>2, <1>3 DEF TxInv, TypeOK
  <1>5. \A d \in Clients : call'[d] # Null /\ call'[d].entity # Null => call'[d] = call[d]
    BY <1>1, <1>2 DEF TxInv, TypeOK
  <1> QED BY <1>3, <1>4, <1>5, NoWrite

\* Loading keeps the invariant: what is loaded is what is stored.
LEMMA LoadStep ==
    ASSUME TxInv, NEW c \in Clients, Load(c)
    PROVE  TxInv'
  <1> DEFINE n == call[c].name
             new == [name |-> n, req |-> call[c].req,
                     tries |-> call[c].tries, entity |-> db[n]]
  <1>1. TypeOK /\ call[c] # Null /\ call[c].req.op # "create"
        /\ UNCHANGED <<db, revision, copy>>
    BY DEF TxInv, Load
  <1>2. CASE Respond(c)
    <2>1. TypeOK'
      BY <1>1, <1>2, RespondType DEF TypeOK
    <2> QED BY <1>1, <1>2, <2>1, RespondType, NoWrite
  <1>3. CASE /\ db[n] # Null
             /\ Outcome(db[n].obj, call[c].req).kind \in {"store", "remove"}
             /\ call' = [call EXCEPT ![c] = new]
    <2>1. n \in Names /\ db[n] \in Rows
      BY <1>1, <1>3, CallFacts DEF TypeOK
    <2>2. new \in CallSet
      BY <1>1, <2>1, CallFacts DEF CallSet
    <2>3. new # Null /\ new.entity = db[n] /\ new.name = n /\ new.req = call[c].req
      BY <2>2, TransactionsAssumption
    <2> HIDE DEF new
    <2>4. \A d \in Clients : call'[d] = IF d = c THEN new ELSE call[d]
      BY <1>1, <1>3 DEF TypeOK
    <2>5. TypeOK'
      BY <1>1, <1>3, <2>2 DEF TypeOK
    <2>6. db[n].mod <= revision
      BY <1>3, <2>1 DEF TxInv, LoadedIsCurrent
    <2> HIDE DEF n
    <2>7. LoadedIsCurrent'
      <3>1. \A k \in Names : db'[k] # Null => db'[k].mod <= revision'
        BY <1>1 DEF TxInv, LoadedIsCurrent
      <3>2. ASSUME NEW d \in Clients, call'[d] # Null, call'[d].entity # Null
            PROVE  /\ call'[d].req.op # "create"
                   /\ call'[d].entity.mod <= revision'
                   /\ Outcome(call'[d].entity.obj, call'[d].req).kind \in {"store", "remove"}
                   /\ (Unmodified(call[d].name, call[d].entity) => db[call[d].name] = call[d].entity)'
        <4>1. CASE d = c
          BY <1>1, <1>3, <2>3, <2>4, <2>6, <4>1 DEF Unmodified
        <4>2. CASE d # c
          BY <1>1, <2>4, <3>2, <4>2 DEF TxInv, LoadedIsCurrent, Unmodified
        <4> QED BY <4>1, <4>2
      <3> QED BY <3>1, <3>2 DEF LoadedIsCurrent
    <2> QED BY <2>5, <2>7 DEF TxInv
  <1> QED BY <1>2, <1>3 DEF Load

\* A write gives the key a revision that no handler has loaded.
LEMMA WriteStep ==
    ASSUME TxInv, NEW c \in Clients, NEW n \in Names, NEW row \in Rows \cup {Null},
           row # Null => row.mod = revision + 1,
           db' = [db EXCEPT ![n] = row], revision' = revision + 1,
           Respond(c), UNCHANGED copy
    PROVE  TxInv'
  <1>1. TypeOK
    BY DEF TxInv
  <1>2. \A d \in Clients : call'[d] = IF d = c THEN Null ELSE call[d]
    BY <1>1, RespondType
  <1>3. \A k \in Names : db'[k] = IF k = n THEN row ELSE db[k]
    BY <1>1 DEF TypeOK
  <1>4. TypeOK'
    BY <1>1, RespondType DEF TypeOK
  <1>5. revision \in Nat /\ \A k \in Names : db[k] # Null => db[k].mod \in Nat
    BY <1>1 DEF TypeOK, Rows
  <1>6. \A k \in Names : db'[k] # Null => db'[k].mod <= revision'
    BY <1>3, <1>5 DEF TxInv, LoadedIsCurrent
  <1>7. ASSUME NEW d \in Clients, call'[d] # Null, call'[d].entity # Null
        PROVE  /\ call'[d].req.op # "create"
               /\ call'[d].entity.mod <= revision'
               /\ Outcome(call'[d].entity.obj, call'[d].req).kind \in {"store", "remove"}
               /\ (Unmodified(call[d].name, call[d].entity) => db[call[d].name] = call[d].entity)'
    <2>1. d # c /\ call'[d] = call[d]
      BY <1>2, <1>7
    <2>2. call[d].name \in Names /\ call[d].entity \in Rows
      BY <1>1, <1>7, <2>1, CallFacts
    <2>3. call[d].entity.mod \in Nat /\ call[d].entity.mod <= revision
      BY <1>7, <2>1, <2>2 DEF TxInv, LoadedIsCurrent, Rows
    <2>4. /\ call[d].req.op # "create"
          /\ Outcome(call[d].entity.obj, call[d].req).kind \in {"store", "remove"}
          /\ Unmodified(call[d].name, call[d].entity) => db[call[d].name] = call[d].entity
      BY <1>7, <2>1 DEF TxInv, LoadedIsCurrent
    <2>5. (Unmodified(call[d].name, call[d].entity) => db[call[d].name] = call[d].entity)'
      BY <1>3, <1>5, <2>1, <2>2, <2>3, <2>4 DEF Unmodified
    <2> QED BY <1>5, <2>1, <2>3, <2>4, <2>5
  <1> QED BY <1>4, <1>6, <1>7 DEF TxInv, LoadedIsCurrent

\* What a successful transaction stores is what the handler makes of the
\* entity stored at that moment.
LEMMA CommitFacts ==
    ASSUME TxInv, NEW c \in Clients, Commit(c)
    PROVE  LET n == call[c].name
               o == Outcome(db[n].obj, call[c].req)
           IN  /\ n \in Names /\ db[n] \in Rows /\ db[n] # Null
               /\ call[c].req.op # "create" /\ call[c].req \in Requests
               /\ o.kind \in {"store", "remove"}
               /\ Faithful(db[n].obj, o)
               /\ db' = [db EXCEPT ![n] = IF o.kind = "store"
                                            THEN [obj |-> o.obj, mod |-> revision + 1]
                                            ELSE Null]
  <1> DEFINE n == call[c].name
             o == Outcome(db[n].obj, call[c].req)
  <1>1. TypeOK /\ call[c] # Null /\ call[c].entity # Null
    BY DEF TxInv, Commit
  <1>2. Unmodified(n, call[c].entity)
    BY DEF Commit
  <1>3. db[n] = call[c].entity /\ db[n] # Null /\ call[c].req.op # "create"
        /\ o.kind \in {"store", "remove"}
    BY <1>1, <1>2 DEF TxInv, LoadedIsCurrent, Unmodified
  <1>4. n \in Names /\ db[n] \in Rows /\ call[c].req \in Requests
    BY <1>1, <1>3, CallFacts DEF TypeOK
  <1>5. db[n].obj \in Entities
    BY <1>4 DEF Rows
  <1>6. Faithful(db[n].obj, o)
    BY <1>4, <1>5, OutcomeFaithful
  <1>7. db' = [db EXCEPT ![n] = IF o.kind = "store"
                                  THEN [obj |-> o.obj, mod |-> revision + 1]
                                  ELSE Null]
    BY <1>3 DEF Commit
  <1> QED BY <1>3, <1>4, <1>6, <1>7

\* A successful transaction keeps the invariant.
LEMMA CommitStep ==
    ASSUME TxInv, NEW c \in Clients, Commit(c)
    PROVE  TxInv'
  <1> DEFINE n == call[c].name
             o == Outcome(db[n].obj, call[c].req)
             row == IF o.kind = "store" THEN [obj |-> o.obj, mod |-> revision + 1] ELSE Null
  <1>1. n \in Names /\ Faithful(db[n].obj, o) /\ db' = [db EXCEPT ![n] = row]
    BY CommitFacts
  <1>2. revision' = revision + 1 /\ Respond(c) /\ UNCHANGED copy
    BY DEF Commit
  <1>3. revision + 1 \in Nat
    BY DEF TxInv, TypeOK
  <1> HIDE DEF o, n
  <1>4. row \in Rows \cup {Null} /\ (row # Null => row.mod = revision + 1)
    BY <1>1, <1>3 DEF Faithful, Rows
  <1> HIDE DEF row
  <1> QED BY <1>1, <1>2, <1>4, WriteStep

\* create_application keeps the invariant.
LEMMA CreateStep ==
    ASSUME TxInv, NEW c \in Clients, Create(c)
    PROVE  TxInv'
  <1> DEFINE n == call[c].name
             row == [obj |-> NewEntity(revision + 1, call[c].req.body), mod |-> revision + 1]
  <1>1. TypeOK /\ call[c] # Null /\ call[c].req.op = "create" /\ Respond(c) /\ UNCHANGED copy
    BY DEF TxInv, Create
  <1>2. n \in Names /\ call[c].req.body \in Entities /\ revision + 1 \in Nat
    BY <1>1, CallFacts DEF TypeOK
  <1>3. CASE db' = [db EXCEPT ![n] = row] /\ revision' = revision + 1
    <2>1. row \in Rows /\ row.mod = revision + 1
      BY <1>2, NewEntityType DEF Rows
    <2> HIDE DEF row, n
    <2> QED BY <1>1, <1>2, <1>3, <2>1, WriteStep
  <1>4. CASE UNCHANGED <<db, revision>>
    <2>1. TypeOK'
      BY <1>1, <1>4, RespondType DEF TypeOK
    <2> QED BY <1>1, <1>4, <2>1, RespondType, NoWrite
  <1> QED BY <1>3, <1>4 DEF Create

\* A failed transaction, retried or given up, keeps the invariant.
LEMMA ConflictStep ==
    ASSUME TxInv, NEW c \in Clients, Conflict(c)
    PROVE  TxInv'
  <1> DEFINE new == [name |-> call[c].name, req |-> call[c].req,
                     tries |-> call[c].tries + 1, entity |-> Null]
  <1>1. TypeOK /\ call[c] # Null /\ UNCHANGED <<db, revision, copy>>
    BY DEF TxInv, Conflict
  <1>2. CASE Respond(c)
    <2>1. TypeOK'
      BY <1>1, <1>2, RespondType DEF TypeOK
    <2> QED BY <1>1, <1>2, <2>1, RespondType, NoWrite
  <1>3. CASE call' = [call EXCEPT ![c] = new]
    <2>1. new \in CallSet /\ new.entity = Null
      BY <1>1, CallFacts DEF CallSet
    <2> HIDE DEF new
    <2>2. TypeOK'
      BY <1>1, <1>3, <2>1 DEF TypeOK
    <2>3. \A d \in Clients : call'[d] # Null /\ call'[d].entity # Null => call'[d] = call[d]
      BY <1>1, <1>3, <2>1 DEF TypeOK
    <2> QED BY <1>1, <2>2, <2>3, NoWrite
  <1> QED BY <1>2, <1>3 DEF Conflict

\* The state is well typed and revisions identify contents, in every run of
\* the API server, whatever its clients send and however they interleave.
THEOREM TransactionsInvariant == Spec => []TxInv
  <1>1. Init => TxInv
    BY DEF Init, TxInv, TypeOK, LoadedIsCurrent
  <1>2. TxInv /\ [Next]_vars => TxInv'
    <2>1. TxInv /\ UNCHANGED vars => TxInv'
      BY DEF TxInv, TypeOK, LoadedIsCurrent, Unmodified, vars
    <2> QED BY <2>1, ReadStep, RequestStep, LoadStep, CommitStep, CreateStep, ConflictStep
            DEF Next
  <1> QED BY <1>1, <1>2, PTL DEF Spec

-----------------------------------------------------------------------------
(* Deletion                                                                *)

\* What any step may do to a resource that survives it.
Preserved(n) ==
    Survives(n) /\ MetaOf(n).deleted =>
        /\ MetaOf(n)'.deleted
        /\ Range(MetaOf(n)'.finalizers) \subseteq Range(MetaOf(n).finalizers)

\* No step unmarks a resource in deletion or gives it a finalizer.
LEMMA DeletionStep ==
    ASSUME TxInv, [Next]_vars, NEW n \in Names
    PROVE  Preserved(n)
  <1>1. CASE db' = db
    BY <1>1 DEF Preserved, MetaOf
  <1>2. ASSUME NEW c \in Clients, Commit(c)
        PROVE  Preserved(n)
    <2> DEFINE k == call[c].name
               o == Outcome(db[k].obj, call[c].req)
               row == [obj |-> o.obj, mod |-> revision + 1]
    <2>1. k \in Names /\ Faithful(db[k].obj, o)
          /\ db' = [db EXCEPT ![k] = IF o.kind = "store" THEN row ELSE Null]
      BY <1>2, CommitFacts
    <2>2. row.obj = o.obj
      OBVIOUS
    <2>3. db \in [Names -> Rows \cup {Null}]
      BY DEF TxInv, TypeOK
    <2> HIDE DEF k, o, row
    <2>4. CASE n # k
      BY <2>1, <2>3, <2>4 DEF Preserved, MetaOf
    <2>5. CASE n = k /\ o.kind = "store"
      BY <2>1, <2>2, <2>3, <2>5 DEF Preserved, MetaOf, Faithful
    <2>6. CASE n = k /\ o.kind # "store"
      BY <2>1, <2>3, <2>6 DEF Preserved, Survives
    <2> QED BY <2>4, <2>5, <2>6
  <1>3. ASSUME NEW c \in Clients, Create(c)
        PROVE  Preserved(n)
    <2> DEFINE k == call[c].name
               row == [obj |-> NewEntity(revision + 1, call[c].req.body), mod |-> revision + 1]
    <2>1. CASE db[k] = Null /\ db' = [db EXCEPT ![k] = row]
      <3>1. db \in [Names -> Rows \cup {Null}]
        BY DEF TxInv, TypeOK
      <3> HIDE DEF k, row
      <3> QED BY <2>1, <3>1 DEF Preserved, Survives, MetaOf
    <2>2. CASE db' = db
      BY <1>1, <2>2
    <2> QED BY <1>3, <2>1, <2>2 DEF Create
  <1>4. ASSUME NEW c \in Clients,
               Load(c) \/ Conflict(c) \/ \E m \in Names : Read(c, m) \/ Request(c, m) \/ RequestCreate(c, m)
        PROVE  db' = db
    BY <1>4 DEF Load, Conflict, Read, Request, RequestCreate
  <1> QED BY <1>1, <1>2, <1>3, <1>4 DEF Next, vars

\* No handler and no stale body takes a resource out of deletion or gives it a
\* finalizer then.
THEOREM DeletionIsIrreversible == Spec => DeletionIrreversible
  <1>1. TxInv /\ [Next]_vars =>
          [\A n \in Names : Survives(n) /\ MetaOf(n).deleted =>
             /\ MetaOf(n)'.deleted
             /\ Range(MetaOf(n)'.finalizers) \subseteq Range(MetaOf(n).finalizers)]_vars
    BY DeletionStep DEF Preserved
  <1> QED BY <1>1, TransactionsInvariant, PTL DEF Spec, DeletionIrreversible

\* A handler removes only what is in deletion, or what it is told to by force.
LEMMA RemovalDecided ==
    ASSUME NEW e \in Entities, NEW r \in Requests, Outcome(e, r).kind = "remove"
    PROVE  e.metadata.deleted \/ (r.op = "delete" /\ r.force)
  <1> USE DEF Requests
  <1>1. CASE r.op = "delete"
    <2>1. DeleteEntity(e, r.force).kind = "remove"
      BY <1>1 DEF Outcome
    <2> QED BY <1>1, <2>1 DEF DeleteEntity, Store
  <1>2. CASE r.op = "update"
    <2>1. UpdateEntity(e, r.body, r.stamped).kind = "remove"
      BY <1>2 DEF Outcome
    <2>2. Merge(e, r.body).metadata.deleted = e.metadata.deleted
      BY <1>2 DEF Merge, Entity, Meta, Entities, Metadata
    <2> QED BY <2>1, <2>2 DEF UpdateEntity, Reject, Store
  <1>3. CASE r.op = "binding"
    BY <1>3 DEF Outcome, BindEntity, Store
  <1>4. CASE r.op = "complete"
    BY <1>4 DEF Outcome, CompleteEntity, Reject, Store
  <1>5. CASE r.op = "shutdown"
    BY <1>5 DEF Outcome, ShutdownEntity, Reject, Store
  <1>6. CASE r.op = "status"
    BY <1>6 DEF Outcome, StatusEntity, Store
  <1>7. CASE r.op = "retry"
    BY <1>7 DEF Outcome, RetryEntity, Reject, Store
  <1>8. r.op \in {"delete", "update", "binding", "complete", "shutdown", "status", "retry"}
    OBVIOUS
  <1> QED BY <1>1, <1>2, <1>3, <1>4, <1>5, <1>6, <1>7, <1>8

\* The removal of a resource is asked for.
Justified(n) ==
    db[n] # Null /\ db'[n] = Null =>
        \/ MetaOf(n).deleted
        \/ \E c \in Clients : /\ call[c] # Null /\ call'[c] = Null
                              /\ call[c].req.op = "delete" /\ call[c].req.force

\* No step removes a resource otherwise.
LEMMA RemovalStep ==
    ASSUME TxInv, [Next]_vars, NEW n \in Names
    PROVE  Justified(n)
  <1>1. CASE db' = db
    BY <1>1 DEF Justified
  <1>2. ASSUME NEW c \in Clients, Commit(c)
        PROVE  Justified(n)
    <2> DEFINE k == call[c].name
               o == Outcome(db[k].obj, call[c].req)
               row == [obj |-> o.obj, mod |-> revision + 1]
    <2>1. k \in Names /\ db[k] \in Rows /\ call[c].req \in Requests
          /\ o.kind \in {"store", "remove"} /\ Faithful(db[k].obj, o)
          /\ db' = [db EXCEPT ![k] = IF o.kind = "store" THEN row ELSE Null]
      BY <1>2, CommitFacts
    <2>2. TypeOK /\ call[c] # Null /\ call'[c] = Null
      BY <1>2, RespondType DEF TxInv, Commit
    <2>3. db[k].obj \in Entities /\ revision + 1 \in Nat
      BY <2>1, <2>2 DEF Rows, TypeOK
    <2>4. o.kind = "remove" => db[k].obj.metadata.deleted
                               \/ (call[c].req.op = "delete" /\ call[c].req.force)
      BY <2>1, <2>3, RemovalDecided
    <2>5. o.kind = "store" => row \in Rows
      BY <2>1, <2>3 DEF Faithful, Rows
    <2>6. Null \notin Rows
      BY TransactionsAssumption
    <2> HIDE DEF k, o, row
    <2>7. CASE n # k
      BY <2>1, <2>2, <2>7 DEF Justified, TypeOK
    <2>8. CASE n = k /\ o.kind = "store"
      BY <2>1, <2>2, <2>5, <2>6, <2>8 DEF Justified, TypeOK
    <2>9. CASE n = k /\ o.kind = "remove"
      BY <2>2, <2>4, <2>9 DEF Justified, MetaOf
    <2> QED BY <2>1, <2>7, <2>8, <2>9
  <1>3. ASSUME NEW c \in Clients, Create(c)
        PROVE  Justified(n)
    <2> DEFINE k == call[c].name
               row == [obj |-> NewEntity(revision + 1, call[c].req.body), mod |-> revision + 1]
    <2>1. CASE db[k] = Null /\ db' = [db EXCEPT ![k] = row]
      <3>1. db \in [Names -> Rows \cup {Null}]
        BY DEF TxInv, TypeOK
      <3> HIDE DEF k, row
      <3> QED BY <2>1, <3>1 DEF Justified
    <2>2. CASE db' = db
      BY <1>1, <2>2
    <2> QED BY <1>3, <2>1, <2>2 DEF Create
  <1>4. ASSUME NEW c \in Clients,
               Load(c) \/ Conflict(c) \/ \E m \in Names : Read(c, m) \/ Request(c, m) \/ RequestCreate(c, m)
        PROVE  db' = db
    BY <1>4 DEF Load, Conflict, Read, Request, RequestCreate
  <1> QED BY <1>1, <1>2, <1>3, <1>4 DEF Next, vars

\* Nothing leaves the database that nobody deleted, whatever sequence of updates,
\* deletions and completions is served.
THEOREM RemovalIsAskedFor == Spec => RemovedOnlyInDeletion
  <1>1. TxInv /\ [Next]_vars =>
          [\A n \in Names : db[n] # Null /\ db'[n] = Null =>
             \/ MetaOf(n).deleted
             \/ \E c \in Clients : /\ call[c] # Null /\ call'[c] = Null
                                   /\ call[c].req.op = "delete" /\ call[c].req.force]_vars
    BY RemovalStep DEF Justified
  <1> QED BY <1>1, TransactionsInvariant, PTL DEF Spec, RemovedOnlyInDeletion

-----------------------------------------------------------------------------
(* Handlers are atomic                                                     *)

\* A call counts as pending from its submission to its response.
LEMMA PendingFacts ==
    ASSUME TypeOK, NEW c \in Clients, call[c] # Null
    PROVE  /\ Pending[c] # Null
           /\ Pending[c].name = call[c].name /\ Pending[c].req = call[c].req
  <1> DEFINE p == [name |-> call[c].name, req |-> call[c].req]
  <1>1. p \in Orders
    BY CallFacts DEF Orders, CallSet
  <1>2. p # Null /\ p.name = call[c].name /\ p.req = call[c].req
    BY <1>1, TransactionsAssumption
  <1>3. Pending[c] = p
    BY DEF Pending
  <1> QED BY <1>2, <1>3

\* A response ends the pending request of its client, and no other.
LEMMA RespondEnds ==
    ASSUME TypeOK, NEW c \in Clients, Respond(c)
    PROVE  Pending' = [Pending EXCEPT ![c] = Null]
  BY RespondType DEF Pending

\* A call that changes neither its name nor its request stays pending.
LEMMA PendingSame ==
    ASSUME TypeOK, NEW c \in Clients, call[c] # Null,
           NEW new \in CallSet, call' = [call EXCEPT ![c] = new],
           new.name = call[c].name, new.req = call[c].req
    PROVE  Pending' = Pending
  <1>1. new # Null
    BY TransactionsAssumption
  <1> QED BY <1>1 DEF Pending, TypeOK

\* A response without a write is an error of the atomic API.
LEMMA ErrorServed ==
    ASSUME TypeOK, NEW c \in Clients, call[c] # Null, Respond(c), db' = db
    PROVE  Atomic!ServeError(c)
  <1>1. Stored' = Stored
    BY DEF Stored
  <1> QED BY <1>1, PendingFacts, RespondEnds DEF Atomic!ServeError

\* A new request is a submission of the atomic API.
LEMMA SubmitServed ==
    ASSUME TxInv, NEW c \in Clients, NEW n \in Names, Request(c, n) \/ RequestCreate(c, n)
    PROVE  Atomic!Submit(c)
  <1>1. call[c] = Null /\ db' = db
    BY DEF Request, RequestCreate
  <1>2. call \in [Clients -> CallSet \cup {Null}]
    BY DEF TxInv, TypeOK
  <1>3. \A d \in Clients : d # c => call'[d] = call[d]
    BY <1>2 DEF Request, RequestCreate
  <1>4. Pending[c] = Null /\ Stored' = Stored
    BY <1>1 DEF Pending, Stored
  <1>5. Pending' = [Pending EXCEPT ![c] = Pending'[c]]
    BY <1>3 DEF Pending
  <1> QED BY <1>4, <1>5 DEF Atomic!Submit

\* Loading is a stutter, or the whole request if nothing is to be written.
LEMMA LoadServed ==
    ASSUME TxInv, NEW c \in Clients, Load(c)
    PROVE  Atomic!ServeError(c) \/ UNCHANGED <<Stored, Pending>>
  <1> DEFINE new == [name |-> call[c].name, req |-> call[c].req,
                     tries |-> call[c].tries, entity |-> db[call[c].name]]
  <1>1. TypeOK /\ call[c] # Null /\ db' = db
    BY DEF TxInv, Load
  <1>2. CASE Respond(c)
    BY <1>1, <1>2, ErrorServed
  <1>3. CASE call' = [call EXCEPT ![c] = new]
    <2>1. new \in CallSet
      BY <1>1, CallFacts DEF CallSet, TypeOK
    <2>2. new.name = call[c].name /\ new.req = call[c].req
      OBVIOUS
    <2> HIDE DEF new
    <2>3. Pending' = Pending
      BY <1>1, <1>3, <2>1, <2>2, PendingSame
    <2> QED BY <1>1, <2>3 DEF Stored
  <1> QED BY <1>2, <1>3 DEF Load

\* A failed transaction is a stutter, or an error once the retries are used up.
LEMMA ConflictServed ==
    ASSUME TxInv, NEW c \in Clients, Conflict(c)
    PROVE  Atomic!ServeError(c) \/ UNCHANGED <<Stored, Pending>>
  <1> DEFINE new == [name |-> call[c].name, req |-> call[c].req,
                     tries |-> call[c].tries + 1, entity |-> Null]
  <1>1. TypeOK /\ call[c] # Null /\ db' = db
    BY DEF TxInv, Conflict
  <1>2. CASE Respond(c)
    BY <1>1, <1>2, ErrorServed
  <1>3. CASE call' = [call EXCEPT ![c] = new]
    <2>1. new \in CallSet
      BY <1>1, CallFacts DEF CallSet
    <2>2. new.name = call[c].name /\ new.req = call[c].req
      OBVIOUS
    <2> HIDE DEF new
    <2>3. Pending' = Pending
      BY <1>1, <1>3, <2>1, <2>2, PendingSame
    <2> QED BY <1>1, <2>3 DEF Stored
  <1> QED BY <1>2, <1>3 DEF Conflict

\* The linearization point of a handler is its transaction.
LEMMA CommitServed ==
    ASSUME TxInv, NEW c \in Clients, Commit(c)
    PROVE  Atomic!ServeLoaded(c)
  <1> DEFINE n == call[c].name
             o == Outcome(db[n].obj, call[c].req)
             row == [obj |-> o.obj, mod |-> revision + 1]
  <1>1. TypeOK /\ call[c] # Null /\ Respond(c)
    BY DEF TxInv, Commit
  <1>2. /\ n \in Names /\ db[n] \in Rows /\ db[n] # Null
        /\ call[c].req.op # "create"
        /\ o.kind \in {"store", "remove"} /\ Faithful(db[n].obj, o)
        /\ db' = [db EXCEPT ![n] = IF o.kind = "store" THEN row ELSE Null]
    BY CommitFacts
  <1>3. db[n].obj \in Entities /\ db \in [Names -> Rows \cup {Null}]
    BY <1>1, <1>2 DEF Rows, TypeOK
  <1>4. Stored[n] = db[n].obj /\ Stored[n] # Null
    BY <1>2, <1>3, HandlersAssumption DEF Stored
  <1>5. row.obj = o.obj
    OBVIOUS
  <1>6. o.kind = "store" => row \in Rows /\ row # Null
    <2>1. revision + 1 \in Nat
      BY <1>1 DEF TypeOK
    <2> HIDE DEF o, n
    <2>2. o.kind = "store" => o.obj \in Entities
      BY <1>2 DEF Faithful
    <2>3. o.kind = "store" => row \in Rows
      BY <2>1, <2>2 DEF Rows
    <2> QED BY <2>3, TransactionsAssumption
  <1>7. Pending[c] # Null /\ Pending[c].name = n /\ Pending[c].req = call[c].req
    BY <1>1, PendingFacts
  <1>8. o = Outcome(Stored[Pending[c].name], Pending[c].req)
    BY <1>4, <1>7
  <1>11. Pending' = [Pending EXCEPT ![c] = Null]
    BY <1>1, RespondEnds
  <1> HIDE DEF n, o, row
  <1>9. CASE o.kind = "store"
    <2>1. Stored' = [Stored EXCEPT ![n] = o.obj]
      BY <1>2, <1>3, <1>5, <1>6, <1>9 DEF Stored
    <2>2. Atomic!Effect(Pending[c].name, Outcome(Stored[Pending[c].name], Pending[c].req))
      BY <1>7, <1>8, <1>9, <2>1 DEF Atomic!Effect
    <2> QED BY <1>2, <1>4, <1>7, <1>11, <2>2 DEF Atomic!ServeLoaded
  <1>10. CASE o.kind = "remove"
    <2>1. Stored' = [Stored EXCEPT ![n] = Null]
      BY <1>2, <1>3, <1>10 DEF Stored
    <2>2. Atomic!Effect(Pending[c].name, Outcome(Stored[Pending[c].name], Pending[c].req))
      BY <1>7, <1>8, <1>10, <2>1 DEF Atomic!Effect
    <2> QED BY <1>2, <1>4, <1>7, <1>11, <2>2 DEF Atomic!ServeLoaded
  <1> QED BY <1>2, <1>9, <1>10

\* create_application is one step of the atomic API.
LEMMA CreateServed ==
    ASSUME TxInv, NEW c \in Clients, Create(c)
    PROVE  Atomic!ServeCreate(c) \/ Atomic!ServeError(c)
  <1> DEFINE n == call[c].name
             e == NewEntity(revision + 1, call[c].req.body)
             row == [obj |-> e, mod |-> revision + 1]
  <1>1. TypeOK /\ call[c] # Null /\ call[c].req.op = "create" /\ Respond(c)
    BY DEF TxInv, Create
  <1>2. n \in Names /\ call[c].req.body \in Entities /\ revision + 1 \in Nat
        /\ db \in [Names -> Rows \cup {Null}]
    BY <1>1, CallFacts DEF TypeOK
  <1>3. e \in Entities /\ e.metadata.uid = revision + 1 /\ e # Null
    BY <1>2, NewEntityType, HandlersAssumption
  <1>4. Pending[c] # Null /\ Pending[c].name = n /\ Pending[c].req = call[c].req
    BY <1>1, PendingFacts
  <1>5. CASE db[n] = Null /\ db' = [db EXCEPT ![n] = row]
    <2> HIDE DEF e
    <2>1. row \in Rows /\ row.obj = e
      BY <1>2, <1>3 DEF Rows
    <2>2. row # Null
      BY <2>1, TransactionsAssumption
    <2> HIDE DEF row, n
    <2>3. Stored[n] = Null /\ Stored' = [Stored EXCEPT ![n] = e]
      BY <1>2, <1>5, <2>1, <2>2 DEF Stored
    <2>4. Stored'[n] = e
      BY <1>2, <2>3 DEF Stored
    <2>5. e = NewEntity(Stored'[n].metadata.uid, Pending[c].req.body)
      BY <1>3, <1>4, <2>4 DEF e
    <2>6. Pending' = [Pending EXCEPT ![c] = Null]
      BY <1>1, RespondEnds
    <2>7. Stored' = [Stored EXCEPT ![n] = NewEntity(Stored'[n].metadata.uid, Pending[c].req.body)]
      BY <2>3, <2>5
    <2>8. Stored'[n] # Null /\ Stored'[n].metadata.uid \in Nat
      BY <1>2, <1>3, <2>4
    <2> QED BY <1>1, <1>4, <2>3, <2>6, <2>7, <2>8 DEF Atomic!ServeCreate
  <1>6. CASE db' = db
    BY <1>1, <1>6, ErrorServed
  <1> QED BY <1>5, <1>6 DEF Create

\* Whatever the interleaving of the loads and transactions of concurrent
\* handlers, the API server behaves like AtomicApi.
THEOREM HandlersAreAtomic == Spec => ImplementsAtomicApi
  <1>1. Init => Atomic!AtomicInit
    BY DEF Init, Stored, Pending, Atomic!AtomicInit
  <1>2. TxInv /\ [Next]_vars => [Atomic!AtomicNext]_(Atomic!atomicVars)
    <2> SUFFICES ASSUME TxInv, [Next]_vars
                 PROVE  Atomic!AtomicNext \/ UNCHANGED <<Stored, Pending>>
      BY DEF Atomic!atomicVars
    <2>1. ASSUME NEW c \in Clients, NEW n \in Names, Read(c, n)
          PROVE  UNCHANGED <<Stored, Pending>>
      BY <2>1 DEF Read, Stored, Pending
    <2>2. UNCHANGED vars => UNCHANGED <<Stored, Pending>>
      BY DEF vars, Stored, Pending
    <2> QED BY <2>1, <2>2, SubmitServed, LoadServed, CommitServed, ConflictServed, CreateServed
            DEF Next, Atomic!AtomicNext
  <1> QED BY <1>1, <1>2, TransactionsInvariant, PTL
          DEF Spec, ImplementsAtomicApi, Atomic!AtomicSpec
=============================================================================
