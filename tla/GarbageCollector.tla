------------------------- MODULE GarbageCollector -------------------------
(***************************************************************************)
(* The garbage collector (krake/controller/gc.py, class GarbageCollector)  *)
(* and what it interacts with: the API, whose handlers take effect in one  *)
(* step (AtomicApi), the reflectors that list and watch the resources of a *)
(* kind (krake/controller/__init__.py, class Reflector), and the work      *)
(* queue, which behaves as KeyedQueue; its debounce time is 0.             *)
(*                                                                         *)
(* An action of a coroutine is the code between two awaits that suspend:   *)
(* the requests to the API.  A request is served and answered later.       *)
(***************************************************************************)
EXTENDS ApiHandlers, DependencyGraph

CONSTANTS
    Reflectors,   \* one per kind of resources
    KindOf,       \* [Refs -> Reflectors]
    Workers,      \* handle_resource coroutines
    Guarded,      \* resources created with the finalizer of another controller
    Scenarios,    \* what exists and what is asked for, see AllScenarios
    Outages       \* bound: failures of a connection

Foreign == "foreign"     \* the finalizer of another controller
AnySpec == CHOOSE s \in Specs : TRUE

\* An event of a watch, and a resource of a listing
Events == [type: {"ADDED", "MODIFIED", "DELETED"}, ref: Refs, obj: Entities]
Items  == [ref: Refs, obj: Entities]
\* on_received_deleted: the owners still to read, and the one that was read
Deletions == [ref: Refs, left: SUBSET Refs, got: Items \cup {Null}]
\* resource_received: the request to the API and how it went; the iterator over
\* the dependents: its position, and the list if the graph does not hold it any more
Works == [call: {"delete", "update", "answered", "failed"}, target: Refs,
          body: Entities \cup {Null}, next: Nat \ {0}, list: Seq(Refs) \cup {Null}]
Wishes == [op: {"create", "delete", "force"}, ref: Refs]
            \cup [op: {"bind", "unbind"}, ref: Refs, owner: Refs]
\* The owners resources are created with, the resources that exist and that the
\* collector knows at the start, and what users and other controllers ask for,
\* each at most once; how often connections fail
AllScenarios == [owners: [Refs -> SUBSET Refs], present: SUBSET Refs, asks: SUBSET Wishes,
                 outages: 0..Outages]

ASSUME CollectorAssumption ==
    /\ Foreign \in Finalizers /\ Specs # {}
    /\ KindOf \in [Refs -> Reflectors]
    /\ Guarded \subseteq Refs
    /\ Scenarios \subseteq AllScenarios
    /\ Outages \in Nat /\ IsFiniteSet(Refs)
    /\ Null \notin Items /\ Null \notin Deletions /\ Null \notin Works
    /\ Null \notin Seq(Refs)

VARIABLES
    db,        \* [Refs -> entity or Null]
    stream,    \* [Reflectors -> events sent on the watch and not yet handled]
    mode,      \* [Reflectors -> down, listing (watch open, list asked for), up]
    items,     \* [Reflectors -> listed resources not yet handled]
    deletion,  \* [Reflectors -> the deleted resource being handled, or Null]
    graph,     \* [Refs -> Seq(Refs)]: the dependency graph
    pending,   \* [Refs -> entity or Null]: the work queue
    holding,   \* [Workers -> resource being handled, or Null]
    work,      \* [Workers -> state of resource_received, or Null]
    intents,   \* what was not asked for yet
    scenario,  \* the chosen scenario
    outages    \* failures that may still happen

queueVars == <<pending, holding>>
reflectorVars == <<stream, mode, items, deletion>>
vars == <<db, reflectorVars, graph, queueVars, work, intents, scenario, outages>>

Queue == INSTANCE KeyedQueue WITH Keys <- Refs, Values <- Entities, None <- Null

\* What a user submits to create n
Created(n, owners) ==
    NewEntity(1, Entity(Meta(0, FALSE, IF n \in Guarded THEN <<Foreign>> ELSE <<>>, owners),
                        AnySpec, StatusOf("PENDING", Null)))

Init ==
    /\ scenario \in Scenarios
    /\ db = [n \in Refs |-> IF n \in scenario.present
                              THEN Created(n, scenario.owners[n]) ELSE Null]
    /\ graph = [o \in Refs |-> SetToSeq({n \in scenario.present : o \in scenario.owners[n]})]
    /\ stream = [r \in Reflectors |-> <<>>]
    /\ mode = [r \in Reflectors |-> "up"]
    /\ items = [r \in Reflectors |-> {}]
    /\ deletion = [r \in Reflectors |-> Null]
    /\ Queue!AbsInit
    /\ work = [w \in Workers |-> Null]
    /\ intents = scenario.asks
    /\ outages = scenario.outages

-----------------------------------------------------------------------------
(* The API                                                                 *)

EventOf(n, e) ==
    CASE db[n] = Null -> [type |-> "ADDED", ref |-> n, obj |-> e]
      [] e = Null     -> [type |-> "DELETED", ref |-> n, obj |-> db[n]]
      [] OTHER        -> [type |-> "MODIFIED", ref |-> n, obj |-> e]

\* The entity of n becomes e; watchers of its kind are told
Write(n, e) ==
    /\ db' = [db EXCEPT ![n] = e]
    /\ stream' = IF mode[KindOf[n]] = "down" THEN stream
                 ELSE [stream EXCEPT ![KindOf[n]] = Append(@, EventOf(n, e))]

\* The outcome o of a handler
Apply(n, o) ==
    \/ o.kind = "store" /\ Write(n, o.obj)
    \/ o.kind = "remove" /\ Write(n, Null)
    \/ o.kind \in {"answer", "error"} /\ UNCHANGED <<db, stream>>

\* A body made of the entity e
BodyOf(e, finalizers, owners) ==
    Entity(Meta(e.metadata.uid, e.metadata.deleted, finalizers, owners), e.spec, e.status)

\* Users create and delete resources; the scheduler binds an application to a
\* cluster, the application controller removes the former cluster from its owners
Ask(i) ==
    LET n == i.ref IN
    /\ intents' = intents \ {i}
    /\ \/ i.op = "create" /\ db[n] = Null /\ n \notin scenario.present
          /\ Write(n, Created(n, scenario.owners[n]))
       \/ i.op = "delete" /\ db[n] # Null /\ Apply(n, DeleteEntity(db[n], FALSE))
       \/ i.op = "force" /\ db[n] # Null /\ Apply(n, DeleteEntity(db[n], TRUE))
       \/ i.op = "bind" /\ db[n] # Null /\ Apply(n, BindEntity(db[n], i.owner))
       \/ i.op = "unbind" /\ db[n] # Null
          /\ Apply(n, UpdateEntity(db[n], BodyOf(db[n], db[n].metadata.finalizers,
                                          db[n].metadata.owners \ {i.owner}), TRUE))
    /\ UNCHANGED <<mode, items, deletion, graph, queueVars, work, scenario, outages>>

\* Another controller is done with a resource in deletion
Finalize(n) ==
    /\ db[n] # Null
    /\ db[n].metadata.deleted
    /\ Foreign \in Range(db[n].metadata.finalizers)
    /\ Last(db[n].metadata.finalizers) = Foreign
    /\ Apply(n, UpdateEntity(db[n], BodyOf(db[n], Front(db[n].metadata.finalizers),
                                    db[n].metadata.owners), TRUE))
    /\ UNCHANGED <<mode, items, deletion, graph, queueVars, work, intents, scenario, outages>>

-----------------------------------------------------------------------------
(* Reflectors                                                              *)

IsInDeletion(e) ==
    /\ e.metadata.deleted
    /\ e.metadata.finalizers # <<>>
    /\ Last(e.metadata.finalizers) = Cascade

\* Faulty variant of SimpleOnReceive: every resource is accepted
AcceptAny(n, e) == Queue!Offer(n, e)

\* simple_on_receive
SimpleOnReceive(n, e) ==
    IF IsInDeletion(e) THEN Queue!Offer(n, e) ELSE UNCHANGED queueVars

\* A worker that iterates over a list that the graph g drops keeps this list;
\* _clean_cycle drops the resources of the cycle in any order
Detach(g, cycle) ==
    \E first \in SUBSET cycle :
        work' = [w \in Workers |->
                   IF work[w] # Null /\ holding[w] \in cycle /\ work[w].list = Null
                     THEN [call |-> work[w].call, target |-> work[w].target,
                           body |-> work[w].body, next |-> work[w].next,
                           list |-> Without(g[holding[w]], first)]
                     ELSE work[w]]

\* on_received_new and on_received_update, g being the graph with n added to it
Received(n, e, g) ==
    LET cycle == CheckForCycles(g, n) IN
    \/ /\ cycle = {}
       /\ graph' = g
       /\ SimpleOnReceive(n, e)
       /\ UNCHANGED work
    \/ /\ cycle # {}
       /\ graph' = CleanCycle(g, cycle)
       /\ Detach(g, cycle)
       /\ UNCHANGED queueVars

OnReceivedNew(n, e) == Received(n, e, AddEdges(graph, n, e.metadata.owners))
OnReceivedUpdate(n, e) == Received(n, e, UpdateResource(graph, n, e.metadata.owners))

\* The end of on_received_deleted: a resource with dependents stays in the graph
RemoveFromGraph(n) ==
    IF graph[n] = <<>>
      THEN graph' = RemoveResource(graph, n) /\ Detach(graph, {n})
      ELSE UNCHANGED <<graph, work>>

\* watch_resource: the next event.  A deleted resource without owners leaves the
\* graph at once, otherwise its first owner is requested
OnEvent(r) ==
    /\ stream[r] # <<>>
    /\ deletion[r] = Null
    /\ stream' = [stream EXCEPT ![r] = Tail(@)]
    /\ LET v == Head(stream[r])
           owners == v.obj.metadata.owners
       IN  \/ v.type = "ADDED" /\ OnReceivedNew(v.ref, v.obj) /\ UNCHANGED deletion
           \/ v.type = "MODIFIED" /\ OnReceivedUpdate(v.ref, v.obj) /\ UNCHANGED deletion
           \/ /\ v.type = "DELETED" /\ owners = {}
              /\ RemoveFromGraph(v.ref)
              /\ UNCHANGED <<deletion, queueVars>>
           \/ /\ v.type = "DELETED" /\ owners # {}
              /\ deletion' = [deletion EXCEPT ![r] =
                                [ref |-> v.ref, left |-> owners, got |-> Null]]
              /\ UNCHANGED <<graph, queueVars, work>>
    /\ UNCHANGED <<db, mode, items, intents, scenario, outages>>

\* The connection is over: list_and_watch ends, its coroutines are cancelled
Down(r) ==
    /\ mode' = [mode EXCEPT ![r] = "down"]
    /\ stream' = [stream EXCEPT ![r] = <<>>]
    /\ items' = [items EXCEPT ![r] = {}]
    /\ deletion' = [deletion EXCEPT ![r] = Null]

\* on_received_deleted: the API answers with an owner, or that there is none,
\* which is a ClientError that ends list_and_watch
ReadOwner(r) ==
    /\ deletion[r] # Null
    /\ deletion[r].got = Null
    /\ \E o \in deletion[r].left :
         \/ db[o] = Null /\ Down(r)
         \/ /\ db[o] # Null
            /\ deletion' = [deletion EXCEPT ![r].got = [ref |-> o, obj |-> db[o]]]
            /\ UNCHANGED <<stream, mode, items>>
    /\ UNCHANGED <<db, graph, queueVars, work, intents, scenario, outages>>

\* Faulty variant of GotOwner: the owners are not put into the queue
GotOwnerSilent(r) ==
    /\ deletion[r] # Null
    /\ deletion[r].got # Null
    /\ LET gone == deletion[r]
           left == gone.left \ {gone.got.ref}
       IN  IF left = {}
             THEN /\ deletion' = [deletion EXCEPT ![r] = Null]
                  /\ RemoveFromGraph(gone.ref)
             ELSE /\ deletion' = [deletion EXCEPT ![r].left = left, ![r].got = Null]
                  /\ UNCHANGED <<graph, work>>
    /\ UNCHANGED <<queueVars, db, stream, mode, items, intents, scenario, outages>>

\* on_received_deleted: the owner is put into the queue; after the last one the
\* resource leaves the graph
GotOwner(r) ==
    /\ deletion[r] # Null
    /\ deletion[r].got # Null
    /\ LET gone == deletion[r]
           left == gone.left \ {gone.got.ref}
       IN  /\ SimpleOnReceive(gone.got.ref, gone.got.obj)
           /\ IF left = {}
                THEN /\ deletion' = [deletion EXCEPT ![r] = Null]
                     /\ RemoveFromGraph(gone.ref)
                ELSE /\ deletion' = [deletion EXCEPT ![r] =
                                       [ref |-> gone.ref, left |-> left, got |-> Null]]
                     /\ UNCHANGED <<graph, work>>
    /\ UNCHANGED <<db, stream, mode, items, intents, scenario, outages>>

Disconnect(r) ==
    /\ outages > 0
    /\ mode[r] # "down"
    /\ outages' = outages - 1
    /\ Down(r)
    /\ UNCHANGED <<db, graph, queueVars, work, intents, scenario>>

\* __call__ tries again: a new watch, then the request for a listing
Reopen(r) ==
    /\ mode[r] = "down"
    /\ mode' = [mode EXCEPT ![r] = "listing"]
    /\ UNCHANGED <<db, stream, items, deletion, graph, queueVars, work, intents, scenario, outages>>

List(r) ==
    /\ mode[r] = "listing"
    /\ mode' = [mode EXCEPT ![r] = "up"]
    /\ items' = [items EXCEPT ![r] =
                   {[ref |-> n, obj |-> db[n]] :
                      n \in {m \in Refs : KindOf[m] = r /\ db[m] # Null}}]
    /\ UNCHANGED <<db, stream, deletion, graph, queueVars, work, intents, scenario, outages>>

\* list_resource: the next listed resource, while events are handled as well
OnList(r) ==
    /\ \E i \in items[r] :
         /\ items' = [items EXCEPT ![r] = @ \ {i}]
         /\ OnReceivedNew(i.ref, i.obj)
    /\ UNCHANGED <<db, stream, mode, deletion, intents, scenario, outages>>

-----------------------------------------------------------------------------
(* Workers                                                                 *)

Calling(call, target, body, next, list) ==
    [call |-> call, target |-> target, body |-> body, next |-> next, list |-> list]

\* Faulty variant of Handle: the finalizer is removed without regard to dependents
HandleAlone(w, n) ==
    /\ Queue!Take(w, n)
    /\ work' = [work EXCEPT ![w] =
         Calling("update", n, BodyOf(pending[n], Front(pending[n].metadata.finalizers),
                                     pending[n].metadata.owners), 1, Null)]
    /\ UNCHANGED <<db, reflectorVars, graph, intents, scenario, outages>>

\* handle_resource: get, and resource_received up to its first request, which
\* deletes the first dependent or removes the finalizer
Handle(w, n) ==
    /\ Queue!Take(w, n)
    /\ LET e == pending[n] IN
       work' = [work EXCEPT ![w] =
         IF graph[n] # <<>>
           THEN Calling("delete", Head(graph[n]), Null, 2, Null)
           ELSE Calling("update", n, BodyOf(e, Front(e.metadata.finalizers),
                                            e.metadata.owners), 1, Null)]
    /\ UNCHANGED <<db, reflectorVars, graph, intents, scenario, outages>>

\* How the request of w went
Answered(w, how) ==
    work' = [work EXCEPT ![w] =
               Calling(how, work[w].target, work[w].body, work[w].next, work[w].list)]

\* The API serves the request of a worker; an HTTP error is an exception
Serve(w) ==
    /\ work[w] # Null
    /\ work[w].call \in {"delete", "update"}
    /\ LET n == work[w].target
           o == IF work[w].call = "delete" THEN DeleteEntity(db[n], FALSE)
                ELSE UpdateEntity(db[n], work[w].body, TRUE)
       IN  \/ db[n] = Null /\ UNCHANGED <<db, stream>> /\ Answered(w, "failed")
           \/ /\ db[n] # Null
              /\ Apply(n, o)
              /\ Answered(w, IF o.kind = "error" THEN "failed" ELSE "answered")
    /\ UNCHANGED <<mode, items, deletion, graph, queueVars, intents, scenario, outages>>

\* The request does not reach the API
CallLost(w) ==
    /\ outages > 0
    /\ work[w] # Null
    /\ work[w].call \in {"delete", "update"}
    /\ outages' = outages - 1
    /\ Answered(w, "failed")
    /\ UNCHANGED <<db, reflectorVars, graph, queueVars, intents, scenario>>

\* The list of dependents that _mark_dependents iterates over: the one in the graph
\* as it is now, unless it was dropped
Dependents(w) == IF work[w].list = Null THEN graph[holding[w]] ELSE work[w].list

\* _mark_dependents: the next dependent
MarkNext(w) ==
    /\ work[w] # Null
    /\ work[w].call = "answered"
    /\ work[w].body = Null
    /\ work[w].next <= Len(Dependents(w))
    /\ work' = [work EXCEPT ![w] =
                  Calling("delete", Dependents(w)[work[w].next], Null,
                          work[w].next + 1, work[w].list)]
    /\ UNCHANGED <<db, reflectorVars, graph, queueVars, intents, scenario, outages>>

\* handle_resource: done, after the last request or an exception
Finish(w) ==
    /\ work[w] # Null
    /\ \/ work[w].call = "failed"
       \/ work[w].call = "answered" /\ work[w].body # Null
       \/ work[w].call = "answered" /\ work[w].next > Len(Dependents(w))
    /\ Queue!Release(w)
    /\ work' = [work EXCEPT ![w] = Null]
    /\ UNCHANGED <<db, reflectorVars, graph, intents, scenario, outages>>

-----------------------------------------------------------------------------
Next ==
    \/ \E i \in intents : Ask(i)
    \/ \E n \in Refs : Finalize(n)
    \/ \E r \in Reflectors : \/ OnEvent(r) \/ ReadOwner(r) \/ GotOwner(r)
                             \/ Disconnect(r) \/ Reopen(r) \/ List(r) \/ OnList(r)
    \/ \E w \in Workers : \/ \E n \in Refs : Handle(w, n)
                          \/ Serve(w) \/ CallLost(w) \/ MarkNext(w) \/ Finish(w)

Spec == Init /\ [][Next]_vars

\* Coroutines that can run do, the API serves requests, and the other
\* controllers get done with resources in deletion.
Fairness ==
    /\ \A n \in Refs : WF_vars(Finalize(n))
    /\ \A r \in Reflectors : /\ WF_vars(OnEvent(r)) /\ WF_vars(ReadOwner(r))
                             /\ WF_vars(GotOwner(r)) /\ WF_vars(Reopen(r))
                             /\ WF_vars(List(r)) /\ WF_vars(OnList(r))
    /\ \A w \in Workers : /\ WF_vars(\E n \in Refs : Handle(w, n))
                          /\ WF_vars(Serve(w)) /\ WF_vars(MarkNext(w)) /\ WF_vars(Finish(w))

FairSpec == Spec /\ Fairness

-----------------------------------------------------------------------------
(* Properties                                                              *)

\* The shape of the state.
TypeOK ==
    /\ db \in [Refs -> Entities \cup {Null}]
    /\ stream \in [Reflectors -> Seq(Events)]
    /\ mode \in [Reflectors -> {"down", "listing", "up"}]
    /\ items \in [Reflectors -> SUBSET Items]
    /\ deletion \in [Reflectors -> Deletions \cup {Null}]
    /\ graph \in [Refs -> Seq(Refs)]
    /\ pending \in [Refs -> Entities \cup {Null}]
    /\ holding \in [Workers -> Refs \cup {Null}]
    /\ work \in [Workers -> Works \cup {Null}]
    /\ scenario \in Scenarios /\ intents \subseteq scenario.asks
    /\ outages \in 0..Outages

Owners(n) == IF db[n] = Null THEN {} ELSE db[n].metadata.owners
InDeletion(n) == db[n] # Null /\ db[n].metadata.deleted
Asked(n) == [op |-> "delete", ref |-> n] \in scenario.asks \ intents

\* Connections do not fail, nobody forces a deletion
Calm == scenario.outages = 0 /\ \A i \in scenario.asks : i.op # "force"

\* Cascading deletion goes from the leaves to the root: a resource leaves the
\* database after all the resources that depend on it.
DependentsFirst ==
    [][\A n \in Refs : Calm /\ db[n] # Null /\ db'[n] = Null
         => \A m \in Refs \ {n} : n \notin Owners(m)]_vars

\* A resource is in deletion because somebody asked for it or because one of
\* its owners is: the collector deletes nothing else.
CascadeJustified ==
    \A n \in Refs : Calm /\ InDeletion(n) /\ ~Asked(n) => \E o \in Owners(n) : InDeletion(o)

\* Every event that was sent is handled.
Synced ==
    \A r \in Reflectors : /\ mode[r] = "up" /\ stream[r] = <<>>
                          /\ items[r] = {} /\ deletion[r] = Null

\* Once every event is handled, the graph holds the dependency relationships
\* of all the resources in the database, and no others.
GraphMatches ==
    Calm /\ Synced => \A n, o \in Refs : n \in Range(graph[o]) <=> o \in Owners(n)

\* While nothing fails, the cascade follows the owners in the database: the graph
\* matches them (add_resource, update_resource, remove_resource), and what is marked
\* has an owner in deletion (_mark_dependents).
CascadeInv == GraphMatches /\ CascadeJustified

\* The collector only handles resources that are in deletion for good: what
\* waits in its queue, or what a worker removes the finalizer from, is gone or
\* still marked in the database.
OnlyInDeletion ==
    \A n \in Refs :
        \/ pending[n] # Null
        \/ \E w \in Workers : work[w] # Null /\ work[w].call = "update" /\ work[w].target = n
        => db[n] = Null \/ db[n].metadata.deleted

\* A resource that was created will not be created again; its mark is final.
Spent(n) == n \in scenario.present \/ [op |-> "create", ref |-> n] \notin intents
Over(n) == Spent(n) /\ (db[n] = Null \/ db[n].metadata.deleted)
Seen(n, e) == e.metadata.deleted => Over(n)

\* A mark that was seen is final, wherever the copy that carries it is: on the watch, in
\* a listing, in the answer with an owner, in the queue or with a worker.
DbSpent == \A n \in Refs : db[n] # Null => Spent(n)
StreamSeen ==
    \A r \in Reflectors : \A i \in DOMAIN stream[r] : Seen(stream[r][i].ref, stream[r][i].obj)
ItemsSeen == \A r \in Reflectors : \A i \in items[r] : Seen(i.ref, i.obj)
OwnerSeen ==
    \A r \in Reflectors : deletion[r] # Null /\ deletion[r].got # Null
        => Seen(deletion[r].got.ref, deletion[r].got.obj)
PendingFinal == \A n \in Refs : pending[n] # Null => IsInDeletion(pending[n]) /\ Over(n)
WorkFinal ==
    \A w \in Workers : work[w] # Null =>
        /\ holding[w] \in Refs
        /\ work[w].call = "update" => work[w].body # Null /\ Over(work[w].target)
MarksAreFinal ==
    DbSpent /\ StreamSeen /\ ItemsSeen /\ OwnerSeen /\ PendingFinal /\ WorkFinal

\* The collector takes up nothing but what is in deletion for good (on_received_new,
\* on_received_update, on_received_deleted), however late its copies are, whatever
\* connections fail and whoever forces deletions.
CollectorInv == TypeOK /\ OnlyInDeletion /\ MarksAreFinal

\* A resource in deletion is deleted in the end.
DeletionCompletes ==
    \A n \in Refs : InDeletion(n) ~> db[n] = Null
=============================================================================
