----------------------------- MODULE AtomicApi -----------------------------
(***************************************************************************)
(* The API as its clients would like it to be: a request that is served    *)
(* takes effect in one step, on the entity stored at that moment.  What    *)
(* the handlers decide is a parameter.                                     *)
(***************************************************************************)
EXTENDS Naturals

CONSTANTS
    Names, Clients, Null,
    Outcome(_, _),    \* of a handler, given the stored entity and the request
    NewEntity(_, _)   \* of a creation, given the uid and the body

VARIABLES
    stored,   \* [Names -> entity or Null]
    pending   \* [Clients -> request being served, or Null]

atomicVars == <<stored, pending>>

AtomicInit ==
    /\ stored = [n \in Names |-> Null]
    /\ pending = [c \in Clients |-> Null]

\* A client sends any request
Submit(c) ==
    /\ pending[c] = Null
    /\ pending' = [pending EXCEPT ![c] = pending'[c]]
    /\ UNCHANGED stored

\* What an outcome does to the entity of a name
Effect(n, o) ==
    stored' = CASE o.kind = "store"  -> [stored EXCEPT ![n] = o.obj]
                [] o.kind = "remove" -> [stored EXCEPT ![n] = Null]
                [] OTHER -> stored

\* A request on an existing entity
ServeLoaded(c) ==
    /\ pending[c] # Null
    /\ pending[c].req.op # "create"
    /\ stored[pending[c].name] # Null
    /\ Effect(pending[c].name, Outcome(stored[pending[c].name], pending[c].req))
    /\ pending' = [pending EXCEPT ![c] = Null]

\* A creation: the uid is chosen by the API
ServeCreate(c) ==
    /\ pending[c] # Null
    /\ pending[c].req.op = "create"
    /\ stored[pending[c].name] = Null
    /\ LET n == pending[c].name IN
         /\ stored'[n] # Null
         /\ stored'[n].metadata.uid \in Nat
         /\ stored' = [stored EXCEPT ![n] =
                         NewEntity(stored'[n].metadata.uid, pending[c].req.body)]
    /\ pending' = [pending EXCEPT ![c] = Null]

\* An error without effect: not found, already exists, concurrent writes
ServeError(c) ==
    /\ pending[c] # Null
    /\ pending' = [pending EXCEPT ![c] = Null]
    /\ UNCHANGED stored

AtomicNext ==
    \E c \in Clients : Submit(c) \/ ServeLoaded(c) \/ ServeCreate(c) \/ ServeError(c)

AtomicSpec == AtomicInit /\ [][AtomicNext]_atomicVars
=============================================================================
