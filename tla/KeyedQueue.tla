---------------------------- MODULE KeyedQueue ----------------------------
(***************************************************************************)
(* What a WorkQueue promises to a controller, without the inner queue, the *)
(* set of active keys and the timers: the newest visible value of a key    *)
(* waits until a worker takes it, and a worker only takes a key that no    *)
(* other worker holds.                                                     *)
(***************************************************************************)
CONSTANTS Keys, Workers, Values, None

VARIABLES
    pending,  \* [Keys -> value that waits, or None]
    holding   \* [Workers -> key being handled, or None]

absVars == <<pending, holding>>

AbsInit ==
    /\ pending = [k \in Keys |-> None]
    /\ holding = [w \in Workers |-> None]

\* A value becomes visible and replaces the one that waits
Offer(k, v) ==
    /\ v \in Values
    /\ pending' = [pending EXCEPT ![k] = v]
    /\ UNCHANGED holding

\* A worker takes the value of a key nobody holds
Take(w, k) ==
    /\ holding[w] = None
    /\ \A v \in Workers : holding[v] # k
    /\ pending[k] # None
    /\ pending' = [pending EXCEPT ![k] = None]
    /\ holding' = [holding EXCEPT ![w] = k]

Release(w) ==
    /\ holding[w] # None
    /\ holding' = [holding EXCEPT ![w] = None]
    /\ UNCHANGED pending

AbsNext ==
    \/ \E k \in Keys : Offer(k, pending'[k])
    \/ \E w \in Workers, k \in Keys : Take(w, k)
    \/ \E w \in Workers : Release(w)

AbsSpec == AbsInit /\ [][AbsNext]_absVars
=============================================================================
