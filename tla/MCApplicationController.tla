---------------------- MODULE MCApplicationController ----------------------
(* Instances of ApplicationController for TLC: two clusters, two objects.  *)
EXTENDS ApplicationController

CONSTANTS o1, o2

MCManifests == {{o1}, {o1, o2}}

\* Each kind of ks once, restarts twice
Budget(ks) == [k \in Kinds |-> IF k \notin ks THEN 0 ELSE IF k = "crash" THEN 2 ELSE 1]
Scenario(orderly, prompt, hooked, volumes, strategy, m, ks) ==
    [orderly |-> orderly, prompt |-> prompt, lag |-> IF orderly THEN 3 ELSE 2,
     hooked |-> hooked, volumes |-> volumes, strategy |-> strategy, manifest |-> m,
     budget |-> Budget(ks)]

\* A life with an update, a migration and a deletion, each begun at rest: restarts
\* at any point, status reports of the observer at any time.  The update adds an
\* object, or takes one away from a controller that does not die.
Orderly(m, ks) == Scenario(TRUE, TRUE, FALSE, FALSE, "give_up", m,
                           {"move", "delete", "health"} \cup ks)
\* An object vanishes at any time
Repaired == Scenario(TRUE, TRUE, FALSE, FALSE, "give_up", {o1, o2}, {"crash", "drift", "health"})
\* The shutdown task and the worker delete at the same time
Graceful == Scenario(TRUE, TRUE, TRUE, FALSE, "delete", {o1, o2},
                     {"shrink", "delete", "confirm"})
\* Versions are handled while newer ones are under way
Late(hooked, m, ks) == Scenario(TRUE, FALSE, hooked, FALSE, "delete", m, {"delete"} \cup ks)
\* Deletions and migrations while objects are applied, a slow scheduler, clusters
\* that fail
Hasty(ks) == Scenario(FALSE, FALSE, FALSE, FALSE, "give_up", {o1}, {"delete"} \cup ks)
HastyVolumes == Scenario(FALSE, FALSE, FALSE, TRUE, "give_up", {o1}, {"move", "fail"})
\* Containers crash
Degraded == Scenario(FALSE, FALSE, FALSE, FALSE, "give_up", {o1}, {"update", "degrade", "health"})
HastyHooked(ks) == Scenario(FALSE, FALSE, TRUE, FALSE, "give_up", {o1}, {"confirm"} \cup ks)

Lives == {Orderly({o1}, {"update", "crash"}), Orderly({o1, o2}, {"shrink"}), Repaired, Graceful,
          Late(FALSE, {o1}, {"update", "crash", "drift"}),
          Late(FALSE, {o1, o2}, {"shrink", "health", "drift"}),
          Late(TRUE, {o1, o2}, {"shrink", "confirm"}),
          Hasty({"move"}), Hasty({"fail"}), HastyVolumes, Degraded,
          HastyHooked({"delete", "retry"}), HastyHooked({"move"})}
\* The user deletes the application while its objects are created
DeletedEarly == {Hasty({})}
\* The controller dies after the mark of a reconciliation that takes an object away
Interrupted == {Orderly({o1, o2}, {"shrink", "crash"})}
=============================================================================
