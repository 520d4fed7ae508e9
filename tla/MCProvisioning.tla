--------------------------- MODULE MCProvisioning ---------------------------
(* Instances of ClusterLife for TLC.                                       *)
EXTENDS ClusterLife

Budget(ks) == [k \in Kinds |-> IF k \in ks THEN 1 ELSE 0]
Life(start, swift, prompt, orderly, ks) ==
    [start |-> start, cloud |-> "cloud", provider |-> "provider", swift |-> swift,
     prompt |-> prompt, orderly |-> orderly, budget |-> Budget(ks)]
New == Created(1, Null)
Registered == Created(0, Own)

\* Users wait, and everything is noticed in time; one thing goes wrong
Orderly == {Life(New, TRUE, TRUE, TRUE, {"delete", k}) :
              k \in {"update", "refuse", "break", "vanish", "lost", "crash"}}
\* Users do not wait, and the delay before a deletion may be too short
Hasty == {Life(New, FALSE, TRUE, FALSE, {"delete", k}) : k \in {"update", "refuse", "crash"}}
\* The controllers notice versions late
Late == {Life(New, TRUE, FALSE, FALSE, {"delete"})}
\* A registered cluster is observed
Watched == {Life(Registered, TRUE, TRUE, TRUE, ks) :
              ks \in {{"health", "metrics", "delete", "observer crash"}, {"health", "observer"}}}
\* No template, or references that lead nowhere
Odd == {Life(Created(0, Null), TRUE, TRUE, TRUE, {"delete"}),
        [Life(New, TRUE, TRUE, TRUE, {}) EXCEPT !.cloud = "missing"],
        [Life(New, TRUE, TRUE, TRUE, {}) EXCEPT !.cloud = "global cloud", !.provider = "missing"]}
Lives == Orderly \cup Hasty \cup Late \cup Watched \cup Odd
\* A cluster that was created becomes unhealthy
Flapping == {Life(New, TRUE, TRUE, TRUE, {"health"})}
=============================================================================
