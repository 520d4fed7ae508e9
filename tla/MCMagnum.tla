------------------------------ MODULE MCMagnum ------------------------------
(* Instances of MagnumController for TLC.                                  *)
EXTENDS MagnumController

Story(orderly, prompt, ks) ==
    [projects |-> {"p1"}, labels |-> TRUE, coe |-> "kubernetes", orderly |-> orderly,
     prompt |-> prompt, budget |-> [k \in Stories |-> IF k \in ks THEN 1 ELSE 0]]
MCMagnumScenarios ==
    {Story(TRUE, TRUE, {"resize", "delete", k}) :
       k \in {"refuse", "lost", "break", "vanish", "crash"}}
      \cup {Story(FALSE, TRUE, {"delete", "refuse"}), Story(TRUE, FALSE, {"delete"})}
      \cup {Story(TRUE, TRUE, {"resize", "vanish"})}
      \cup {[Story(TRUE, TRUE, {"delete"}) EXCEPT !.projects = {}],
            [Story(TRUE, TRUE, {"delete"}) EXCEPT !.labels = FALSE],
            [Story(TRUE, TRUE, {"delete"}) EXCEPT !.coe = "swarm"],
            [Story(TRUE, TRUE, {"resize", "delete"}) EXCEPT !.projects = {"p1", "p2"}]}
TwoProjects == {[Story(TRUE, TRUE, {}) EXCEPT !.projects = {"p1", "p2"}]}
=============================================================================
