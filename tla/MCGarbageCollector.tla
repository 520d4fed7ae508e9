------------------------ MODULE MCGarbageCollector ------------------------
(* Instances of GarbageCollector for TLC: a project p, the clusters c and  *)
(* d, and the application a, each kind with its own reflector.             *)
EXTENDS GarbageCollector

CONSTANTS p, c, d, a

MCFinalizers == {Cascade, Foreign}
KindName == (p :> "project") @@ (c :> "cluster") @@ (d :> "cluster") @@ (a :> "app")
MCKindOf == [n \in Refs |-> KindName[n]]

Nobody == [n \in Refs |-> {}]
\* the project owns the clusters, one cluster owns the application
Chain == [n \in Refs |-> CASE n = c -> {p} [] n = a -> {c} [] OTHER -> {}]
Fork  == [n \in Refs |-> CASE n = p -> {} [] OTHER -> {p}]
Tree  == [n \in Refs |-> CASE n = p -> {} [] n = a -> {c} [] OTHER -> {p}]
Diamond == [n \in Refs |-> CASE n = p -> {} [] n = a -> {c, d} [] OTHER -> {p}]
Pair == [n \in Refs |-> IF n = a THEN {c} ELSE {}]
\* the application and the cluster own each other
Ring == [n \in Refs |-> CASE n = c -> {a} [] n = a -> {c} [] OTHER -> {}]

DeletesOf(S) == [op: {"delete"}, ref: S]
\* All the resources exist; asked for is the deletion of those in S
Deleting(owners, S) == [owners |-> owners, present |-> Refs, asks |-> DeletesOf(S), outages |-> 0]
\* The application is created late and migrates from a cluster to the other
Migration ==
    [owners |-> Pair, present |-> Refs \ {a}, outages |-> 0,
     asks |-> DeletesOf({a})
                \cup {[op |-> "create", ref |-> a], [op |-> "bind", ref |-> a, owner |-> d],
                      [op |-> "unbind", ref |-> a, owner |-> c]}]
\* Clusters go away under the application
Turmoil(owners) ==
    [owners |-> owners, present |-> {c, d}, outages |-> Outages,
     asks |-> DeletesOf({c, a})
                \cup {[op |-> "create", ref |-> a], [op |-> "force", ref |-> c],
                      [op |-> "bind", ref |-> a, owner |-> d]}]

TurmoilScenarios == {Turmoil(o) : o \in {Nobody, Pair, Ring}}
AnyDeletion == {Deleting(o, Refs) : o \in {Chain, Fork, Tree}} \cup {Migration}
AllCases == AnyDeletion \cup TurmoilScenarios
\* The workers are interchangeable
WorkerSymmetry == Permutations(Workers)
RootDeletion == {Deleting(o, {p}) : o \in {Chain, Fork, Tree}}
StuckScenario == {Deleting(Chain, {p, c})}
DiamondScenario == {Deleting(Diamond, {p})}
=============================================================================
