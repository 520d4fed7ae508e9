-------------------------- MODULE DependencyGraph --------------------------
(***************************************************************************)
(* The dependency graph of the garbage collector                           *)
(* (krake/controller/gc.py, class DependencyGraph): a function from every  *)
(* resource to the list of the resources that depend on it.  A missing     *)
(* entry of the defaultdict is an empty list.                              *)
(***************************************************************************)
EXTENDS Naturals, FiniteSets, SequencesExt

\* Faulty variant of AddEdges: the owners become dependents of the resource
AddReversed(g, r, owners) == [g EXCEPT ![r] = @ \o SetToSeq(owners \ Range(@))]

\* add_resource, without the check for cycles
AddEdges(g, r, owners) ==
    [o \in DOMAIN g |-> IF o \in owners /\ r \notin Range(g[o])
                          THEN Append(g[o], r) ELSE g[o]]

\* remove_resource, without the check for dependents
RemoveResource(g, r) ==
    [o \in DOMAIN g |-> IF o = r THEN <<>> ELSE RemoveFirst(g[o], r)]

\* Faulty variant of UpdateResource: former owners keep the resource
UpdateAdds(g, r, owners) == AddEdges(g, r, owners)

\* update_resource: the list of the dependents of r survives its removal
UpdateResource(g, r, owners) ==
    [AddEdges(RemoveResource(g, r), r, owners) EXCEPT ![r] = g[r]]

\* _check_for_cycles: a walk in depth-first order that stops at the first
\* resource it meets again.  The result is the set of visited resources that
\* the exception carries, empty if there is none.
CheckForCycles(g, r) ==
    LET walk[visited \in SUBSET DOMAIN g, stack \in Seq(DOMAIN g)] ==
          IF stack = <<>> THEN {}
          ELSE IF Head(stack) \in visited THEN visited
          ELSE walk[visited \cup {Head(stack)}, g[Head(stack)] \o Tail(stack)]
    IN  walk[{}, <<r>>]

\* The list s without the members of S, in the same order: its j-th element is the
\* one that has j kept positions up to its own
Without(s, S) ==
    LET kept == {i \in DOMAIN s : s[i] \notin S}
        Position(j) == CHOOSE i \in kept : Cardinality({k \in kept : k <= i}) = j
    IN  [j \in 1..Cardinality(kept) |-> s[Position(j)]]

\* _clean_cycle
CleanCycle(g, cycle) ==
    [o \in DOMAIN g |-> IF o \in cycle THEN <<>> ELSE Without(g[o], cycle)]
=============================================================================
