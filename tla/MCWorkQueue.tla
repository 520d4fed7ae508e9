---------------------------- MODULE MCWorkQueue ----------------------------
(* Instances of WorkQueue for TLC.                                         *)
EXTENDS WorkQueue, TLC

\* Workers, timers and producers are interchangeable.
Symmetry ==
    Permutations(Workers) \cup Permutations(Timers)
        \cup Permutations(Producers)
=============================================================================
