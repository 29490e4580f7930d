------------------------------- MODULE MCLog -------------------------------
(* Instances of the journal for TLC. *)
EXTENDS Log, TLC

\* Processes, blocks and contents are interchangeable.  Used for invariants
\* and action properties only.
Symmetric ==
    Permutations(Procs) \cup Permutations(Blocks) \cup Permutations(Values)
=============================================================================
