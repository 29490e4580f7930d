----------------------------- MODULE MCBufCache -----------------------------
(* Instances of the buffer cache for TLC. *)
EXTENDS BufCache

\* Once get() has been overtaken contents are no longer told apart: no property
\* speaks of them then, and no action depends on them.
View ==
    IF raced THEN <<list, refs, lock, blockno, valid, logged, pc, guard, halted>>
             ELSE vars
=============================================================================
