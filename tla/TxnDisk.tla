------------------------------ MODULE TxnDisk ------------------------------
(***************************************************************************)
(* What the journal promises to the file system: a disk on which a group   *)
(* of operations becomes durable all at once, and only when none of them   *)
(* is half done.  It has no log, no header, no buffers and no recovery:    *)
(* log.rs is shown to implement it (Log.tla, TxnRefinement).               *)
(***************************************************************************)
CONSTANTS Procs,      \* processes that make file-system system calls
          Blocks,     \* data blocks of the disk
          Values      \* contents of a block

VARIABLES cur,        \* what an operation reads: [Blocks -> Values]
          durable,    \* what a crash leaves:     [Blocks -> Values]
          inop,       \* processes between begin_op and end_op
          syncing     \* processes inside fsync

vars == <<cur, durable, inop, syncing>>

Init ==
    /\ cur \in [Blocks -> Values]
    /\ durable = cur
    /\ inop = {}
    /\ syncing = {}

Begin(p) ==
    /\ p \notin inop
    /\ inop' = inop \cup {p}
    /\ UNCHANGED <<cur, durable, syncing>>

Write(p, b, v) ==
    /\ p \in inop
    /\ cur' = [cur EXCEPT ![b] = v]
    /\ UNCHANGED <<durable, inop, syncing>>

End(p) ==
    /\ p \in inop
    /\ inop' = inop \ {p}
    /\ UNCHANGED <<cur, durable, syncing>>

\* Every update made so far becomes durable in one step, and no operation is
\* half done when it happens.
Commit ==
    /\ inop = {}
    /\ durable' = cur
    /\ UNCHANGED <<cur, inop, syncing>>

SyncCall(p) ==
    /\ p \notin syncing
    /\ syncing' = syncing \cup {p}
    /\ UNCHANGED <<cur, durable, inop>>

\* fsync returns only when nothing is left to lose.
SyncReturn(p) ==
    /\ p \in syncing
    /\ inop = {}
    /\ durable = cur
    /\ syncing' = syncing \ {p}
    /\ UNCHANGED <<cur, durable, inop>>

\* The machine stops and comes back with the durable contents.
Crash ==
    /\ cur' = durable
    /\ inop' = {}
    /\ syncing' = {}
    /\ UNCHANGED durable

Next ==
    \/ Commit
    \/ Crash
    \/ \E p \in Procs : \/ Begin(p)
                        \/ End(p)
                        \/ SyncCall(p)
                        \/ SyncReturn(p)
                        \/ \E b \in Blocks, v \in Values : Write(p, b, v)

Spec == Init /\ [][Next]_vars
=============================================================================
