------------------------------ MODULE BufCache ------------------------------
(***************************************************************************)
(* The buffer cache of crates/kernel/src/bio.rs with the sleep locks of    *)
(* sleeplock.rs that protect its buffers.  A process looks a block up (or  *)
(* recycles a buffer for it) under the lock of the LRU list, then waits    *)
(* for the sleep lock of that buffer, and only then counts its reference.  *)
(* Dropping the guard unlocks, gives the reference back, and moves the     *)
(* buffer to the head of the list, in three steps.                         *)
(*                                                                         *)
(* The contents of a block are named by its number and by which of two     *)
(* versions they are; an update makes the other one.  The journal is here  *)
(* by what it does to buffers: LOG.write pins the buffer of an updated     *)
(* block, and install_trans later writes that block to disk and unpins it. *)
(* A process holds one guard at a time.  A buffer's count is               *)
(* Arc::strong_count less the one reference of the list.                   *)
(***************************************************************************)
EXTENDS Integers, Sequences, FiniteSets, SequencesExt

CONSTANTS Procs,      \* processes that read blocks
          Blocks,     \* block numbers in use
          Updated,    \* those that file system operations update
          NBUF,       \* param.rs: size of disk block cache
          None        \* no block, no buffer, no process

Bufs == 1 .. NBUF

ASSUME SizeAssumption == NBUF \in Nat \ {0} /\ Updated \subseteq Blocks

VARIABLES
    lru,        \* Lru: the list of buffers, head first
    meta,       \* Buf.meta.blockno, by buffer
    index,      \* Lru.index, by block
    refs,       \* references of guards and pins, by buffer
    owner,      \* SleepLockInfo: the process that holds the buffer's lock
    blockno,    \* Data.blockno, by buffer
    valid,      \* Data.valid, by buffer
    content,    \* Data.data, by buffer
    slk,        \* SleepLock.lk: who holds it between its test and its sleep
    disk,       \* what the disk holds, by block
    logged,     \* blocks the journal has logged and pinned, and not installed
    pc,         \* where each process is in get / read / drop
    want,       \* the block it asked for
    got,        \* the buffer it was given
    recycle,    \* whether that buffer was recycled for it
    halted,     \* why the machine stopped, if it did
    latest,     \* history: the version of each block that was last logged
    raced       \* history: get() has been overtaken (Overtaken, Unguarded)

list == <<lru, meta, index>>
lock == <<owner, slk>>
bufdata == <<blockno, valid, content>>
store == <<disk, logged, latest>>
guard == <<want, got, recycle>>
vars == <<list, refs, lock, bufdata, store, pc, guard, halted, raced>>

PCs == {"idle", "lock", "presleep", "sleep", "ref", "read", "held", "drop", "unref", "relse"}
Contents == Blocks \X {0, 1}

Init ==
    /\ lru = [i \in Bufs |-> i]
    /\ meta = [i \in Bufs |-> None]
    /\ index = [b \in Blocks |-> None]
    /\ refs = [i \in Bufs |-> 0]
    /\ owner = [i \in Bufs |-> None]
    /\ blockno = [i \in Bufs |-> None]
    /\ valid = [i \in Bufs |-> FALSE]
    /\ content = [i \in Bufs |-> None]
    /\ slk = [i \in Bufs |-> None]
    /\ disk = [b \in Blocks |-> <<b, 0>>]
    /\ logged = {}
    /\ pc = [p \in Procs |-> "idle"]
    /\ want = [p \in Procs |-> None]
    /\ got = [p \in Procs |-> None]
    /\ recycle = [p \in Procs |-> FALSE]
    /\ halted = "no"
    /\ latest = [b \in Blocks |-> 0]
    /\ raced = FALSE

Goto(p, l) == pc' = [pc EXCEPT ![p] = l]

\* Dropping a reference of the Arc.  With the last one, the list's own, the Arc
\* is freed while the buffer is linked, and nothing is known of what follows.
DropRef(i) ==
    /\ refs' = [refs EXCEPT ![i] = @ - 1]
    /\ halted' = IF refs[i] = 0 THEN "freed" ELSE halted

\* A mistake to be caught: a buffer with one reference passes for unused.
Unused_OffByOne == {k \in 1 .. Len(lru) : refs[lru[k]] <= 1}

Unused == {k \in 1 .. Len(lru) : refs[lru[k]] = 0}

\* _get on a miss: the least recently used buffer without a reference.
Victim == lru[CHOOSE k \in Unused : \A j \in Unused : j <= k]

\* Processes that were given buffer i by the lookup and are not counted yet.
Unguarded(i) ==
    {q \in Procs : got[q] = i /\ pc[q] \in {"lock", "presleep", "sleep", "ref"}}

\* A mistake to be caught: the recycled buffer's old entry stays in the index.
Get_KeepsOldEntry(p, b) ==
    /\ halted = "no"
    /\ pc[p] = "idle"
    /\ Unused # {}
    /\ LET i == IF index[b] # None THEN index[b] ELSE Victim
       IN  /\ recycle' = [recycle EXCEPT ![p] = index[b] = None]
           /\ got' = [got EXCEPT ![p] = i]
           /\ want' = [want EXCEPT ![p] = b]
           /\ index' = [index EXCEPT ![b] = i]
           /\ meta' = [meta EXCEPT ![i] = b]
           /\ Goto(p, "lock")
    /\ UNCHANGED <<lru, refs, lock, bufdata, store, halted, raced>>

\* The lookup of get(), with the list locked.
Get(p, b) ==
    /\ halted = "no"
    /\ pc[p] = "idle"
    /\ IF index[b] = None /\ Unused = {}
       THEN /\ halted' = "no buffers"
            /\ UNCHANGED <<list, guard, pc, raced>>
       ELSE LET i == IF index[b] # None THEN index[b] ELSE Victim
            IN  /\ recycle' = [recycle EXCEPT ![p] = index[b] = None]
                /\ got' = [got EXCEPT ![p] = i]
                /\ want' = [want EXCEPT ![p] = b]
                /\ index' = [c \in Blocks |->
                                CASE c = b -> i
                                  [] c # b /\ index[b] = None /\ meta[i] = c -> None
                                  [] OTHER -> index[c]]
                /\ meta' = [meta EXCEPT ![i] = b]
                /\ Goto(p, "lock")
                /\ raced' = (raced \/ (index[b] = None /\ Unguarded(i) # {}))
                /\ UNCHANGED <<lru, halted>>
    /\ UNCHANGED <<refs, lock, bufdata, store>>

\* p is about to lock a buffer that another process has recycled for p's block
\* and not labelled yet.
Overtaken(p) == ~recycle[p] /\ blockno[got[p]] # want[p]

\* What get() does once it has the lock: it labels a recycled buffer.
Locked(p, newvalid) ==
    /\ owner' = [owner EXCEPT ![got[p]] = p]
    /\ Goto(p, "ref")
    /\ valid' = IF recycle[p] THEN newvalid ELSE valid
    /\ blockno' = IF recycle[p] THEN [blockno EXCEPT ![got[p]] = want[p]] ELSE blockno
    /\ raced' = (raced \/ Overtaken(p))
    /\ UNCHANGED <<slk, content>>

Invalid(i) == [valid EXCEPT ![i] = FALSE]

LockOr(p, newvalid, newslk) ==
    /\ halted = "no"
    /\ pc[p] = "lock"
    /\ slk[got[p]] = None
    /\ IF owner[got[p]] # None
       THEN /\ slk' = [slk EXCEPT ![got[p]] = newslk]
            /\ Goto(p, "presleep")
            /\ UNCHANGED <<owner, bufdata, raced>>
       ELSE Locked(p, newvalid)
    /\ UNCHANGED <<list, refs, store, guard, halted>>

\* Mistakes to be caught: a locked buffer is taken; a recycled one keeps its data;
\* the spin lock is given up before the sleep.
Lock_IgnoresOwner(p) ==
    /\ halted = "no"
    /\ pc[p] = "lock"
    /\ slk[got[p]] = None
    /\ Locked(p, Invalid(got[p]))
    /\ UNCHANGED <<list, refs, store, guard, halted>>
Lock_KeepsValid(p) == LockOr(p, valid, p)
Lock_UnlocksEarly(p) == LockOr(p, Invalid(got[p]), None)

\* SleepLock::lock on the buffer: with lk held it finds the buffer free, or not
\* and is about to sleep.
Lock(p) == LockOr(p, Invalid(got[p]), p)

\* sleep() gives lk up as the process goes to sleep.
LockSleep(p) ==
    /\ halted = "no"
    /\ pc[p] = "presleep"
    /\ slk' = [slk EXCEPT ![got[p]] = None]
    /\ Goto(p, "sleep")
    /\ UNCHANGED <<list, refs, owner, bufdata, store, guard, halted, raced>>

\* get() makes the guard: only now is the buffer's reference counted.
TakeRef(p) ==
    /\ halted = "no"
    /\ pc[p] = "ref"
    /\ refs' = [refs EXCEPT ![got[p]] = @ + 1]
    /\ Goto(p, "read")
    /\ UNCHANGED <<list, lock, bufdata, store, guard, halted, raced>>

\* read(): a buffer without data is read from the disk.  A buffer that has never
\* been labelled asks for block 0, which is none of those in use.
ReadDisk(p) ==
    /\ halted = "no"
    /\ pc[p] = "read"
    /\ LET i == got[p]
       IN  /\ valid' = [valid EXCEPT ![i] = TRUE]
           /\ content' = IF valid[i] \/ blockno[i] = None
                         THEN content
                         ELSE [content EXCEPT ![i] = disk[blockno[i]]]
    /\ Goto(p, "held")
    /\ UNCHANGED <<list, refs, lock, blockno, store, guard, halted, raced>>

\* A mistake to be caught: an update that is absorbed pins the buffer again.
Update_PinsAgain(p) ==
    /\ halted = "no"
    /\ pc[p] = "held"
    /\ want[p] \in Updated
    /\ LET i == got[p]
           v == 1 - latest[want[p]]
       IN  /\ content' = [content EXCEPT ![i] = <<want[p], v>>]
           /\ latest' = [latest EXCEPT ![want[p]] = v]
           /\ refs' = [refs EXCEPT ![i] = @ + 1]
           /\ logged' = logged \cup {blockno[i]}
    /\ Goto(p, "drop")
    /\ UNCHANGED <<list, lock, blockno, valid, disk, guard, halted, raced>>

\* The holder changes its block and calls LOG.write, which pins the buffer unless
\* the block that the label says it is has been logged.
Update(p) ==
    /\ halted = "no"
    /\ pc[p] = "held"
    /\ want[p] \in Updated
    /\ LET i == got[p]
           v == 1 - latest[want[p]]
       IN  /\ content' = [content EXCEPT ![i] = <<want[p], v>>]
           /\ latest' = [latest EXCEPT ![want[p]] = v]
           /\ refs' = IF blockno[i] \in logged THEN refs ELSE [refs EXCEPT ![i] = @ + 1]
           /\ logged' = logged \cup {blockno[i]}
    /\ Goto(p, "drop")
    /\ UNCHANGED <<list, lock, blockno, valid, disk, guard, halted, raced>>

\* install_trans: BufGuard::write of a logged block, and unpin.  What it writes
\* is what write_log found in the buffer of that block.
Install(p) ==
    /\ halted = "no"
    /\ pc[p] = "held"
    /\ want[p] \in logged
    /\ LET i == got[p]
       IN  /\ disk' = IF blockno[i] = None THEN disk
                      ELSE [disk EXCEPT ![blockno[i]] = content[i]]
           /\ DropRef(i)
    /\ logged' = logged \ {want[p]}
    /\ Goto(p, "drop")
    /\ UNCHANGED <<list, lock, bufdata, latest, guard, raced>>

(***************************************************************************)
(* Drop of a BufGuard: unlock and wake those asleep on the lock, give the  *)
(* reference back, then relse with the list locked.                        *)
(***************************************************************************)
Unlock(p) ==
    /\ halted = "no"
    /\ pc[p] \in {"held", "drop"}
    /\ slk[got[p]] = None
    /\ owner' = [owner EXCEPT ![got[p]] = None]
    /\ pc' = [q \in Procs |->
                CASE q = p -> "unref"
                  [] pc[q] = "sleep" /\ got[q] = got[p] -> "lock"
                  [] OTHER -> pc[q]]
    /\ UNCHANGED <<list, refs, slk, bufdata, store, guard, halted, raced>>

Unref(p) ==
    /\ halted = "no"
    /\ pc[p] = "unref"
    /\ DropRef(got[p])
    /\ Goto(p, "relse")
    /\ UNCHANGED <<list, lock, bufdata, store, guard, raced>>

\* A mistake to be caught: the buffer is linked at the head and not unlinked.
Relse_LinksTwice(p) ==
    /\ halted = "no"
    /\ pc[p] = "relse"
    /\ lru' = <<got[p]>> \o lru
    /\ Goto(p, "idle")
    /\ UNCHANGED <<meta, index, refs, lock, bufdata, store, guard, halted, raced>>

Relse(p) ==
    /\ halted = "no"
    /\ pc[p] = "relse"
    /\ lru' = IF refs[got[p]] = 0
              THEN <<got[p]>> \o Remove(lru, got[p])
              ELSE lru
    /\ Goto(p, "idle")
    /\ want' = [want EXCEPT ![p] = None]
    /\ got' = [got EXCEPT ![p] = None]
    /\ recycle' = [recycle EXCEPT ![p] = FALSE]
    /\ UNCHANGED <<meta, index, refs, lock, bufdata, store, halted, raced>>

Step(p) ==
    \/ Lock(p)
    \/ LockSleep(p)
    \/ TakeRef(p)
    \/ ReadDisk(p)
    \/ Unlock(p)
    \/ Unref(p)
    \/ Relse(p)

Next ==
    \E p \in Procs :
        \/ Step(p)
        \/ Update(p)
        \/ Install(p)
        \/ \E b \in Blocks : Get(p, b)

Spec == Init /\ [][Next]_vars

\* A process the scheduler runs goes on with its get, read or drop, and gives
\* its buffer back ("do not keep them longer than necessary", bio.rs:12-13).
FairSpec == Spec /\ \A p \in Procs : WF_vars(Step(p))

-----------------------------------------------------------------------------
(***************************************************************************)
(* Type invariant: the list is always a permutation of the buffers.        *)
(***************************************************************************)
TypeOK ==
    /\ Len(lru) = NBUF /\ ToSet(lru) = Bufs
    /\ meta \in [Bufs -> Blocks \cup {None}]
    /\ index \in [Blocks -> Bufs \cup {None}]
    /\ refs \in [Bufs -> Int]
    /\ owner \in [Bufs -> Procs \cup {None}]
    /\ slk \in [Bufs -> Procs \cup {None}]
    /\ blockno \in [Bufs -> Blocks \cup {None}]
    /\ valid \in [Bufs -> BOOLEAN]
    /\ content \in [Bufs -> Contents \cup {None}]
    /\ disk \in [Blocks -> Contents \cup {None}]
    /\ logged \subseteq Blocks \cup {None}
    /\ latest \in [Blocks -> {0, 1}]
    /\ pc \in [Procs -> PCs]
    /\ want \in [Procs -> Blocks \cup {None}]
    /\ got \in [Procs -> Bufs \cup {None}]
    /\ recycle \in [Procs -> BOOLEAN]
    /\ halted \in {"no", "no buffers", "freed"}
    /\ raced \in BOOLEAN

(***************************************************************************)
(* "Return a locked buf with the contents of the indicated block."         *)
(* (bio.rs:353): whoever else looked it up, waited for it or recycled it,  *)
(* the buffer a process holds is locked by it and has the contents of the  *)
(* block the process asked for.                                            *)
(***************************************************************************)
ReadReturnsBlock ==
    \A p \in Procs :
        pc[p] = "held" =>
            /\ owner[got[p]] = p
            /\ blockno[got[p]] = want[p]
            /\ content[got[p]] = <<want[p], latest[want[p]]>>

(***************************************************************************)
(* "Only one process at a time can use a buffer" (bio.rs:12): from taking  *)
(* the sleep lock to dropping the guard the lock is this process's, which  *)
(* is what Drop's "drop - brelse" test relies on.                          *)
(***************************************************************************)
OneUserPerBuffer ==
    \A p \in Procs :
        pc[p] \in {"ref", "read", "held", "drop"} => owner[got[p]] = p

(***************************************************************************)
(* Between the lookup and the reference get() holds neither the list's     *)
(* lock nor a reference (bio.rs:338-348).  The two ways in which another   *)
(* process overtakes it there, Overtaken and Unguarded, are the only ones  *)
(* in which the cache fails: until one has happened, every count is that   *)
(* of the guards and of the journal's pin, so that no guard or unpin frees *)
(* what it does not own (bio.rs:245, 268), and a buffer is recycled only   *)
(* when nobody uses it.                                                    *)
(***************************************************************************)
Guards(i) == {p \in Procs : got[p] = i /\ pc[p] \in {"read", "held", "drop", "unref"}}
Pinned(i) == IF meta[i] \in logged THEN 1 ELSE 0

RefsBalanced == raced \/ \A i \in Bufs : refs[i] = Cardinality(Guards(i)) + Pinned(i)

(***************************************************************************)
(* Until get() has been overtaken no update is lost: a logged block is in  *)
(* the cache as it was last written, from LOG.write to install_trans, and  *)
(* any other block is on disk as it was last written (bio.rs:233-246,      *)
(* log.rs:260-262).                                                        *)
(***************************************************************************)
UpdatesKept ==
    raced \/
    \A b \in Blocks :
        IF b \in logged
        THEN /\ index[b] # None
             /\ valid[index[b]]
             /\ content[index[b]] = <<b, latest[b]>>
        ELSE disk[b] = <<b, latest[b]>>

(***************************************************************************)
(* The process a buffer was recycled for gets a buffer labelled with its   *)
(* own block (bio.rs:340-345), although others may have used it since the  *)
(* lookup, and until get() has been overtaken with that block's contents.  *)
(***************************************************************************)
RecyclerGetsBlock ==
    \A p \in Procs :
        pc[p] = "held" /\ recycle[p] =>
            /\ blockno[got[p]] = want[p]
            /\ raced \/ content[got[p]] = <<want[p], latest[want[p]]>>

(***************************************************************************)
(* The index names for each block the one buffer whose meta is that block, *)
(* through hits, misses and recycling (bio.rs:328-337).                    *)
(***************************************************************************)
IndexMatchesMeta ==
    \A b \in Blocks, i \in Bufs : index[b] = i <=> meta[i] = b

(***************************************************************************)
(* A process asleep on a buffer's lock is woken (sleeplock.rs:49-58 and    *)
(* 94-106): no release falls between its test of the lock and its sleep,   *)
(* however the holder's three steps of dropping interleave, unless the     *)
(* machine has stopped.                                                    *)
(***************************************************************************)
SleepersWake ==
    \A p \in Procs : (pc[p] = "sleep") ~> (pc[p] # "sleep" \/ halted # "no")
=============================================================================
