-------------------------------- MODULE Log --------------------------------
(***************************************************************************)
(* The journal of crates/kernel/src/log.rs: begin_op / LOG.write / end_op, *)
(* the group commit made by the last end_op, sync (fsync), and recovery at *)
(* boot.  Every disk write is a step of its own, and the machine may crash *)
(* between any two of them, during recovery too.                           *)
(*                                                                         *)
(* A block's contents are a member of Values; a disk write of one block is *)
(* atomic.  The buffer cache appears as the contents of the cached data    *)
(* blocks and the pins the log holds on them; an unpinned block may be     *)
(* recycled at any time.  Log and header blocks are written through, so    *)
(* only their contents on disk appear.                                     *)
(***************************************************************************)
EXTENDS Integers, Sequences, FiniteSets

CONSTANTS Procs,        \* processes that make file-system system calls
          Blocks,       \* data blocks of the disk
          Values,       \* contents of a block
          NoBuf,        \* "this block is not in the buffer cache"
          MAXOPBLOCKS,  \* param.rs: max # of blocks any FS op writes
          LOGSIZE,      \* param.rs: max data blocks in on-disk log
          NLog,         \* sb.nlog: blocks of the log area, its header included
          MaxCrashes    \* bound: crashes in a behaviour

ASSUME ProcsAssumption == IsFiniteSet(Procs)
ASSUME ValuesAssumption == NoBuf \notin Values
ASSUME SizesAssumption ==
    /\ MAXOPBLOCKS \in Nat \ {0}
    /\ LOGSIZE \in Nat
    /\ MAXOPBLOCKS <= LOGSIZE
    /\ NLog \in Nat
    /\ 2 <= NLog
    /\ MaxCrashes \in Nat

VARIABLES
    home,         \* disk: the data blocks
    logblk,       \* disk: the data blocks of the log area
    dhead,        \* disk: the log header, the first n entries of its block[]
    lh,           \* memory: Log.lh, the first n entries of its block[]
    outstanding,  \* memory: Log.outstanding
    committing,   \* memory: Log.committing
    cache,        \* memory: contents of the buffer that caches a block
    pins,         \* memory: references LOG.write holds on that buffer
    pc,           \* where each process is in the calls below
    tail,         \* tail of write_log / install_trans, by committing process
    wrote,        \* blocks a process has logged in its current operation
    mode,         \* where the machine is: recovering, up, or panicked
    rtail,        \* tail of install_trans during recovery
    panic,        \* the message of the panic that stopped the machine
    crashes       \* crashes so far (bounded by MaxCrashes)

disk == <<home, logblk, dhead>>
logv == <<lh, outstanding, committing>>
bufs == <<cache, pins>>
locals == <<pc, tail, wrote>>
boot == <<mode, rtail, panic, crashes>>
vars == <<home, logblk, dhead, lh, outstanding, committing, cache, pins,
          pc, tail, wrote, mode, rtail, panic, crashes>>

LogBlocks == 1 .. NLog - 1

CommitPCs == {"write_log", "write_head", "install", "clear", "commit_done"}
PCs == {"idle", "begin", "begin_sleep", "op", "sync", "sync_sleep"}
         \cup CommitPCs
Modes == {"read_head", "recover_install", "recover_clear", "up", "panicked"}
Panics == {"none", "too big a transaction", "too big, absorbed",
           "log.committing"}

Logged(b) == \E i \in 1 .. Len(lh) : lh[i] = b

\* What BCACHE.read(b) finds: the cached contents, or those on disk.
Contents(b) == IF cache[b] = NoBuf THEN home[b] ELSE cache[b]

\* wakeup(&LOG): everyone asleep in begin_op or sync goes back to its test.
Wakeup(f) ==
    [p \in Procs |-> CASE f[p] = "begin_sleep" -> "begin"
                       [] f[p] = "sync_sleep" -> "sync"
                       [] OTHER -> f[p]]

(***************************************************************************)
(* Power on, with the disk mkfs makes: an empty header, a blank log.       *)
(***************************************************************************)
Init ==
    /\ home \in [Blocks -> Values]
    /\ \E v \in Values : logblk = [i \in LogBlocks |-> v]
    /\ dhead = <<>>
    /\ lh = <<>>
    /\ outstanding = 0
    /\ committing = FALSE
    /\ cache = [b \in Blocks |-> NoBuf]
    /\ pins = [b \in Blocks |-> 0]
    /\ pc = [p \in Procs |-> "idle"]
    /\ tail = [p \in Procs |-> 0]
    /\ wrote = [p \in Procs |-> {}]
    /\ mode = "read_head"
    /\ rtail = 0
    /\ panic = "none"
    /\ crashes = 0

Up == mode = "up"

Goto(p, l) == pc' = [pc EXCEPT ![p] = l]

(***************************************************************************)
(* begin_op.  The call, and the test made with LOG locked: it sleeps while *)
(* a commit runs or while this operation could exhaust the log.            *)
(***************************************************************************)
BeginCall(p) ==
    /\ Up
    /\ pc[p] = "idle"
    /\ Goto(p, "begin")
    /\ UNCHANGED <<disk, logv, bufs, tail, wrote, boot>>

\* Mutants of MustWait: a commit in progress is ignored; this operation's own
\* share is left out of the reservation.
MustWait_IgnoresCommit == Len(lh) + (outstanding + 1) * MAXOPBLOCKS > LOGSIZE
MustWait_OwnShareForgotten ==
    committing \/ Len(lh) + outstanding * MAXOPBLOCKS > LOGSIZE

MustWait == committing \/ Len(lh) + (outstanding + 1) * MAXOPBLOCKS > LOGSIZE

\* Mutant: the operation is admitted and not counted.
BeginOp_NotCounted(p) ==
    /\ Up
    /\ pc[p] = "begin"
    /\ Goto(p, IF MustWait THEN "begin_sleep" ELSE "op")
    /\ UNCHANGED <<disk, logv, bufs, tail, wrote, boot>>

BeginOp(p) ==
    /\ Up
    /\ pc[p] = "begin"
    /\ IF MustWait
       THEN Goto(p, "begin_sleep") /\ UNCHANGED outstanding
       ELSE Goto(p, "op") /\ outstanding' = outstanding + 1
    /\ UNCHANGED <<disk, lh, committing, bufs, tail, wrote, boot>>

(***************************************************************************)
(* bp = BCACHE.read(b); modify bp; LOG.write(bp), under b's sleep lock.    *)
(* The caller's part of the contract is the comment on MAXOPBLOCKS: an     *)
(* operation logs at most that many different blocks.  A full log panics   *)
(* before the search for an entry to absorb the write.                     *)
(***************************************************************************)
LogFull == Len(lh) >= LOGSIZE \/ Len(lh) >= NLog - 1

\* Mutant: an absorbed write pins the buffer once more.
LogWrite_PinsAgain(p, b, v) ==
    /\ Up
    /\ pc[p] = "op"
    /\ Cardinality(wrote[p] \cup {b}) <= MAXOPBLOCKS
    /\ ~LogFull
    /\ cache' = [cache EXCEPT ![b] = v]
    /\ wrote' = [wrote EXCEPT ![p] = @ \cup {b}]
    /\ lh' = IF Logged(b) THEN lh ELSE Append(lh, b)
    /\ pins' = [pins EXCEPT ![b] = @ + 1]
    /\ UNCHANGED <<disk, outstanding, committing, pc, tail, boot>>

LogWrite(p, b, v) ==
    /\ Up
    /\ pc[p] = "op"
    /\ Cardinality(wrote[p] \cup {b}) <= MAXOPBLOCKS
    /\ cache' = [cache EXCEPT ![b] = v]
    /\ IF LogFull
       THEN /\ mode' = "panicked"
            /\ panic' = IF Logged(b) THEN "too big, absorbed"
                                     ELSE "too big a transaction"
            /\ UNCHANGED <<lh, pins, wrote>>
       ELSE /\ wrote' = [wrote EXCEPT ![p] = @ \cup {b}]
            /\ IF Logged(b)
               THEN UNCHANGED <<lh, pins>>
               ELSE /\ lh' = Append(lh, b)
                    /\ pins' = [pins EXCEPT ![b] = @ + 1]
            /\ UNCHANGED <<mode, panic>>
    /\ UNCHANGED <<disk, outstanding, committing, pc, tail, rtail, crashes>>

(***************************************************************************)
(* The buffer cache under the log: reading a block caches it, and only an  *)
(* unpinned buffer is ever recycled (bio.rs, _get).                        *)
(***************************************************************************)
ReadBlock(p, b) ==
    /\ Up
    /\ pc[p] = "op"
    /\ cache[b] = NoBuf
    /\ cache' = [cache EXCEPT ![b] = home[b]]
    /\ UNCHANGED <<disk, logv, pins, locals, boot>>

Recycle(b) ==
    /\ Up
    /\ cache[b] # NoBuf
    /\ pins[b] = 0
    /\ cache' = [cache EXCEPT ![b] = NoBuf]
    /\ UNCHANGED <<disk, logv, pins, locals, boot>>

\* Mutants: a transaction of one block is taken for an empty one; the header
\* is written before the log blocks.
CommitEntry_OffByOne == IF Len(lh) > 1 THEN "write_log" ELSE "commit_done"
CommitEntry_HeadFirst == IF Len(lh) > 0 THEN "write_head" ELSE "commit_done"

\* Where commit() starts: with nothing logged it has nothing to do.
CommitEntry == IF Len(lh) > 0 THEN "write_log" ELSE "commit_done"

(***************************************************************************)
(* end_op: the last operation takes the commit upon itself; any other one  *)
(* has given up reserved space, and wakes those that wait for it.          *)
(***************************************************************************)
EndOp(p) ==
    /\ Up
    /\ pc[p] = "op"
    /\ outstanding' = outstanding - 1
    /\ wrote' = [wrote EXCEPT ![p] = {}]
    /\ IF committing
       THEN /\ mode' = "panicked"
            /\ panic' = "log.committing"
            /\ UNCHANGED <<committing, pc>>
       ELSE /\ IF outstanding = 1
               THEN committing' = TRUE /\ Goto(p, CommitEntry)
               ELSE /\ pc' = Wakeup([pc EXCEPT ![p] = "idle"])
                    /\ UNCHANGED committing
            /\ UNCHANGED <<mode, panic>>
    /\ UNCHANGED <<disk, lh, bufs, tail, rtail, crashes>>

(***************************************************************************)
(* commit(), made without the lock of LOG, one disk write per step.        *)
(***************************************************************************)
Advance(p, next) ==
    IF tail[p] + 1 = Len(lh)
    THEN /\ Goto(p, next)
         /\ tail' = [tail EXCEPT ![p] = 0]
    ELSE /\ tail' = [tail EXCEPT ![p] = @ + 1]
         /\ UNCHANGED pc

\* write_log: copy the next modified block from the cache to the log.
WriteLog(p) ==
    /\ Up
    /\ pc[p] = "write_log"
    /\ LET i == tail[p] + 1
           b == lh[i]
       IN  /\ logblk' = [logblk EXCEPT ![i] = Contents(b)]
           /\ cache' = [cache EXCEPT ![b] = Contents(b)]
    /\ Advance(p, "write_head")
    /\ UNCHANGED <<home, dhead, logv, pins, wrote, boot>>

\* write_head: the true point at which the transaction commits.
WriteHead(p) ==
    /\ Up
    /\ pc[p] = "write_head"
    /\ dhead' = lh
    /\ Goto(p, "install")
    /\ UNCHANGED <<home, logblk, logv, bufs, tail, wrote, boot>>

\* Mutant: the buffer is unpinned twice.
Install_UnpinsTwice(p) ==
    /\ Up
    /\ pc[p] = "install"
    /\ LET i == tail[p] + 1
           b == lh[i]
       IN  /\ home' = [home EXCEPT ![b] = logblk[i]]
           /\ cache' = [cache EXCEPT ![b] = logblk[i]]
           /\ pins' = [pins EXCEPT ![b] = @ - 2]
    /\ Advance(p, "clear")
    /\ lh' = IF tail[p] + 1 = Len(lh) THEN <<>> ELSE lh
    /\ UNCHANGED <<logblk, dhead, outstanding, committing, wrote, boot>>

\* install_trans(false): copy the next log block home, and unpin its buffer.
\* After the last one commit() empties the header in memory.
Install(p) ==
    /\ Up
    /\ pc[p] = "install"
    /\ LET i == tail[p] + 1
           b == lh[i]
       IN  /\ home' = [home EXCEPT ![b] = logblk[i]]
           /\ cache' = [cache EXCEPT ![b] = logblk[i]]
           /\ pins' = [pins EXCEPT ![b] = @ - 1]
    /\ Advance(p, "clear")
    /\ lh' = IF tail[p] + 1 = Len(lh) THEN <<>> ELSE lh
    /\ UNCHANGED <<logblk, dhead, outstanding, committing, wrote, boot>>

\* write_head with n = 0: erase the transaction from the log.
ClearHead(p) ==
    /\ Up
    /\ pc[p] = "clear"
    /\ dhead' = lh
    /\ Goto(p, "commit_done")
    /\ UNCHANGED <<home, logblk, logv, bufs, tail, wrote, boot>>

\* Mutant: those that wait for the commit are not woken.
CommitDone_NoWakeup(p) ==
    /\ Up
    /\ pc[p] = "commit_done"
    /\ committing' = FALSE
    /\ Goto(p, "idle")
    /\ UNCHANGED <<disk, lh, outstanding, bufs, tail, wrote, boot>>

CommitDone(p) ==
    /\ Up
    /\ pc[p] = "commit_done"
    /\ committing' = FALSE
    /\ pc' = Wakeup([pc EXCEPT ![p] = "idle"])
    /\ UNCHANGED <<disk, lh, outstanding, bufs, tail, wrote, boot>>

(***************************************************************************)
(* sync: fsync waits for a moment with no operation and no commit, and     *)
(* commits what is then still logged.                                      *)
(***************************************************************************)
SyncCall(p) ==
    /\ Up
    /\ pc[p] = "idle"
    /\ Goto(p, "sync")
    /\ UNCHANGED <<disk, logv, bufs, tail, wrote, boot>>

Sync(p) ==
    /\ Up
    /\ pc[p] = "sync"
    /\ IF committing \/ outstanding > 0
       THEN Goto(p, "sync_sleep") /\ UNCHANGED committing
       ELSE IF Len(lh) = 0
            THEN Goto(p, "idle") /\ UNCHANGED committing
            ELSE Goto(p, CommitEntry) /\ committing' = TRUE
    /\ UNCHANGED <<disk, lh, outstanding, bufs, tail, wrote, boot>>

(***************************************************************************)
(* Log::new at boot: read the header, install a committed transaction, and *)
(* clear the header.  No process runs before it is done.                   *)
(***************************************************************************)
ReadHead ==
    /\ mode = "read_head"
    /\ lh' = dhead
    /\ mode' = IF Len(dhead) > 0 THEN "recover_install" ELSE "recover_clear"
    /\ UNCHANGED <<disk, outstanding, committing, bufs, locals, rtail,
                   panic, crashes>>

\* Mutant: the last block is not installed.
RecoverInstall_SkipsLast ==
    /\ mode = "recover_install"
    /\ IF rtail + 1 = Len(lh)
       THEN /\ mode' = "recover_clear" /\ rtail' = 0 /\ lh' = <<>>
            /\ UNCHANGED <<home, cache>>
       ELSE /\ home' = [home EXCEPT ![lh[rtail + 1]] = logblk[rtail + 1]]
            /\ cache' = [cache EXCEPT ![lh[rtail + 1]] = logblk[rtail + 1]]
            /\ rtail' = rtail + 1
            /\ UNCHANGED <<mode, lh>>
    /\ UNCHANGED <<logblk, dhead, outstanding, committing, pins, locals,
                   panic, crashes>>

RecoverInstall ==
    /\ mode = "recover_install"
    /\ LET i == rtail + 1
           b == lh[i]
       IN  /\ home' = [home EXCEPT ![b] = logblk[i]]
           /\ cache' = [cache EXCEPT ![b] = logblk[i]]
    /\ IF rtail + 1 = Len(lh)
       THEN mode' = "recover_clear" /\ rtail' = 0 /\ lh' = <<>>
       ELSE rtail' = rtail + 1 /\ UNCHANGED <<mode, lh>>
    /\ UNCHANGED <<logblk, dhead, outstanding, committing, pins, locals,
                   panic, crashes>>

RecoverClear ==
    /\ mode = "recover_clear"
    /\ dhead' = lh
    /\ mode' = "up"
    /\ UNCHANGED <<home, logblk, logv, bufs, locals, rtail, panic, crashes>>

\* Power loss, or the restart of a panicked machine (crash_if_armed is the
\* case of a crash just after write_head).  Memory is lost.
Crash ==
    /\ crashes < MaxCrashes
    /\ crashes' = crashes + 1
    /\ lh' = <<>>
    /\ outstanding' = 0
    /\ committing' = FALSE
    /\ cache' = [b \in Blocks |-> NoBuf]
    /\ pins' = [b \in Blocks |-> 0]
    /\ pc' = [p \in Procs |-> "idle"]
    /\ tail' = [p \in Procs |-> 0]
    /\ wrote' = [p \in Procs |-> {}]
    /\ mode' = "read_head"
    /\ rtail' = 0
    /\ panic' = "none"
    /\ UNCHANGED disk

Step(p) ==
    \/ BeginOp(p)
    \/ EndOp(p)
    \/ WriteLog(p)
    \/ WriteHead(p)
    \/ Install(p)
    \/ ClearHead(p)
    \/ CommitDone(p)
    \/ Sync(p)

Next ==
    \/ \E p \in Procs :
          \/ Step(p)
          \/ BeginCall(p)
          \/ SyncCall(p)
          \/ \E b \in Blocks : ReadBlock(p, b)
          \/ \E b \in Blocks, v \in Values : LogWrite(p, b, v)
    \/ \E b \in Blocks : Recycle(b)
    \/ ReadHead
    \/ RecoverInstall
    \/ RecoverClear
    \/ Crash

Spec == Init /\ [][Next]_vars

(***************************************************************************)
(* A process the scheduler runs goes on with its call: it tests its        *)
(* condition again after a wakeup, ends the operation it began and         *)
(* finishes its commit.  Boot goes on too.  Nothing makes a process start  *)
(* a call, and nothing makes the machine crash.                            *)
(***************************************************************************)
Fairness ==
    /\ \A p \in Procs : WF_vars(Step(p))
    /\ WF_vars(ReadHead)
    /\ WF_vars(RecoverInstall)
    /\ WF_vars(RecoverClear)

FairSpec == Spec /\ Fairness

-----------------------------------------------------------------------------
InOp == {p \in Procs : pc[p] = "op"}

Committers == {p \in Procs : pc[p] \in CommitPCs}

\* The log entries whose buffers commit() has already unpinned.
Installed == {i \in 1 .. Len(lh) :
                 \E p \in Procs : pc[p] = "install" /\ i <= tail[p]}

\* One token for every block an operation in progress may still add.
Reserved == {r \in InOp \X (1 .. MAXOPBLOCKS) :
                r[2] > Cardinality(wrote[r[1]])}

\* What a crash at this instant would leave after recovery: the blocks of a
\* committed transaction come from the log, the others from their home.
Survives ==
    [b \in Blocks |->
        IF \E i \in 1 .. Len(dhead) : dhead[i] = b
        THEN logblk[CHOOSE i \in 1 .. Len(dhead) : dhead[i] = b]
        ELSE home[b]]

\* What an operation that reads a block gets.
Visible ==
    IF mode \in {"up", "panicked"} THEN [b \in Blocks |-> Contents(b)]
                                   ELSE Survives

NoDuplicates(s) == \A i, j \in 1 .. Len(s) : s[i] = s[j] => i = j

(***************************************************************************)
(* Type invariant of the journal's memory and disk state.                  *)
(***************************************************************************)
TypeOK ==
    /\ home \in [Blocks -> Values]
    /\ logblk \in [LogBlocks -> Values]
    /\ dhead \in Seq(Blocks)
    /\ lh \in Seq(Blocks)
    /\ outstanding \in Nat
    /\ committing \in BOOLEAN
    /\ cache \in [Blocks -> Values \cup {NoBuf}]
    /\ pins \in [Blocks -> Nat]
    /\ pc \in [Procs -> PCs]
    /\ tail \in [Procs -> Nat]
    /\ wrote \in [Procs -> SUBSET Blocks]
    /\ mode \in Modes
    /\ rtail \in Nat
    /\ panic \in Panics
    /\ crashes \in 0 .. MaxCrashes

(***************************************************************************)
(* Log.outstanding counts the system calls between begin_op and end_op     *)
(* (log.rs:22-24), whatever they interleave with.                          *)
(***************************************************************************)
OutstandingCounts == outstanding = Cardinality(InOp)

(***************************************************************************)
(* "The logging system only commits when there are no FS system calls      *)
(* active" (log.rs:17-18): committing is set exactly while a process is in *)
(* commit(), there is never a second one, and no operation is open then.   *)
(* commit() runs without the lock of LOG and relies on this.               *)
(***************************************************************************)
CommitExclusive ==
    /\ \A p, q \in Committers : p = q
    /\ committing <=> Committers # {}
    /\ committing => InOp = {}

(***************************************************************************)
(* The reservation made by begin_op (log.rs:186-188) is enough: the logged *)
(* blocks, and all those the operations in progress may still add, fit     *)
(* into LOGSIZE entries.  Absorption and blocks that several operations    *)
(* share only make room.                                                   *)
(***************************************************************************)
SpaceReserved == Len(lh) + Cardinality(Reserved) <= LOGSIZE

(***************************************************************************)
(* With no operation and no commit in progress nothing is left in the log: *)
(* sync never finds anything to commit (log.rs:242), so an fsync that gets *)
(* past its loop means that every operation ended before is on disk.       *)
(***************************************************************************)
IdleLogEmpty ==
    mode = "up" /\ outstanding = 0 /\ ~committing => lh = <<>>

(***************************************************************************)
(* The log holds one reference on the buffer of each block it will write   *)
(* home, from LOG.write (log.rs:285) to install_trans (log.rs:146), and    *)
(* none on any other: no logged update can be recycled, no buffer leaks.   *)
(***************************************************************************)
PinsMatchLog ==
    mode = "up" =>
        \A b \in Blocks :
            pins[b] = IF \E i \in (1 .. Len(lh)) \ Installed : lh[i] = b
                      THEN 1 ELSE 0

(***************************************************************************)
(* An operation that keeps to MAXOPBLOCKS blocks and adds a new one never  *)
(* meets the panic of log.rs:270, which begin_op is there to prevent       *)
(* ("this op might exhaust log space; wait for commit.", log.rs:188).      *)
(***************************************************************************)
NoOverflowPanic == panic # "too big a transaction"

(***************************************************************************)
(* Writing a block that is logged already adds no entry ("log absorption", *)
(* log.rs:279), so an operation that begin_op admitted and that keeps to   *)
(* MAXOPBLOCKS different blocks is not stopped for it, however full the    *)
(* log is (log.rs:270).                                                    *)
(***************************************************************************)
NoAbsorptionPanic == panic # "too big, absorbed"

(***************************************************************************)
(* end_op never finds a commit in progress (the panic of log.rs:207).      *)
(***************************************************************************)
NoCommittingPanic == panic # "log.committing"

(***************************************************************************)
(* "This is the true point at which the current transaction commits"       *)
(* (log.rs:119): no step but the header write of commit() changes what a   *)
(* crash leaves.  Filling the log, installing, clearing the header,        *)
(* crashing and recovering, however often, never do.                       *)
(***************************************************************************)
DurableAtHeaderWrite ==
    [][Survives' # Survives => \E p \in Procs : WriteHead(p)]_vars

\* The journal implements the disk of TxnDisk.
Txn == INSTANCE TxnDisk WITH
           cur <- Visible,
           durable <- Survives,
           inop <- InOp,
           syncing <- {p \in Procs : pc[p] \in {"sync", "sync_sleep"}}

(***************************************************************************)
(* Operations are atomic with respect to crashes: log.rs implements the    *)
(* transactional disk, with Survives as its durable contents.  Whatever    *)
(* the interleaving and wherever the crashes, a commit makes every         *)
(* finished operation durable at once and no unfinished one, recovery      *)
(* gives back exactly that, a recycled buffer loses nothing, and fsync     *)
(* returns only when all that was written is durable.                      *)
(***************************************************************************)
TxnRefinement == Txn!Spec

(***************************************************************************)
(* No wakeup is lost: whoever sleeps in begin_op or sync is woken to test  *)
(* its condition again (log.rs:213-216, 227-228, 256-257), or the machine  *)
(* crashes.                                                                *)
(***************************************************************************)
SleepersWake ==
    \A p \in Procs :
        (pc[p] \in {"begin_sleep", "sync_sleep"})
            ~> (pc[p] \notin {"begin_sleep", "sync_sleep"})

(***************************************************************************)
(* fsync and the commit it waits for come to an end once no new operation  *)
(* starts.  (While operations keep overlapping, sync may wait for ever:    *)
(* log.rs:236 asks for a moment with none outstanding.)                    *)
(***************************************************************************)
SyncReturns ==
    \A p \in Procs :
        (<>[][\A q \in Procs : ~BeginCall(q)]_vars)
            => ((pc[p] = "sync") ~> (pc[p] = "idle"))
=============================================================================
