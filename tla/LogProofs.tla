----------------------------- MODULE LogProofs -----------------------------
(***************************************************************************)
(* Proofs, for any number of processes, blocks and contents and for any    *)
(* LOGSIZE, MAXOPBLOCKS and log area, that the journal of Log.tla keeps    *)
(* its invariants: commits are exclusive, the space begin_op reserves is   *)
(* enough, the pins match the log, and end_op never meets its panic.       *)
(***************************************************************************)
EXTENDS Log, TLAPS, FiniteSetTheorems

-----------------------------------------------------------------------------
(***************************************************************************)
(* The inductive invariant: what the runs check, and the facts about       *)
(* commit(), recovery and the callers that make it inductive.              *)
(***************************************************************************)
BootModes == {"read_head", "recover_install", "recover_clear"}

LoopBounds ==
    /\ Len(lh) <= NLog - 1
    /\ Len(dhead) <= NLog - 1
    /\ Len(dhead) <= LOGSIZE
    /\ \A p \in Procs :
          pc[p] \in {"write_log", "write_head", "install"} => tail[p] < Len(lh)
    /\ \A p \in Procs :
          pc[p] \notin {"write_log", "install"} => tail[p] = 0
    /\ mode = "recover_install" => rtail < Len(lh)
    /\ mode # "recover_install" => rtail = 0

LogShape ==
    /\ NoDuplicates(lh)
    /\ NoDuplicates(dhead)
    /\ \A p \in Procs : pc[p] \in {"clear", "commit_done"} => lh = <<>>
    /\ IdleLogEmpty

WroteLogged ==
    \A p \in Procs :
        /\ IsFiniteSet(wrote[p])
        /\ pc[p] = "op" => \A b \in wrote[p] : Logged(b)
        /\ pc[p] # "op" => wrote[p] = {}

BootQuiet ==
    mode \in BootModes =>
        /\ pc = [p \in Procs |-> "idle"]
        /\ outstanding = 0
        /\ committing = FALSE
        /\ pins = [b \in Blocks |-> 0]
        /\ mode # "recover_install" => lh = <<>>
        /\ mode = "recover_install" => lh = dhead

PanicReasons ==
    /\ NoCommittingPanic
    /\ NLog > LOGSIZE => NoOverflowPanic

LogInv ==
    /\ TypeOK
    /\ LoopBounds
    /\ OutstandingCounts
    /\ CommitExclusive
    /\ SpaceReserved
    /\ LogShape
    /\ WroteLogged
    /\ PinsMatchLog
    /\ BootQuiet
    /\ PanicReasons

-----------------------------------------------------------------------------
\* The program counters that the invariant tells apart.
Busy == CommitPCs \cup {"op"}

LEMMA WakeupFacts ==
  ASSUME NEW f \in [Procs -> PCs]
  PROVE  /\ Wakeup(f) \in [Procs -> PCs]
         /\ \A p \in Procs : \/ Wakeup(f)[p] = f[p]
                             \/ f[p] \notin Busy /\ Wakeup(f)[p] \notin Busy
  BY DEF Wakeup, PCs, CommitPCs, Busy

LEMMA AppendFacts ==
  ASSUME NEW S, NEW s \in Seq(S), NEW x \in S
  PROVE  /\ Append(s, x) \in Seq(S)
         /\ Len(Append(s, x)) = Len(s) + 1
         /\ \A i \in 1 .. Len(s) : Append(s, x)[i] = s[i]
         /\ Append(s, x)[Len(s) + 1] = x
  OBVIOUS

\* The sets of operations and of reserved entries are finite.
OpsBounded ==
    /\ IsFiniteSet(InOp) /\ Cardinality(InOp) \in Nat
    /\ IsFiniteSet(Reserved) /\ Cardinality(Reserved) \in Nat
    /\ Cardinality(Reserved) <= Cardinality(InOp) * MAXOPBLOCKS

LEMMA OpsFinite == TypeOK => OpsBounded
<1>1. InOp \in SUBSET Procs
  BY DEF InOp
<1>2. IsFiniteSet(InOp) /\ Cardinality(InOp) \in Nat
  BY <1>1, ProcsAssumption, FS_Subset, FS_CardinalityType
<1>3. IsFiniteSet(1 .. MAXOPBLOCKS) /\ Cardinality(1 .. MAXOPBLOCKS) = MAXOPBLOCKS
  BY SizesAssumption, FS_Interval
<1>4. /\ IsFiniteSet(InOp \X (1 .. MAXOPBLOCKS))
      /\ Cardinality(InOp \X (1 .. MAXOPBLOCKS)) = Cardinality(InOp) * MAXOPBLOCKS
  BY <1>2, <1>3, FS_Product
<1>5. Reserved \in SUBSET (InOp \X (1 .. MAXOPBLOCKS))
  BY DEF Reserved
<1>6. /\ IsFiniteSet(Reserved) /\ Cardinality(Reserved) \in Nat
      /\ Cardinality(Reserved) <= Cardinality(InOp \X (1 .. MAXOPBLOCKS))
  BY <1>4, <1>5, FS_Subset, FS_CardinalityType
<1> QED
  BY <1>2, <1>4, <1>6 DEF OpsBounded

LEMMA InitInv == Init => LogInv
<1> SUFFICES ASSUME Init PROVE LogInv
  OBVIOUS
<1>1. TypeOK
  <2>1. logblk \in [LogBlocks -> Values]
    BY DEF Init
  <2>2. dhead \in Seq(Blocks) /\ lh \in Seq(Blocks)
    BY DEF Init
  <2>3. cache \in [Blocks -> Values \cup {NoBuf}] /\ pins \in [Blocks -> Nat]
    BY DEF Init
  <2>4. /\ pc \in [Procs -> PCs]
        /\ tail \in [Procs -> Nat]
        /\ wrote \in [Procs -> SUBSET Blocks]
    BY DEF Init, PCs
  <2>5. mode \in Modes /\ panic \in Panics /\ crashes \in 0 .. MaxCrashes
    BY SizesAssumption DEF Init, Modes, Panics
  <2> QED
    BY <2>1, <2>2, <2>3, <2>4, <2>5 DEF Init, TypeOK
<1>2. LoopBounds
  BY SizesAssumption DEF Init, LoopBounds
<1>3. InOp = {} /\ Reserved = {} /\ Committers = {}
  BY DEF Init, InOp, Reserved, Committers, CommitPCs
<1>4. OutstandingCounts /\ CommitExclusive /\ SpaceReserved
  BY <1>3, FS_EmptySet, SizesAssumption
  DEF Init, OutstandingCounts, CommitExclusive, SpaceReserved
<1>5. LogShape /\ PinsMatchLog /\ BootQuiet /\ PanicReasons
  BY DEF Init, LogShape, PinsMatchLog, BootQuiet, PanicReasons, NoDuplicates,
         IdleLogEmpty, NoCommittingPanic, NoOverflowPanic
<1>6. WroteLogged
  BY FS_EmptySet DEF Init, WroteLogged
<1> QED
  BY <1>1, <1>2, <1>4, <1>5, <1>6 DEF LogInv

(***************************************************************************)
(* A step that only moves processes between calls, to or from sleep: it    *)
(* leaves the operations and the commit in progress alone.                 *)
(***************************************************************************)
LEMMA PcOnly ==
  ASSUME LogInv, Up, pc' \in [Procs -> PCs],
         UNCHANGED <<disk, logv, bufs, tail, wrote, boot>>,
         \A q \in Procs : \/ pc'[q] = pc[q]
                          \/ pc[q] \notin Busy /\ pc'[q] \notin Busy
  PROVE  LogInv'
<1>1. TypeOK'
  BY DEF LogInv, TypeOK, disk, logv, bufs, boot
<1>2. LoopBounds'
  BY DEF LogInv, LoopBounds, TypeOK, disk, logv, bufs, boot, Busy, CommitPCs
<1>3. InOp' = InOp /\ Committers' = Committers
  BY DEF InOp, Committers, Busy, CommitPCs
<1>4. Reserved' = Reserved
  BY <1>3 DEF Reserved
<1>5. OutstandingCounts' /\ SpaceReserved'
  BY <1>3, <1>4 DEF LogInv, OutstandingCounts, SpaceReserved, logv
<1>6. CommitExclusive'
  BY <1>3 DEF LogInv, CommitExclusive, logv
<1>7. LogShape'
  BY DEF LogInv, LogShape, NoDuplicates, IdleLogEmpty, Busy, CommitPCs,
         disk, logv, boot
<1>8. WroteLogged'
  BY DEF LogInv, WroteLogged, Logged, Busy, logv
<1>9. Installed' = Installed
  BY DEF Installed, Busy, CommitPCs, logv
<1>10. PinsMatchLog'
  BY <1>9 DEF LogInv, PinsMatchLog, logv, bufs, boot
<1>11. BootQuiet' /\ PanicReasons'
  BY DEF LogInv, BootQuiet, BootModes, PanicReasons, NoCommittingPanic,
         NoOverflowPanic, Up, boot
<1> QED
  BY <1>1, <1>2, <1>5, <1>6, <1>7, <1>8, <1>10, <1>11 DEF LogInv

\* A process that changes calls without touching the log.
LEMMA GotoIsPcOnly ==
  ASSUME LogInv, NEW p \in Procs, pc[p] \notin Busy,
         NEW l \in PCs \ Busy, Goto(p, l), Up,
         UNCHANGED <<disk, logv, bufs, tail, wrote, boot>>
  PROVE  LogInv'
<1>1. pc' \in [Procs -> PCs]
  BY DEF LogInv, TypeOK, Goto
<1>2. \A q \in Procs : \/ pc'[q] = pc[q]
                       \/ pc[q] \notin Busy /\ pc'[q] \notin Busy
  BY DEF LogInv, TypeOK, Goto
<1> QED
  BY <1>1, <1>2, PcOnly

LEMMA BeginCallInv ==
  ASSUME LogInv, NEW p \in Procs, BeginCall(p)
  PROVE  LogInv'
<1>1. pc[p] \notin Busy /\ "begin" \in PCs \ Busy
  BY DEF BeginCall, Busy, CommitPCs, PCs
<1> QED
  BY <1>1, GotoIsPcOnly DEF BeginCall

LEMMA SyncCallInv ==
  ASSUME LogInv, NEW p \in Procs, SyncCall(p)
  PROVE  LogInv'
<1>1. pc[p] \notin Busy /\ "sync" \in PCs \ Busy
  BY DEF SyncCall, Busy, CommitPCs, PCs
<1> QED
  BY <1>1, GotoIsPcOnly DEF SyncCall

\* sync never commits: what it would commit is always gone (IdleLogEmpty).
LEMMA SyncInv ==
  ASSUME LogInv, NEW p \in Procs, Sync(p)
  PROVE  LogInv'
<1>1. /\ pc[p] \notin Busy
      /\ "sync_sleep" \in PCs \ Busy
      /\ "idle" \in PCs \ Busy
  BY DEF Sync, Busy, CommitPCs, PCs
<1>2. ~committing /\ ~(outstanding > 0) => Len(lh) = 0
  BY DEF Sync, Up, LogInv, LogShape, IdleLogEmpty, TypeOK
<1>3. UNCHANGED committing
  BY <1>2 DEF Sync
<1>4. Goto(p, "sync_sleep") \/ Goto(p, "idle")
  BY <1>2 DEF Sync
<1>5. UNCHANGED <<disk, logv, bufs, tail, wrote, boot>> /\ Up
  BY <1>3 DEF Sync, logv
<1> QED
  BY <1>1, <1>4, <1>5, GotoIsPcOnly

\* An operation is admitted: the guard of begin_op leaves room for all that
\* the operations in progress, this one included, may still log.
LEMMA BeginOpInv ==
  ASSUME LogInv, NEW p \in Procs, BeginOp(p)
  PROVE  LogInv'
<1>1. CASE MustWait
  <2>1. pc[p] \notin Busy /\ "begin_sleep" \in PCs \ Busy
    BY DEF BeginOp, Busy, CommitPCs, PCs
  <2>2. UNCHANGED <<disk, logv, bufs, tail, wrote, boot>>
    BY <1>1 DEF BeginOp, logv
  <2> QED
    BY <1>1, <2>1, <2>2, GotoIsPcOnly DEF BeginOp
<1>2. CASE ~MustWait
  <2>1. /\ pc' = [pc EXCEPT ![p] = "op"]
        /\ outstanding' = outstanding + 1
        /\ ~committing
        /\ UNCHANGED <<home, logblk, dhead, lh, committing, cache, pins,
                       tail, wrote, mode, rtail, panic, crashes>>
        /\ pc[p] = "begin"
        /\ mode = "up"
    BY <1>2 DEF BeginOp, Goto, MustWait, disk, bufs, boot, Up
  <2>2. TypeOK'
    BY <2>1 DEF LogInv, TypeOK, PCs
  <2>3. LoopBounds'
    BY <2>1 DEF LogInv, LoopBounds, TypeOK
  <2>4. InOp' = InOp \cup {p} /\ p \notin InOp
    BY <2>1 DEF InOp, LogInv, TypeOK
  <2>5. OutstandingCounts'
    BY <2>1, <2>4, OpsFinite, FS_AddElement
    DEF LogInv, OutstandingCounts, OpsBounded
  <2>6. Committers' = Committers
    BY <2>1 DEF Committers, CommitPCs, LogInv, TypeOK
  <2>7. CommitExclusive'
    BY <2>1, <2>6 DEF LogInv, CommitExclusive
  <2>8. SpaceReserved'
    <3>1. OpsBounded'
      BY <2>2, OpsFinite, PTL
    <3>2. Len(lh) + (outstanding + 1) * MAXOPBLOCKS <= LOGSIZE
      BY <1>2, SizesAssumption DEF MustWait, LogInv, TypeOK
    <3>3. Cardinality(InOp') = outstanding + 1
      BY <2>1, <2>5 DEF OutstandingCounts
    <3>4. /\ Len(lh) \in Nat
          /\ (outstanding + 1) * MAXOPBLOCKS \in Nat
      BY SizesAssumption DEF LogInv, TypeOK
    <3>5. Cardinality(Reserved') <= (outstanding + 1) * MAXOPBLOCKS
      BY <3>1, <3>3 DEF OpsBounded
    <3> QED
      BY <2>1, <3>1, <3>2, <3>4, <3>5, SizesAssumption
      DEF SpaceReserved, OpsBounded
  <2>9. LogShape'
    BY <2>1 DEF LogInv, LogShape, NoDuplicates, IdleLogEmpty, TypeOK
  <2>10. WroteLogged'
    BY <2>1 DEF LogInv, WroteLogged, Logged, TypeOK
  <2>11. Installed' = Installed
    BY <2>1 DEF Installed, LogInv, TypeOK
  <2>12. PinsMatchLog'
    BY <2>1, <2>11 DEF LogInv, PinsMatchLog
  <2>13. BootQuiet' /\ PanicReasons'
    BY <2>1 DEF LogInv, BootQuiet, BootModes, PanicReasons,
                NoCommittingPanic, NoOverflowPanic
  <2> QED
    BY <2>2, <2>3, <2>5, <2>7, <2>8, <2>9, <2>10, <2>12, <2>13 DEF LogInv
<1> QED
  BY <1>1, <1>2

\* The buffer cache changes only what the type invariant says of it.
LEMMA CacheOnly ==
  ASSUME LogInv, cache' \in [Blocks -> Values \cup {NoBuf}],
         UNCHANGED <<disk, logv, pins, locals, boot>>
  PROVE  LogInv'
<1> USE DEF disk, logv, locals, boot
<1>1. TypeOK'
  BY DEF LogInv, TypeOK
<1>2. /\ LoopBounds'
      /\ LogShape'
      /\ WroteLogged'
      /\ BootQuiet'
      /\ PanicReasons'
  <2>1. LoopBounds' /\ WroteLogged'
    BY DEF LogInv, LoopBounds, WroteLogged, Logged
  <2>2. LogShape'
    BY DEF LogInv, LogShape, NoDuplicates, IdleLogEmpty
  <2>3. BootQuiet' /\ PanicReasons'
    BY DEF LogInv, BootQuiet, PanicReasons, NoCommittingPanic, NoOverflowPanic
  <2> QED
    BY <2>1, <2>2, <2>3
<1>3. /\ InOp' = InOp /\ Committers' = Committers
      /\ Reserved' = Reserved /\ Installed' = Installed
  BY DEF InOp, Committers, Reserved, Installed
<1>4. OutstandingCounts' /\ CommitExclusive' /\ SpaceReserved' /\ PinsMatchLog'
  BY <1>3 DEF LogInv, OutstandingCounts, CommitExclusive, SpaceReserved,
              PinsMatchLog
<1> QED
  BY <1>1, <1>2, <1>4 DEF LogInv

LEMMA BufferInv ==
  ASSUME LogInv, NEW b \in Blocks,
         (\E p \in Procs : ReadBlock(p, b)) \/ Recycle(b)
  PROVE  LogInv'
<1>1. UNCHANGED <<disk, logv, pins, locals, boot>>
  BY DEF ReadBlock, Recycle
<1>2. cache' \in [Blocks -> Values \cup {NoBuf}]
  BY DEF ReadBlock, Recycle, LogInv, TypeOK
<1> QED
  BY <1>1, <1>2, CacheOnly

(***************************************************************************)
(* LOG.write.  The token of the entry it takes leaves Reserved; when no    *)
(* token is left for this operation, b is one of its own blocks and needs  *)
(* no entry.                                                               *)
(***************************************************************************)
LEMMA LogWriteInv ==
  ASSUME LogInv, NEW p \in Procs, NEW b \in Blocks, NEW v \in Values,
         LogWrite(p, b, v)
  PROVE  LogInv'
<1>0. /\ mode = "up"
      /\ pc[p] = "op"
      /\ p \in InOp
      /\ UNCHANGED <<home, logblk, dhead, outstanding, committing, pc, tail,
                     rtail, crashes>>
      /\ cache' = [cache EXCEPT ![b] = v]
  BY DEF LogWrite, Up, disk, InOp
<1>1. /\ InOp' = InOp
      /\ Committers' = Committers
      /\ ~committing
  BY <1>0 DEF InOp, Committers, LogInv, CommitExclusive
<1>2. /\ OutstandingCounts'
      /\ CommitExclusive'
  BY <1>0, <1>1 DEF LogInv, OutstandingCounts, CommitExclusive
<1>3. \A q \in Procs : pc[q] \notin CommitPCs
  BY <1>1 DEF LogInv, CommitExclusive, Committers
<1>4. /\ IsFiniteSet(wrote[p])
      /\ Cardinality(wrote[p]) \in Nat
      /\ Cardinality(wrote[p] \cup {b}) =
            IF b \in wrote[p] THEN Cardinality(wrote[p])
                              ELSE Cardinality(wrote[p]) + 1
      /\ IsFiniteSet(wrote[p] \cup {b})
      /\ Cardinality(wrote[p] \cup {b}) <= MAXOPBLOCKS
  BY FS_AddElement, FS_CardinalityType DEF LogInv, WroteLogged, LogWrite
<1>5. OpsBounded
  BY OpsFinite DEF LogInv
<1>6. CASE LogFull
  <2>1. /\ mode' = "panicked"
        /\ panic' = IF Logged(b) THEN "too big, absorbed"
                                 ELSE "too big a transaction"
        /\ UNCHANGED <<lh, pins, wrote>>
    BY <1>6 DEF LogWrite
  <2>2. TypeOK'
    BY <1>0, <2>1 DEF LogInv, TypeOK, Modes, Panics
  <2>3. Reserved' = Reserved
    BY <1>1, <2>1 DEF Reserved
  <2>4. LoopBounds' /\ LogShape' /\ WroteLogged' /\ SpaceReserved'
    <3>1. LoopBounds'
      BY <1>0, <2>1 DEF LogInv, LoopBounds
    <3>2. LogShape'
      <4>1. NoDuplicates(lh') /\ NoDuplicates(dhead')
        BY <1>0, <2>1 DEF LogInv, LogShape
      <4>2. IdleLogEmpty'
        BY <2>1 DEF IdleLogEmpty
      <4> QED
        BY <1>0, <2>1, <4>1, <4>2 DEF LogInv, LogShape, NoDuplicates
    <3>3. WroteLogged' /\ SpaceReserved'
      BY <1>0, <2>1, <2>3 DEF LogInv, WroteLogged, Logged, SpaceReserved
    <3> QED
      BY <3>1, <3>2, <3>3
  <2>5. PinsMatchLog' /\ BootQuiet'
    BY <2>1 DEF PinsMatchLog, BootQuiet, BootModes
  <2>6. ASSUME NLog > LOGSIZE, ~Logged(b) PROVE FALSE
    <3>1. Len(lh) >= LOGSIZE
      BY <1>6, <2>6, SizesAssumption DEF LogFull, LogInv, TypeOK
    <3>2. b \notin wrote[p]
      BY <1>0, <2>6 DEF LogInv, WroteLogged
    <3>3. <<p, MAXOPBLOCKS>> \in Reserved
      BY <1>0, <1>4, <3>2, SizesAssumption DEF Reserved
    <3>4. Cardinality(Reserved) # 0
      BY <1>5, <3>3, FS_EmptySet DEF OpsBounded
    <3> QED
      BY <1>5, <3>1, <3>4, SizesAssumption
      DEF LogInv, SpaceReserved, OpsBounded, TypeOK
  <2>7. PanicReasons'
    BY <2>1, <2>6 DEF PanicReasons, NoCommittingPanic, NoOverflowPanic
  <2> QED
    BY <1>2, <2>2, <2>4, <2>5, <2>7 DEF LogInv
<1>7. CASE ~LogFull
  <2>1. /\ wrote' = [wrote EXCEPT ![p] = @ \cup {b}]
        /\ UNCHANGED <<mode, panic>>
        /\ Logged(b) => UNCHANGED <<lh, pins>>
        /\ ~Logged(b) => /\ lh' = Append(lh, b)
                         /\ pins' = [pins EXCEPT ![b] = @ + 1]
    BY <1>7 DEF LogWrite
  <2>2. /\ lh' \in Seq(Blocks)
        /\ Len(lh) \in Nat
        /\ Logged(b) => Len(lh') = Len(lh)
        /\ ~Logged(b) => Len(lh') = Len(lh) + 1 /\ lh'[Len(lh) + 1] = b
        /\ \A i \in 1 .. Len(lh) : lh'[i] = lh[i]
    <3>1. lh \in Seq(Blocks) /\ Len(lh) \in Nat
      BY DEF LogInv, TypeOK
    <3>2. CASE Logged(b)
      BY <2>1, <3>1, <3>2
    <3>3. CASE ~Logged(b)
      <4>1. /\ Append(lh, b) \in Seq(Blocks)
            /\ Len(Append(lh, b)) = Len(lh) + 1
            /\ \A i \in 1 .. Len(lh) : Append(lh, b)[i] = lh[i]
            /\ Append(lh, b)[Len(lh) + 1] = b
        BY <3>1, AppendFacts
      <4> QED
        BY <2>1, <3>1, <3>3, <4>1
    <3> QED
      BY <3>2, <3>3
  <2>3. TypeOK'
    <3>1. pins' \in [Blocks -> Nat]
      <4>1. pins \in [Blocks -> Nat]
        BY DEF LogInv, TypeOK
      <4> QED
        BY <2>1, <4>1
    <3>2. /\ cache' \in [Blocks -> Values \cup {NoBuf}]
          /\ wrote' \in [Procs -> SUBSET Blocks]
      BY <1>0, <2>1 DEF LogInv, TypeOK
    <3> QED
      BY <1>0, <2>1, <2>2, <3>1, <3>2 DEF LogInv, TypeOK
  <2>4. LoopBounds'
    BY <1>0, <1>3, <1>7, <2>1, <2>2, SizesAssumption
    DEF LogInv, LoopBounds, LogFull, CommitPCs
  <2>5. NoDuplicates(lh')
    BY <2>1, <2>2 DEF LogInv, LogShape, NoDuplicates, Logged
  <2>6. outstanding # 0
    BY <1>0, <1>5, FS_EmptySet DEF LogInv, OutstandingCounts, OpsBounded
  <2>7. LogShape'
    BY <1>0, <1>3, <2>1, <2>5, <2>6
    DEF LogInv, LogShape, IdleLogEmpty, NoDuplicates, CommitPCs
  <2>8. \A c \in Blocks : Logged(c)' <=> Logged(c) \/ c = b
    BY <2>2 DEF Logged
  <2>9. WroteLogged'
    BY <1>0, <1>4, <2>1, <2>8 DEF LogInv, WroteLogged, TypeOK
  <2>10. Installed = {} /\ Installed' = {}
    BY <1>0, <1>3 DEF Installed, CommitPCs
  <2>11. PinsMatchLog'
    <3>1. ASSUME NEW c \in Blocks
          PROVE  pins'[c] = IF Logged(c)' THEN 1 ELSE 0
      <4>1. pins[c] = IF Logged(c) THEN 1 ELSE 0
        BY <1>0, <2>10 DEF LogInv, PinsMatchLog, Logged
      <4> QED
        BY <2>1, <2>8, <4>1 DEF LogInv, TypeOK
    <3> QED
      BY <2>10, <3>1 DEF PinsMatchLog, Logged
  <2>12. BootQuiet' /\ PanicReasons'
    BY <1>0, <2>1 DEF LogInv, BootQuiet, BootModes, PanicReasons,
                      NoCommittingPanic, NoOverflowPanic
  <2>13. SpaceReserved'
    <3>1. CASE b \in wrote[p]
      <4>1. Logged(b)
        BY <1>0, <3>1 DEF LogInv, WroteLogged
      <4>2. wrote' = wrote
        BY <2>1, <3>1 DEF LogInv, TypeOK
      <4> QED
        BY <1>1, <2>1, <4>1, <4>2 DEF LogInv, SpaceReserved, Reserved
    <3>2. CASE b \notin wrote[p]
      <4> DEFINE token == <<p, Cardinality(wrote[p]) + 1>>
      <4>1. token \in Reserved
        BY <1>0, <1>4, <3>2 DEF Reserved
      <4>2. Cardinality(wrote'[p]) = Cardinality(wrote[p]) + 1
        BY <1>4, <2>1, <3>2 DEF LogInv, TypeOK
      <4>3. \A q \in Procs \ {p} : wrote'[q] = wrote[q]
        BY <2>1 DEF LogInv, TypeOK
      <4>4. Reserved' = Reserved \ {token}
        <5>1. ASSUME NEW r \in InOp \X (1 .. MAXOPBLOCKS)
              PROVE  r \in Reserved' <=> r \in Reserved /\ r # token
          <6>1. PICK q \in InOp, k \in 1 .. MAXOPBLOCKS : r = <<q, k>>
            OBVIOUS
          <6>2. q \in Procs
            BY DEF InOp
          <6>3. /\ r \in Reserved' <=> k > Cardinality(wrote'[q])
                /\ r \in Reserved <=> k > Cardinality(wrote[q])
            BY <1>1, <6>1 DEF Reserved
          <6>4. CASE q = p
            BY <1>4, <4>2, <6>1, <6>3, <6>4
          <6>5. CASE q # p
            BY <4>3, <6>1, <6>2, <6>3, <6>5
          <6> QED
            BY <6>4, <6>5
        <5> QED
          BY <1>1, <5>1 DEF Reserved
      <4>5. Cardinality(Reserved') = Cardinality(Reserved) - 1
        BY <1>5, <4>1, <4>4, FS_RemoveElement DEF OpsBounded
      <4> QED
        BY <1>5, <2>2, <4>5, SizesAssumption
        DEF LogInv, SpaceReserved, OpsBounded
    <3> QED
      BY <3>1, <3>2
  <2> QED
    BY <1>2, <2>3, <2>4, <2>7, <2>9, <2>11, <2>12, <2>13 DEF LogInv
<1> QED
  BY <1>6, <1>7

\* end_op: an operation and its reservation go; the last one starts the commit.
LEMMA EndOpInv ==
  ASSUME LogInv, NEW p \in Procs, EndOp(p)
  PROVE  LogInv'
<1>0. /\ mode = "up"
      /\ pc[p] = "op"
      /\ p \in InOp
      /\ outstanding' = outstanding - 1
      /\ wrote' = [wrote EXCEPT ![p] = {}]
      /\ UNCHANGED <<home, logblk, dhead, lh, cache, pins, tail, rtail,
                     crashes>>
  BY DEF EndOp, Up, disk, bufs, InOp
<1>1. ~committing
  BY <1>0 DEF LogInv, CommitExclusive
<1>2. Committers = {}
  BY <1>1 DEF LogInv, CommitExclusive
<1>3. OpsBounded /\ outstanding = Cardinality(InOp)
  BY OpsFinite DEF LogInv, OutstandingCounts
<1>4. outstanding \in Nat /\ outstanding # 0
  BY <1>0, <1>3, FS_EmptySet DEF OpsBounded
<1>5. UNCHANGED <<mode, panic>>
  BY <1>1 DEF EndOp
<1>6. IF outstanding = 1
      THEN committing' = TRUE /\ pc' = [pc EXCEPT ![p] = CommitEntry]
      ELSE committing' = FALSE /\ pc' = Wakeup([pc EXCEPT ![p] = "idle"])
  BY <1>1 DEF EndOp, Goto
<1>7. CommitEntry \in CommitPCs /\ CommitPCs \subseteq PCs
  BY DEF CommitEntry, CommitPCs, PCs
<1>8. /\ pc' \in [Procs -> PCs]
      /\ pc'[p] = IF outstanding = 1 THEN CommitEntry ELSE "idle"
      /\ \A q \in Procs \ {p} : \/ pc'[q] = pc[q]
                                \/ pc[q] \notin Busy /\ pc'[q] \notin Busy
  <2>1. pc \in [Procs -> PCs] /\ "idle" \in PCs
    BY DEF LogInv, TypeOK, PCs
  <2>2. CASE outstanding = 1
    BY <1>6, <1>7, <2>1, <2>2
  <2>3. CASE outstanding # 1
    <3> DEFINE f == [pc EXCEPT ![p] = "idle"]
    <3>1. f \in [Procs -> PCs]
      BY <2>1
    <3>2. Wakeup(f)[p] = "idle"
      BY <3>1, <2>1 DEF Wakeup
    <3>3. \A q \in Procs \ {p} : f[q] = pc[q]
      BY <2>1
    <3>4. pc' = Wakeup(f)
      BY <1>6, <2>3
    <3> HIDE DEF f
    <3> QED
      BY <2>3, <3>1, <3>2, <3>3, <3>4, WakeupFacts
  <2> QED
    BY <2>2, <2>3
<1>9. InOp' = InOp \ {p}
  BY <1>8, <1>7 DEF InOp, Busy, CommitEntry
<1>10. outstanding' = Cardinality(InOp')
  BY <1>0, <1>3, <1>9, FS_RemoveElement DEF OpsBounded
<1>11. TypeOK'
  <2>0. outstanding' \in Nat
    BY <1>0, <1>4
  <2>1. committing' \in BOOLEAN
    BY <1>6, Zenon
  <2>2. wrote' \in [Procs -> SUBSET Blocks]
    BY <1>0 DEF LogInv, TypeOK
  <2> QED
    BY <1>0, <1>5, <1>8, <2>0, <2>1, <2>2 DEF LogInv, TypeOK
<1>12. \A q \in Procs : pc[q] \notin CommitPCs
  BY <1>2 DEF Committers
<1>13. Committers' = IF outstanding = 1 THEN {p} ELSE {}
  BY <1>7, <1>8, <1>12 DEF Committers, Busy, CommitPCs
<1>14. outstanding = 1 => InOp' = {}
  BY <1>0, <1>4, <1>9, <1>10, <1>3, FS_RemoveElement, FS_EmptySet DEF OpsBounded
<1>15. CommitExclusive'
  BY <1>6, <1>13, <1>14 DEF CommitExclusive
<1>16. LoopBounds'
  <2>1. \A q \in Procs : tail[q] = 0
    BY <1>12 DEF LogInv, LoopBounds, CommitPCs
  <2>2. Len(lh) \in Nat
    BY DEF LogInv, TypeOK
  <2>3. \A q \in Procs : pc'[q] \in {"write_log", "write_head", "install"}
                            => Len(lh) > 0
    BY <1>8, <1>12, <2>2 DEF CommitEntry, Busy, CommitPCs
  <2> QED
    BY <1>0, <1>5, <2>1, <2>2, <2>3 DEF LogInv, LoopBounds
<1>17. SpaceReserved'
  <2>1. Reserved' \in SUBSET Reserved
    <3>1. \A q \in InOp' : q \in InOp /\ wrote'[q] = wrote[q]
      BY <1>0, <1>9 DEF LogInv, TypeOK, InOp
    <3> QED
      BY <3>1 DEF Reserved
  <2>2. Cardinality(Reserved') <= Cardinality(Reserved)
        /\ Cardinality(Reserved') \in Nat
    BY <1>3, <2>1, FS_Subset, FS_CardinalityType DEF OpsBounded
  <2>3. Len(lh) \in Nat
    BY DEF LogInv, TypeOK
  <2> QED
    BY <1>0, <1>3, <2>2, <2>3, SizesAssumption
    DEF LogInv, SpaceReserved, OpsBounded
<1>18. LogShape'
  <2>1. NoDuplicates(lh') /\ NoDuplicates(dhead')
    BY <1>0 DEF LogInv, LogShape
  <2>2. \A q \in Procs : pc'[q] \in {"clear", "commit_done"} => lh' = <<>>
    BY <1>0, <1>8, <1>12 DEF CommitEntry, Busy, CommitPCs, LogInv, TypeOK
  <2>3. IdleLogEmpty'
    BY <1>0, <1>4, <1>6 DEF IdleLogEmpty
  <2> QED
    BY <2>1, <2>2, <2>3 DEF LogShape, NoDuplicates
<1>19. WroteLogged'
  BY <1>0, <1>7, <1>8, FS_EmptySet
  DEF LogInv, WroteLogged, Logged, TypeOK, Busy, CommitEntry
<1>20. PinsMatchLog'
  <2>1. Installed' = {} /\ Installed = {}
    BY <1>8, <1>12 DEF Installed, CommitEntry, Busy, CommitPCs
  <2> QED
    BY <1>0, <1>5, <2>1 DEF LogInv, PinsMatchLog
<1>21. BootQuiet' /\ PanicReasons'
  BY <1>0, <1>5 DEF LogInv, BootQuiet, BootModes, PanicReasons,
                    NoCommittingPanic, NoOverflowPanic
<1> QED
  BY <1>10, <1>11, <1>15, <1>16, <1>17, <1>18, <1>19, <1>20, <1>21
  DEF LogInv, OutstandingCounts

-----------------------------------------------------------------------------
\* While a process commits, it has the log for itself.
LEMMA CommitAlone ==
  ASSUME LogInv, NEW p \in Procs, pc[p] \in CommitPCs
  PROVE  /\ committing
         /\ InOp = {}
         /\ outstanding = 0
         /\ Reserved = {}
         /\ \A q \in Procs \ {p} : pc[q] \notin Busy
<1>1. p \in Committers
  BY DEF Committers
<1>2. committing /\ InOp = {}
  BY <1>1 DEF LogInv, CommitExclusive
<1>3. outstanding = 0
  BY <1>2, FS_EmptySet DEF LogInv, OutstandingCounts
<1>4. \A q \in Procs \ {p} : pc[q] \notin Busy
  BY <1>1, <1>2 DEF LogInv, CommitExclusive, Committers, InOp, Busy
<1> QED
  BY <1>2, <1>3, <1>4 DEF Reserved

(***************************************************************************)
(* A step of commit() that moves its process on and leaves the counters    *)
(* of the log alone keeps every conjunct about operations.                 *)
(***************************************************************************)
LEMMA CommitFrame ==
  ASSUME LogInv, NEW p \in Procs, pc[p] \in CommitPCs, Up,
         NEW l \in CommitPCs, pc' = [pc EXCEPT ![p] = l],
         UNCHANGED <<outstanding, committing, wrote, boot>>,
         lh' = lh \/ lh' = <<>>
  PROVE  /\ OutstandingCounts' /\ CommitExclusive' /\ SpaceReserved'
         /\ WroteLogged' /\ BootQuiet' /\ PanicReasons'
         /\ IdleLogEmpty'
         /\ pc' \in [Procs -> PCs]
         /\ \A q \in Procs \ {p} : pc[q] \notin Busy /\ pc'[q] = pc[q]
         /\ pc'[p] = l
<1>1. /\ committing
      /\ InOp = {}
      /\ outstanding = 0
      /\ Reserved = {}
      /\ \A q \in Procs \ {p} : pc[q] \notin Busy
  BY CommitAlone
<1>2. pc' \in [Procs -> PCs]
  BY DEF LogInv, TypeOK, CommitPCs, PCs
<1>3. /\ pc'[p] = l
      /\ \A q \in Procs \ {p} : pc'[q] = pc[q]
  BY DEF LogInv, TypeOK
<1>4. Committers' = {p} /\ InOp' = {}
  BY <1>1, <1>3 DEF Committers, InOp, Busy, CommitPCs
<1>5. Reserved' = {}
  BY <1>4 DEF Reserved
<1>6. Len(lh') <= LOGSIZE
  <2>1. Len(lh) \in Nat /\ Len(lh) <= LOGSIZE
    BY <1>1, FS_EmptySet DEF LogInv, SpaceReserved, TypeOK
  <2> QED
    BY <2>1, SizesAssumption
<1>7. OutstandingCounts' /\ CommitExclusive'
  BY <1>1, <1>4, FS_EmptySet DEF OutstandingCounts, CommitExclusive
<1>8. SpaceReserved'
  <2>1. Len(lh') \in Nat
    BY DEF LogInv, TypeOK
  <2> QED
    BY <1>5, <1>6, <2>1, FS_EmptySet DEF SpaceReserved
<1>9. WroteLogged'
  BY <1>1, <1>3 DEF LogInv, WroteLogged, CommitPCs, Busy
<1>10. BootQuiet' /\ PanicReasons' /\ IdleLogEmpty'
  BY <1>1 DEF LogInv, BootQuiet, BootModes, PanicReasons, IdleLogEmpty,
              NoCommittingPanic, NoOverflowPanic, Up, boot
<1> QED
  BY <1>1, <1>2, <1>3, <1>7, <1>8, <1>9, <1>10

\* The two loops of commit(): the next entry, or the label after the loop.
LEMMA AdvanceFacts ==
  ASSUME LogInv, NEW p \in Procs, pc[p] \in {"write_log", "install"},
         NEW l \in {"write_head", "clear"}, Advance(p, l)
  PROVE  /\ tail[p] + 1 \in 1 .. Len(lh)
         /\ tail[p] \in Nat
         /\ lh[tail[p] + 1] \in Blocks
         /\ tail' \in [Procs -> Nat]
         /\ \A q \in Procs \ {p} : tail'[q] = tail[q]
         /\ \/ /\ tail[p] + 1 = Len(lh)
               /\ pc' = [pc EXCEPT ![p] = l]
               /\ tail'[p] = 0
            \/ /\ tail[p] + 1 < Len(lh)
               /\ pc' = [pc EXCEPT ![p] = pc[p]]
               /\ tail'[p] = tail[p] + 1
<1>1. tail \in [Procs -> Nat] /\ lh \in Seq(Blocks) /\ pc \in [Procs -> PCs]
  BY DEF LogInv, TypeOK
<1>2. tail[p] < Len(lh)
  BY DEF LogInv, LoopBounds
<1>3. tail[p] + 1 \in 1 .. Len(lh) /\ lh[tail[p] + 1] \in Blocks
  BY <1>1, <1>2
<1>4. CASE tail[p] + 1 = Len(lh)
  BY <1>1, <1>3, <1>4 DEF Advance, Goto
<1>5. CASE tail[p] + 1 # Len(lh)
  BY <1>1, <1>2, <1>3, <1>5 DEF Advance
<1> QED
  BY <1>4, <1>5

LEMMA WriteLogInv ==
  ASSUME LogInv, NEW p \in Procs, WriteLog(p)
  PROVE  LogInv'
<1>0. /\ Up
      /\ pc[p] = "write_log"
      /\ Advance(p, "write_head")
      /\ logblk' = [logblk EXCEPT ![tail[p] + 1] = Contents(lh[tail[p] + 1])]
      /\ cache' = [cache EXCEPT ![lh[tail[p] + 1]] = Contents(lh[tail[p] + 1])]
      /\ UNCHANGED <<home, dhead, lh, outstanding, committing, pins, wrote,
                     boot>>
  BY DEF WriteLog, logv
<1>1. /\ tail[p] + 1 \in 1 .. Len(lh)
      /\ tail[p] \in Nat
      /\ lh[tail[p] + 1] \in Blocks
      /\ tail' \in [Procs -> Nat]
      /\ \A q \in Procs \ {p} : tail'[q] = tail[q]
      /\ \/ /\ tail[p] + 1 = Len(lh)
            /\ pc' = [pc EXCEPT ![p] = "write_head"]
            /\ tail'[p] = 0
         \/ /\ tail[p] + 1 < Len(lh)
            /\ pc' = [pc EXCEPT ![p] = "write_log"]
            /\ tail'[p] = tail[p] + 1
  BY <1>0, AdvanceFacts
<1>2. PICK l \in {"write_log", "write_head"} :
        /\ pc' = [pc EXCEPT ![p] = l]
        /\ l = "write_log" => tail'[p] = tail[p] + 1 /\ tail[p] + 1 < Len(lh)
        /\ l = "write_head" => tail'[p] = 0
  BY <1>1
<1>3. /\ OutstandingCounts' /\ CommitExclusive' /\ SpaceReserved'
      /\ WroteLogged' /\ BootQuiet' /\ PanicReasons'
      /\ IdleLogEmpty'
      /\ pc' \in [Procs -> PCs]
      /\ \A q \in Procs \ {p} : pc[q] \notin Busy /\ pc'[q] = pc[q]
      /\ pc'[p] = l
  <2>1. pc[p] \in CommitPCs /\ l \in CommitPCs
    BY <1>0, <1>2 DEF CommitPCs
  <2> QED
    BY <1>0, <1>2, <2>1, CommitFrame
<1>4. TypeOK'
  <2>1. Contents(lh[tail[p] + 1]) \in Values
    BY <1>1 DEF Contents, LogInv, TypeOK
  <2>2. logblk' \in [LogBlocks -> Values]
    BY <1>0, <2>1 DEF LogInv, TypeOK
  <2>3. cache' \in [Blocks -> Values \cup {NoBuf}]
    BY <1>0, <2>1 DEF LogInv, TypeOK
  <2> QED
    BY <1>0, <1>1, <1>3, <2>2, <2>3 DEF LogInv, TypeOK, boot
<1>5. LoopBounds'
  <2>1. \A q \in Procs : pc'[q] \in {"write_log", "write_head", "install"}
                            => tail'[q] < Len(lh)
    BY <1>1, <1>2, <1>3 DEF Busy, CommitPCs
  <2>2. \A q \in Procs : pc'[q] \notin {"write_log", "install"}
                            => tail'[q] = 0
    BY <1>0, <1>1, <1>2, <1>3 DEF LogInv, LoopBounds, Busy, CommitPCs
  <2> QED
    BY <1>0, <2>1, <2>2 DEF LogInv, LoopBounds, boot
<1>6. LogShape'
  <2>1. \A q \in Procs : pc'[q] \notin {"clear", "commit_done"}
    BY <1>3 DEF Busy, CommitPCs
  <2>2. NoDuplicates(lh') /\ NoDuplicates(dhead')
    BY <1>0 DEF LogInv, LogShape
  <2> QED
    BY <1>3, <2>1, <2>2 DEF LogShape, NoDuplicates
<1>7. PinsMatchLog'
  <2>1. Installed = {} /\ Installed' = {}
    BY <1>0, <1>3 DEF Installed, Busy, CommitPCs
  <2> QED
    BY <1>0, <2>1 DEF LogInv, PinsMatchLog, boot
<1> QED
  BY <1>3, <1>4, <1>5, <1>6, <1>7 DEF LogInv

LEMMA WriteHeadInv ==
  ASSUME LogInv, NEW p \in Procs, WriteHead(p)
  PROVE  LogInv'
<1>0. /\ Up
      /\ pc[p] = "write_head"
      /\ pc' = [pc EXCEPT ![p] = "install"]
      /\ dhead' = lh
      /\ UNCHANGED <<home, logblk, lh, outstanding, committing, cache, pins,
                     tail, wrote, boot>>
  BY DEF WriteHead, Goto, logv, bufs
<1>1. "install" \in CommitPCs /\ pc[p] \in CommitPCs
  BY <1>0 DEF CommitPCs
<1>2. /\ OutstandingCounts' /\ CommitExclusive' /\ SpaceReserved'
      /\ WroteLogged' /\ BootQuiet' /\ PanicReasons'
      /\ IdleLogEmpty'
      /\ pc' \in [Procs -> PCs]
      /\ \A q \in Procs \ {p} : pc[q] \notin Busy /\ pc'[q] = pc[q]
      /\ pc'[p] = "install"
  BY <1>0, <1>1, CommitFrame
<1>3. TypeOK'
  BY <1>0, <1>2 DEF LogInv, TypeOK, boot
<1>4. Len(lh) <= LOGSIZE
  <2>1. Cardinality(Reserved) = 0
    BY <1>1, CommitAlone, FS_EmptySet
  <2> QED
    BY <2>1 DEF LogInv, SpaceReserved, TypeOK
<1>5. LoopBounds'
  <2>1. \A q \in Procs : pc'[q] \in {"write_log", "write_head", "install"}
                            => tail'[q] < Len(lh')
    BY <1>0, <1>2 DEF LogInv, LoopBounds, Busy, CommitPCs
  <2>2. \A q \in Procs : pc'[q] \notin {"write_log", "install"}
                            => tail'[q] = 0
    BY <1>0, <1>2 DEF LogInv, LoopBounds, Busy, CommitPCs
  <2> QED
    BY <1>0, <1>4, <2>1, <2>2 DEF LogInv, LoopBounds, boot
<1>6. LogShape'
  <2>1. \A q \in Procs : pc'[q] \notin {"clear", "commit_done"}
    BY <1>2 DEF Busy, CommitPCs
  <2>2. NoDuplicates(lh') /\ NoDuplicates(dhead')
    BY <1>0 DEF LogInv, LogShape
  <2> QED
    BY <1>2, <2>1, <2>2 DEF LogShape, NoDuplicates
<1>7. PinsMatchLog'
  <2>1. Installed = {}
    BY <1>0, <1>2 DEF Installed, Busy, CommitPCs
  <2>2. \A q \in Procs : pc'[q] = "install" => tail'[q] = 0
    BY <1>0, <1>2 DEF LogInv, LoopBounds, Busy, CommitPCs
  <2>3. Installed' = {}
    BY <2>2 DEF Installed
  <2> QED
    BY <1>0, <2>1, <2>3 DEF LogInv, PinsMatchLog, boot
<1> QED
  BY <1>2, <1>3, <1>5, <1>6, <1>7 DEF LogInv

LEMMA InstallInv ==
  ASSUME LogInv, NEW p \in Procs, Install(p)
  PROVE  LogInv'
<1> DEFINE i == tail[p] + 1
           b == lh[i]
<1>0. /\ Up
      /\ pc[p] = "install"
      /\ Advance(p, "clear")
      /\ home' = [home EXCEPT ![b] = logblk[i]]
      /\ cache' = [cache EXCEPT ![b] = logblk[i]]
      /\ pins' = [pins EXCEPT ![b] = @ - 1]
      /\ lh' = IF i = Len(lh) THEN <<>> ELSE lh
      /\ UNCHANGED <<logblk, dhead, outstanding, committing, wrote, boot>>
  BY DEF Install
<1>1. /\ i \in 1 .. Len(lh)
      /\ tail[p] \in Nat
      /\ b \in Blocks
      /\ tail' \in [Procs -> Nat]
      /\ \A q \in Procs \ {p} : tail'[q] = tail[q]
      /\ \/ /\ i = Len(lh)
            /\ pc' = [pc EXCEPT ![p] = "clear"]
            /\ tail'[p] = 0
         \/ /\ i < Len(lh)
            /\ pc' = [pc EXCEPT ![p] = "install"]
            /\ tail'[p] = i
  BY <1>0, AdvanceFacts
<1> HIDE DEF i, b
<1>2. PICK l \in {"install", "clear"} :
        /\ pc' = [pc EXCEPT ![p] = l]
        /\ l = "install" => tail'[p] = i /\ i < Len(lh) /\ lh' = lh
        /\ l = "clear" => tail'[p] = 0 /\ i = Len(lh) /\ lh' = <<>>
  BY <1>0, <1>1
<1>3. /\ OutstandingCounts' /\ CommitExclusive' /\ SpaceReserved'
      /\ WroteLogged' /\ BootQuiet' /\ PanicReasons'
      /\ IdleLogEmpty'
      /\ pc' \in [Procs -> PCs]
      /\ \A q \in Procs \ {p} : pc[q] \notin Busy /\ pc'[q] = pc[q]
      /\ pc'[p] = l
  <2>1. pc[p] \in CommitPCs /\ l \in CommitPCs
    BY <1>0, <1>2 DEF CommitPCs
  <2> QED
    BY <1>0, <1>2, <2>1, CommitFrame
<1>4. lh \in Seq(Blocks) /\ lh' \in Seq(Blocks) /\ Len(lh) \in Nat
  BY <1>0 DEF LogInv, TypeOK
<1>5. Installed = 1 .. tail[p]
  <2>1. \A q \in Procs : pc[q] = "install" => q = p
    BY <1>3 DEF Busy, CommitPCs
  <2> QED
    BY <1>0, <1>1, <1>4, <2>1 DEF Installed, i
<1>6. \A c \in Blocks :
         pins[c] = IF \E k \in (1 .. Len(lh)) \ Installed : lh[k] = c
                   THEN 1 ELSE 0
  BY <1>0 DEF LogInv, PinsMatchLog, Up
<1>7. pins[b] = 1
  <2>1. i \in (1 .. Len(lh)) \ Installed
    BY <1>1, <1>5 DEF i
  <2> QED
    BY <1>1, <1>6, <2>1 DEF b
<1>8. TypeOK'
  <2>1. i \in LogBlocks
    BY <1>1, <1>4, SizesAssumption DEF LogInv, LoopBounds, LogBlocks
  <2>2. logblk[i] \in Values
    BY <2>1 DEF LogInv, TypeOK
  <2>3. /\ home' \in [Blocks -> Values]
        /\ cache' \in [Blocks -> Values \cup {NoBuf}]
    BY <1>0, <1>1, <2>2 DEF LogInv, TypeOK
  <2>4. pins' \in [Blocks -> Nat]
    BY <1>0, <1>1, <1>7 DEF LogInv, TypeOK
  <2> QED
    BY <1>0, <1>1, <1>3, <1>4, <2>3, <2>4 DEF LogInv, TypeOK, boot
<1>9. LoopBounds'
  <2>1. \A q \in Procs : pc'[q] \in {"write_log", "write_head", "install"}
                            => tail'[q] < Len(lh')
    BY <1>2, <1>3 DEF Busy, CommitPCs
  <2>2. \A q \in Procs : pc'[q] \notin {"write_log", "install"}
                            => tail'[q] = 0
    BY <1>1, <1>2, <1>3 DEF LogInv, LoopBounds, Busy, CommitPCs
  <2>3. Len(lh') <= NLog - 1
    BY <1>2, <1>4, SizesAssumption DEF LogInv, LoopBounds
  <2> QED
    BY <1>0, <2>1, <2>2, <2>3 DEF LogInv, LoopBounds, boot, Up
<1>10. LogShape'
  <2>1. \A q \in Procs : pc'[q] \in {"clear", "commit_done"} => lh' = <<>>
    BY <1>2, <1>3 DEF Busy, CommitPCs
  <2>2. NoDuplicates(lh)
    BY DEF LogInv, LogShape
  <2>3. NoDuplicates(<<>>)
    BY DEF NoDuplicates
  <2>4. lh' = lh \/ lh' = <<>>
    BY <1>2
  <2>5. \A j, k \in 1 .. Len(lh') : lh'[j] = lh'[k] => j = k
    BY <2>2, <2>3, <2>4 DEF NoDuplicates
  <2>6. dhead' = dhead
    BY <1>0
  <2>7. \A j, k \in 1 .. Len(dhead') : dhead'[j] = dhead'[k] => j = k
    BY <2>6 DEF LogInv, LogShape, NoDuplicates
  <2> QED
    BY <1>3, <2>1, <2>5, <2>7 DEF LogShape, NoDuplicates
<1>11. PinsMatchLog'
  <2>1. /\ \A c \in Blocks \ {b} : pins'[c] = pins[c]
        /\ pins'[b] = 0
    BY <1>0, <1>1, <1>7 DEF LogInv, TypeOK
  <2>2. NoDuplicates(lh)
    BY DEF LogInv, LogShape
  <2>3. CASE l = "install"
    <3>1. \A q \in Procs : pc'[q] = "install" => q = p
      BY <1>3 DEF Busy, CommitPCs
    <3>2. Installed' = 1 .. i
      BY <1>1, <1>2, <1>3, <1>4, <2>3, <3>1 DEF Installed
    <3>3. ASSUME NEW c \in Blocks
          PROVE  pins'[c] = IF \E k \in (1 .. Len(lh)) \ (1 .. i) : lh[k] = c
                            THEN 1 ELSE 0
      <4>1. CASE c = b
        BY <1>1, <1>4, <2>1, <2>2, <4>1 DEF NoDuplicates, b
      <4>2. CASE c # b
        <5>1. \A k \in 1 .. Len(lh) :
                 lh[k] = c => (k \in 1 .. tail[p] <=> k \in 1 .. i)
          BY <1>1, <1>4, <4>2 DEF b, i
        <5> QED
          BY <1>5, <1>6, <2>1, <4>2, <5>1
      <4> QED
        BY <4>1, <4>2
    <3> QED
      BY <1>2, <2>3, <3>2, <3>3 DEF PinsMatchLog
  <2>4. CASE l = "clear"
    <3>1. ASSUME NEW c \in Blocks
          PROVE  pins'[c] = 0
      <4>1. CASE c = b
        BY <2>1, <4>1
      <4>2. CASE c # b
        <5>1. (1 .. Len(lh)) \ Installed = {i}
          BY <1>1, <1>2, <1>4, <1>5, <2>4 DEF i
        <5> QED
          BY <1>6, <2>1, <4>2, <5>1 DEF b
      <4> QED
        BY <4>1, <4>2
    <3>2. Len(lh') = 0
      BY <1>2, <2>4
    <3> QED
      BY <3>1, <3>2 DEF PinsMatchLog
  <2> QED
    BY <2>3, <2>4
<1> QED
  BY <1>3, <1>8, <1>9, <1>10, <1>11 DEF LogInv

LEMMA ClearHeadInv ==
  ASSUME LogInv, NEW p \in Procs, ClearHead(p)
  PROVE  LogInv'
<1>0. /\ Up
      /\ pc[p] = "clear"
      /\ pc' = [pc EXCEPT ![p] = "commit_done"]
      /\ dhead' = lh
      /\ lh = <<>>
      /\ UNCHANGED <<home, logblk, lh, outstanding, committing, cache, pins,
                     tail, wrote, boot>>
  BY DEF ClearHead, Goto, logv, bufs, LogInv, LogShape
<1>1. "commit_done" \in CommitPCs /\ pc[p] \in CommitPCs
  BY <1>0 DEF CommitPCs
<1>2. /\ OutstandingCounts' /\ CommitExclusive' /\ SpaceReserved'
      /\ WroteLogged' /\ BootQuiet' /\ PanicReasons'
      /\ IdleLogEmpty'
      /\ pc' \in [Procs -> PCs]
      /\ \A q \in Procs \ {p} : pc[q] \notin Busy /\ pc'[q] = pc[q]
      /\ pc'[p] = "commit_done"
  BY <1>0, <1>1, CommitFrame
<1>3. TypeOK'
  BY <1>0, <1>2 DEF LogInv, TypeOK, boot
<1>4. LoopBounds'
  <2>1. \A q \in Procs : pc'[q] \notin {"write_log", "write_head", "install"}
    BY <1>2 DEF Busy, CommitPCs
  <2>2. \A q \in Procs : tail'[q] = 0
    BY <1>0, <1>2 DEF LogInv, LoopBounds, Busy, CommitPCs
  <2> QED
    BY <1>0, <2>1, <2>2, SizesAssumption DEF LogInv, LoopBounds, boot
<1>5. LogShape'
  BY <1>0, <1>2 DEF LogInv, LogShape, NoDuplicates
<1>6. PinsMatchLog'
  BY <1>0 DEF LogInv, PinsMatchLog, boot
<1> QED
  BY <1>2, <1>3, <1>4, <1>5, <1>6 DEF LogInv

LEMMA CommitDoneInv ==
  ASSUME LogInv, NEW p \in Procs, CommitDone(p)
  PROVE  LogInv'
<1> DEFINE f == [pc EXCEPT ![p] = "idle"]
<1>0. /\ mode = "up"
      /\ pc[p] = "commit_done"
      /\ pc' = Wakeup(f)
      /\ committing' = FALSE
      /\ lh = <<>>
      /\ UNCHANGED <<home, logblk, dhead, lh, outstanding, cache, pins,
                     tail, wrote, mode, rtail, panic, crashes>>
  BY DEF CommitDone, disk, bufs, boot, Up, LogInv, LogShape
<1>1. /\ InOp = {}
      /\ outstanding = 0
      /\ \A q \in Procs \ {p} : pc[q] \notin Busy
  BY <1>0, CommitAlone DEF CommitPCs
<1>2. f \in [Procs -> PCs] /\ \A q \in Procs : f[q] \notin Busy
  BY <1>1 DEF LogInv, TypeOK, PCs, Busy, CommitPCs
<1> HIDE DEF f
<1>3. pc' \in [Procs -> PCs] /\ \A q \in Procs : pc'[q] \notin Busy
  BY <1>0, <1>2, WakeupFacts
<1>4. InOp' = {} /\ Committers' = {}
  BY <1>3 DEF InOp, Committers, Busy
<1>5. Reserved' = {}
  BY <1>4 DEF Reserved
<1>6. TypeOK'
  BY <1>0, <1>3 DEF LogInv, TypeOK
<1>7. OutstandingCounts' /\ CommitExclusive'
  BY <1>0, <1>1, <1>4, FS_EmptySet DEF OutstandingCounts, CommitExclusive
<1>8. SpaceReserved'
  BY <1>0, <1>5, FS_EmptySet, SizesAssumption DEF SpaceReserved
<1>9. LoopBounds'
  <2>1. \A q \in Procs : tail'[q] = 0
    BY <1>0, <1>1 DEF LogInv, LoopBounds, Busy, CommitPCs
  <2> QED
    BY <1>0, <1>3, <2>1 DEF LogInv, LoopBounds, Busy, CommitPCs
<1>10. LogShape'
  BY <1>0 DEF LogInv, LogShape, NoDuplicates, IdleLogEmpty
<1>11. WroteLogged'
  BY <1>0, <1>1, <1>3 DEF LogInv, WroteLogged, Busy
<1>12. PinsMatchLog'
  BY <1>0 DEF LogInv, PinsMatchLog
<1>13. BootQuiet' /\ PanicReasons'
  BY <1>0 DEF LogInv, BootQuiet, BootModes, PanicReasons, NoCommittingPanic,
              NoOverflowPanic
<1> QED
  BY <1>6, <1>7, <1>8, <1>9, <1>10, <1>11, <1>12, <1>13 DEF LogInv

-----------------------------------------------------------------------------
\* While the machine boots no operation and no commit is in progress.
LEMMA BootAlone ==
  ASSUME LogInv, mode \in BootModes
  PROVE  /\ InOp = {} /\ Committers = {} /\ Reserved = {} /\ Installed = {}
         /\ outstanding = 0 /\ committing = FALSE
         /\ pins = [b \in Blocks |-> 0]
         /\ \A p \in Procs : pc[p] = "idle" /\ wrote[p] = {} /\ tail[p] = 0
<1>1. /\ pc = [p \in Procs |-> "idle"]
      /\ outstanding = 0 /\ committing = FALSE
      /\ pins = [b \in Blocks |-> 0]
  BY DEF LogInv, BootQuiet
<1>2. \A p \in Procs : pc[p] = "idle" /\ wrote[p] = {} /\ tail[p] = 0
  BY <1>1 DEF LogInv, WroteLogged, LoopBounds
<1>3. InOp = {} /\ Committers = {} /\ Installed = {}
  BY <1>2 DEF InOp, Committers, Installed, CommitPCs
<1> QED
  BY <1>1, <1>2, <1>3 DEF Reserved

\* A step of recovery keeps all that is said of operations and commits.
LEMMA BootFrame ==
  ASSUME LogInv, mode \in BootModes,
         UNCHANGED <<outstanding, committing, pins, locals, panic>>,
         lh' \in Seq(Blocks), Len(lh') <= LOGSIZE, NoDuplicates(lh'),
         NoDuplicates(dhead'),
         mode' = "up" => lh' = <<>>
  PROVE  /\ OutstandingCounts' /\ CommitExclusive' /\ SpaceReserved'
         /\ LogShape' /\ WroteLogged' /\ PinsMatchLog' /\ PanicReasons'
<1>1. /\ InOp' = {} /\ Committers' = {} /\ Reserved' = {}
      /\ outstanding' = 0 /\ committing' = FALSE
      /\ pins' = [b \in Blocks |-> 0]
      /\ \A p \in Procs : pc'[p] = "idle" /\ wrote'[p] = {}
  BY BootAlone DEF InOp, Committers, Reserved, locals
<1>2. OutstandingCounts' /\ CommitExclusive'
  BY <1>1, FS_EmptySet DEF OutstandingCounts, CommitExclusive
<1>3. SpaceReserved'
  BY <1>1, FS_EmptySet DEF SpaceReserved
<1>4. LogShape'
  BY <1>1 DEF LogShape, NoDuplicates, IdleLogEmpty
<1>5. WroteLogged'
  BY <1>1, FS_EmptySet DEF WroteLogged
<1>6. PinsMatchLog'
  BY <1>1 DEF PinsMatchLog
<1>7. PanicReasons'
  BY DEF LogInv, PanicReasons, NoCommittingPanic, NoOverflowPanic
<1> QED
  BY <1>2, <1>3, <1>4, <1>5, <1>6, <1>7

LEMMA ReadHeadInv ==
  ASSUME LogInv, ReadHead
  PROVE  LogInv'
<1>0. /\ mode = "read_head" /\ mode \in BootModes
      /\ lh' = dhead
      /\ mode' = IF Len(dhead) > 0 THEN "recover_install" ELSE "recover_clear"
      /\ UNCHANGED <<home, logblk, dhead, outstanding, committing, cache, pins,
                     locals, rtail, panic, crashes>>
  BY DEF ReadHead, BootModes, disk, bufs
<1>1. TypeOK'
  BY <1>0 DEF LogInv, TypeOK, Modes, locals
<1>2. /\ OutstandingCounts' /\ CommitExclusive' /\ SpaceReserved'
      /\ LogShape' /\ WroteLogged' /\ PinsMatchLog' /\ PanicReasons'
  <2>1. /\ Len(lh') <= LOGSIZE /\ lh' \in Seq(Blocks)
        /\ NoDuplicates(lh') /\ NoDuplicates(dhead')
    BY <1>0 DEF LogInv, LoopBounds, LogShape, NoDuplicates, TypeOK
  <2>2. mode' # "up"
    BY <1>0
  <2> QED
    BY <1>0, <2>1, <2>2, BootFrame
<1>3. LoopBounds'
  <2>1. \A q \in Procs : pc'[q] = "idle" /\ tail'[q] = 0
    BY <1>0, BootAlone DEF locals
  <2>2. rtail = 0 /\ Len(dhead) \in Nat
    BY <1>0 DEF LogInv, LoopBounds, TypeOK
  <2> QED
    BY <1>0, <2>1, <2>2 DEF LogInv, LoopBounds
<1>4. BootQuiet'
  <2>1. Len(dhead) \in Nat /\ (Len(dhead) = 0 => dhead = <<>>)
    BY DEF LogInv, TypeOK
  <2> QED
    BY <1>0, <2>1 DEF LogInv, BootQuiet, BootModes, locals
<1> QED
  BY <1>1, <1>2, <1>3, <1>4 DEF LogInv

LEMMA RecoverInstallInv ==
  ASSUME LogInv, RecoverInstall
  PROVE  LogInv'
<1>0. /\ mode = "recover_install" /\ mode \in BootModes
      /\ home' = [home EXCEPT ![lh[rtail + 1]] = logblk[rtail + 1]]
      /\ cache' = [cache EXCEPT ![lh[rtail + 1]] = logblk[rtail + 1]]
      /\ IF rtail + 1 = Len(lh)
         THEN mode' = "recover_clear" /\ rtail' = 0 /\ lh' = <<>>
         ELSE rtail' = rtail + 1 /\ UNCHANGED <<mode, lh>>
      /\ UNCHANGED <<logblk, dhead, outstanding, committing, pins, locals,
                     panic, crashes>>
  BY DEF RecoverInstall, BootModes
<1>1. /\ lh \in Seq(Blocks) /\ Len(lh) \in Nat /\ rtail \in Nat
      /\ rtail + 1 \in 1 .. Len(lh)
      /\ Len(lh) <= NLog - 1 /\ Len(lh) <= LOGSIZE
      /\ NoDuplicates(lh) /\ NoDuplicates(dhead)
  BY <1>0 DEF LogInv, TypeOK, LoopBounds, LogShape, BootQuiet
<1>2. lh' \in Seq(Blocks) /\ Len(lh') <= LOGSIZE /\ Len(lh') <= NLog - 1
  <2>1. <<>> \in Seq(Blocks) /\ Len(<<>>) = 0
    OBVIOUS
  <2>2. CASE rtail + 1 = Len(lh)
    BY <1>0, <2>1, <2>2, SizesAssumption
  <2>3. CASE rtail + 1 # Len(lh)
    BY <1>0, <1>1, <2>3
  <2> QED
    BY <2>2, <2>3
<1>3. NoDuplicates(lh') /\ NoDuplicates(dhead') /\ mode' # "up"
  BY <1>0, <1>1 DEF NoDuplicates
<1>4. /\ OutstandingCounts' /\ CommitExclusive' /\ SpaceReserved'
      /\ LogShape' /\ WroteLogged' /\ PinsMatchLog' /\ PanicReasons'
  BY <1>0, <1>2, <1>3, BootFrame
<1>5. TypeOK'
  <2>1. logblk[rtail + 1] \in Values /\ lh[rtail + 1] \in Blocks
    BY <1>1, SizesAssumption DEF LogInv, TypeOK, LogBlocks
  <2>2. /\ home' \in [Blocks -> Values]
        /\ cache' \in [Blocks -> Values \cup {NoBuf}]
    BY <1>0, <2>1 DEF LogInv, TypeOK
  <2>3. mode' \in Modes /\ rtail' \in Nat
    BY <1>0, <1>1 DEF Modes
  <2> QED
    BY <1>0, <1>2, <2>2, <2>3 DEF LogInv, TypeOK, locals
<1>6. LoopBounds'
  <2>1. \A q \in Procs : pc'[q] = "idle" /\ tail'[q] = 0
    BY <1>0, BootAlone DEF locals
  <2>2. /\ mode' = "recover_install" => rtail' < Len(lh')
        /\ mode' # "recover_install" => rtail' = 0
    BY <1>0, <1>1
  <2> QED
    BY <1>0, <1>2, <2>1, <2>2 DEF LogInv, LoopBounds
<1>7. BootQuiet'
  BY <1>0 DEF LogInv, BootQuiet, BootModes, locals
<1> QED
  BY <1>4, <1>5, <1>6, <1>7 DEF LogInv

LEMMA RecoverClearInv ==
  ASSUME LogInv, RecoverClear
  PROVE  LogInv'
<1>0. /\ mode = "recover_clear" /\ mode \in BootModes
      /\ dhead' = lh /\ mode' = "up"
      /\ UNCHANGED <<home, logblk, lh, outstanding, committing, cache, pins,
                     locals, rtail, panic, crashes>>
      /\ lh = <<>>
  BY DEF RecoverClear, BootModes, logv, bufs, LogInv, BootQuiet
<1>1. /\ OutstandingCounts' /\ CommitExclusive' /\ SpaceReserved'
      /\ LogShape' /\ WroteLogged' /\ PinsMatchLog' /\ PanicReasons'
  <2>1. /\ lh' \in Seq(Blocks) /\ Len(lh') <= LOGSIZE
        /\ NoDuplicates(lh') /\ NoDuplicates(dhead')
    BY <1>0, SizesAssumption DEF NoDuplicates
  <2> QED
    BY <1>0, <2>1, BootFrame
<1>2. TypeOK'
  BY <1>0 DEF LogInv, TypeOK, Modes, locals
<1>3. LoopBounds'
  <2>1. \A q \in Procs : pc'[q] = "idle" /\ tail'[q] = 0
    BY <1>0, BootAlone DEF locals
  <2> QED
    BY <1>0, <2>1, SizesAssumption DEF LogInv, LoopBounds
<1>4. BootQuiet'
  BY <1>0 DEF BootQuiet, BootModes
<1> QED
  BY <1>1, <1>2, <1>3, <1>4 DEF LogInv

LEMMA CrashInv ==
  ASSUME LogInv, Crash
  PROVE  LogInv'
<1>0. /\ crashes \in Nat /\ crashes < MaxCrashes /\ crashes' = crashes + 1
      /\ lh' = <<>> /\ outstanding' = 0 /\ committing' = FALSE
      /\ cache' = [b \in Blocks |-> NoBuf] /\ pins' = [b \in Blocks |-> 0]
      /\ pc' = [p \in Procs |-> "idle"] /\ tail' = [p \in Procs |-> 0]
      /\ wrote' = [p \in Procs |-> {}]
      /\ mode' = "read_head" /\ rtail' = 0 /\ panic' = "none"
      /\ UNCHANGED <<home, logblk, dhead>>
  BY SizesAssumption DEF Crash, disk, LogInv, TypeOK
<1>1. TypeOK'
  <2>1. crashes' \in 0 .. MaxCrashes
    BY <1>0, SizesAssumption
  <2>2. cache' \in [Blocks -> Values \cup {NoBuf}] /\ pins' \in [Blocks -> Nat]
    BY <1>0
  <2>3. /\ pc' \in [Procs -> PCs] /\ tail' \in [Procs -> Nat]
        /\ wrote' \in [Procs -> SUBSET Blocks]
    BY <1>0 DEF PCs
  <2>4. lh' \in Seq(Blocks)
    BY <1>0
  <2>5. mode' \in Modes /\ rtail' \in Nat /\ panic' \in Panics
    BY <1>0 DEF Modes, Panics
  <2> QED
    BY <1>0, <2>1, <2>2, <2>3, <2>4, <2>5 DEF LogInv, TypeOK
<1>2. InOp' = {} /\ Committers' = {}
  BY <1>0 DEF InOp, Committers, CommitPCs
<1>3. Reserved' = {}
  BY <1>2 DEF Reserved
<1>4. OutstandingCounts' /\ CommitExclusive' /\ SpaceReserved'
  BY <1>0, <1>2, <1>3, FS_EmptySet, SizesAssumption
  DEF OutstandingCounts, CommitExclusive, SpaceReserved
<1>5. LoopBounds'
  BY <1>0, SizesAssumption DEF LogInv, LoopBounds
<1>6. LogShape'
  BY <1>0 DEF LogInv, LogShape, NoDuplicates, IdleLogEmpty
<1>7. WroteLogged'
  BY <1>0, FS_EmptySet DEF WroteLogged
<1>8. PinsMatchLog' /\ BootQuiet' /\ PanicReasons'
  BY <1>0 DEF PinsMatchLog, BootQuiet, BootModes, PanicReasons,
              NoCommittingPanic, NoOverflowPanic
<1> QED
  BY <1>1, <1>4, <1>5, <1>6, <1>7, <1>8 DEF LogInv

-----------------------------------------------------------------------------
LEMMA NextInv == LogInv /\ [Next]_vars => LogInv'
<1> SUFFICES ASSUME LogInv, [Next]_vars PROVE LogInv'
  OBVIOUS
<1>1. CASE UNCHANGED vars
  <2>1. cache' \in [Blocks -> Values \cup {NoBuf}]
    BY <1>1 DEF vars, LogInv, TypeOK
  <2>2. UNCHANGED <<disk, logv, pins, locals, boot>>
    BY <1>1 DEF vars, disk, logv, locals, boot
  <2> QED
    BY <2>1, <2>2, CacheOnly
<1>2. CASE \E p \in Procs : Step(p) \/ BeginCall(p) \/ SyncCall(p)
  <2>1. PICK p \in Procs : Step(p) \/ BeginCall(p) \/ SyncCall(p)
    BY <1>2
  <2>2. CASE BeginCall(p) \/ SyncCall(p)
    BY <2>2, BeginCallInv, SyncCallInv
  <2>3. CASE Step(p)
    BY <2>3, BeginOpInv, EndOpInv, WriteLogInv, WriteHeadInv, InstallInv,
       ClearHeadInv, CommitDoneInv, SyncInv DEF Step
  <2> QED
    BY <2>1, <2>2, <2>3
<1>3. CASE \E p \in Procs, b \in Blocks, v \in Values : LogWrite(p, b, v)
  BY <1>3, LogWriteInv
<1>4. CASE \E b \in Blocks : (\E p \in Procs : ReadBlock(p, b)) \/ Recycle(b)
  BY <1>4, BufferInv
<1>5. CASE ReadHead \/ RecoverInstall \/ RecoverClear \/ Crash
  BY <1>5, ReadHeadInv, RecoverInstallInv, RecoverClearInv, CrashInv
<1> QED
  BY <1>1, <1>2, <1>3, <1>4, <1>5 DEF Next

(***************************************************************************)
(* The inductive invariant holds in every reachable state of the journal.  *)
(***************************************************************************)
THEOREM LogInvariant == Spec => []LogInv
<1>1. Init => LogInv
  BY InitInv
<1>2. LogInv /\ [Next]_vars => LogInv'
  BY NextInv
<1> QED
  BY <1>1, <1>2, PTL DEF Spec

(***************************************************************************)
(* Every variable of the journal keeps its type: no access to the log      *)
(* area, no decrement of outstanding or of a reference count goes out of   *)
(* its range (log.rs:141, 146, 205).                                       *)
(***************************************************************************)
THEOREM LogTypes == Spec => []TypeOK
<1>1. LogInv => TypeOK
  BY DEF LogInv
<1> QED
  BY <1>1, LogInvariant, PTL

(***************************************************************************)
(* commit() runs alone: no second committer and no open operation while it *)
(* works on the log without a lock (log.rs:16-20, 221-225).                *)
(***************************************************************************)
THEOREM CommitsAreExclusive == Spec => [](OutstandingCounts /\ CommitExclusive)
<1>1. LogInv => OutstandingCounts /\ CommitExclusive
  BY DEF LogInv
<1> QED
  BY <1>1, LogInvariant, PTL

(***************************************************************************)
(* The reservation of begin_op is enough for every LOGSIZE and MAXOPBLOCKS *)
(* and any number of concurrent operations (log.rs:186-188).               *)
(***************************************************************************)
THEOREM ReservationSuffices == Spec => []SpaceReserved
<1>1. LogInv => SpaceReserved
  BY DEF LogInv
<1> QED
  BY <1>1, LogInvariant, PTL

(***************************************************************************)
(* With a log area of LOGSIZE data blocks and its header, no operation is  *)
(* ever stopped for a new block; end_op never meets its panic, whatever    *)
(* the area (log.rs:206-208, 270-272).                                     *)
(***************************************************************************)
THEOREM NoPanics ==
  Spec => [](NoCommittingPanic /\ (NLog > LOGSIZE => NoOverflowPanic))
<1>1. LogInv => NoCommittingPanic /\ (NLog > LOGSIZE => NoOverflowPanic)
  BY DEF LogInv, PanicReasons
<1> QED
  BY <1>1, LogInvariant, PTL

(***************************************************************************)
(* sync finds the log empty (log.rs:242), and the pins on buffers are      *)
(* exactly those of the blocks still to be written home.                   *)
(***************************************************************************)
THEOREM QuietLogIsEmpty == Spec => [](IdleLogEmpty /\ PinsMatchLog)
<1>1. LogInv => IdleLogEmpty /\ PinsMatchLog
  BY DEF LogInv, LogShape
<1> QED
  BY <1>1, LogInvariant, PTL
=============================================================================
