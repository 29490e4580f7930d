-------------------------------- MODULE Proc --------------------------------
(***************************************************************************)
(* Processes and the scheduler of crates/kernel/src/proc.rs and runq.rs:   *)
(* the process table, fork, clone, wait, join, exit with reap_threads,     *)
(* kill, sleep, wakeup and yielding, and the per-CPU scheduler loops with  *)
(* their run queues and work stealing.                                     *)
(*                                                                         *)
(* A process that changes its state holds its "proc" lock until it is off  *)
(* its CPU, so that the change and the switch are one step.  The lock of   *)
(* PROCS.parents is held over several steps and is a variable.  The only   *)
(* sleeps are those of wait, join and reap_threads, each on the channel of *)
(* the sleeping process itself.  The only signal is the one that kills,    *)
(* and nobody sends it to init.                                            *)
(***************************************************************************)
EXTENDS Integers, Sequences, FiniteSets

CONSTANTS Slots,      \* the slots of PROCS.pool
          INITPROC,   \* the slot of init
          CPUs,       \* the CPUs
          None,       \* no process
          Calls       \* bound: what programs do, of AllCalls

AllCalls == {"fork", "clone", "wait", "join", "exit", "kill"}

ASSUME SlotsAssumption == INITPROC \in Slots /\ None \notin Slots
ASSUME CallsAssumption == Calls \subseteq AllCalls

VARIABLES
    state,      \* ProcInner.state
    killed,     \* ProcInner.killed
    lastCpu,    \* ProcInner.last_cpu
    thread,     \* ProcData.is_thread
    parent,     \* PROCS.parents
    plk,        \* who holds the lock of PROCS.parents between two steps
    runq,       \* RUNQS
    victims,    \* the CPUs whose queue a scheduler has still to try in its steal
    hand,       \* what a scheduler has popped and not yet dispatched
    cur,        \* Cpu.proc
    pc,         \* where each process is in the kernel
    child       \* the slot that fork or clone has allocated

vars == <<state, killed, lastCpu, thread, parent, plk, runq, victims, hand, cur, pc, child>>
tree == <<thread, parent>>
sched == <<victims, hand>>

States == {"UNUSED", "USED", "SLEEPING", "RUNNABLE", "RUNNING", "ZOMBIE"}
PCs == {"user", "fork", "forkrun", "clone", "clonerun", "ret", "killthreads", "exit", "wakeinit", "wakeparent", "zombie",
        "wait", "waitcheck", "waitsleep", "join", "joincheck", "joinsleep",
        "reap", "reapcheck", "reapsleep"}

\* user_init
Init ==
    /\ state = [p \in Slots |-> IF p = INITPROC THEN "RUNNABLE" ELSE "UNUSED"]
    /\ killed = [p \in Slots |-> FALSE]
    /\ thread = [p \in Slots |-> FALSE]
    /\ parent = [p \in Slots |-> None]
    /\ plk = None
    /\ \E c \in CPUs :
          /\ lastCpu = [p \in Slots |-> c]
          /\ runq = [d \in CPUs |-> IF d = c THEN <<INITPROC>> ELSE <<>>]
    /\ victims = [c \in CPUs |-> {}]
    /\ hand = [c \in CPUs |-> None]
    /\ cur = [c \in CPUs |-> None]
    /\ pc = [p \in Slots |-> "user"]
    /\ child = [p \in Slots |-> None]

-----------------------------------------------------------------------------
\* A changed form: the newest entry runs first.
MakeRunnable_PushFront(p) ==
    IF state[p] # "RUNNABLE"
    THEN /\ state' = [state EXCEPT ![p] = "RUNNABLE"]
         /\ runq' = [runq EXCEPT ![lastCpu[p]] = <<p>> \o @]
    ELSE UNCHANGED <<state, runq>>

(***************************************************************************)
(* make_runnable: the process goes to the queue of the CPU it last ran on. *)
(***************************************************************************)
MakeRunnable(p) ==
    IF state[p] # "RUNNABLE"
    THEN /\ state' = [state EXCEPT ![p] = "RUNNABLE"]
         /\ runq' = [runq EXCEPT ![lastCpu[p]] = Append(@, p)]
    ELSE UNCHANGED <<state, runq>>

\* A changed form: a process that is not asleep is woken too.
Wakeup_AnyState(p) ==
    IF state[p] \in {"SLEEPING", "RUNNING"}
    THEN MakeRunnable(p)
    ELSE UNCHANGED <<state, runq>>

\* wakeup of the channel of p, on which only p sleeps.
Wakeup(p) ==
    IF state[p] = "SLEEPING" THEN MakeRunnable(p) ELSE UNCHANGED <<state, runq>>

Goto(p, l) == pc' = [pc EXCEPT ![p] = l]

Running(c, p) == p \in Slots /\ cur[c] = p

\* A changed form: Cpu.proc is not cleared.
SwitchAway_KeepsProc(c, p, s) ==
    /\ state' = [state EXCEPT ![p] = s]
    /\ UNCHANGED cur

\* sched: the process leaves its CPU in the state it has set.
SwitchAway(c, p, s) ==
    /\ state' = [state EXCEPT ![p] = s]
    /\ cur' = [cur EXCEPT ![c] = None]

-----------------------------------------------------------------------------
\* RunQueue::pop of the queue of CPU d, for the scheduler of CPU c.
Take(c, d) ==
    /\ hand' = [hand EXCEPT ![c] = Head(runq[d])]
    /\ runq' = [runq EXCEPT ![d] = Tail(@)]

\* A changed form: head is not advanced.
Pop_KeepsEntry(c) ==
    /\ cur[c] = None /\ hand[c] = None /\ victims[c] = {}
    /\ IF runq[c] # <<>>
       THEN hand' = [hand EXCEPT ![c] = Head(runq[c])] /\ UNCHANGED victims
       ELSE victims' = [victims EXCEPT ![c] = CPUs \ {c}] /\ UNCHANGED hand
    /\ UNCHANGED <<state, killed, lastCpu, tree, plk, runq, cur, pc, child>>

(***************************************************************************)
(* scheduler: pop the CPU's own queue; if that is empty try the others one *)
(* after the other, each under its own lock and in an order that rotates   *)
(* from steal to steal; then dispatch what was popped if it is still       *)
(* runnable.  With nothing found the CPU waits for an interrupt and starts *)
(* again.                                                                  *)
(***************************************************************************)
Pop(c) ==
    /\ cur[c] = None /\ hand[c] = None /\ victims[c] = {}
    /\ IF runq[c] # <<>>
       THEN Take(c, c) /\ UNCHANGED victims
       ELSE /\ victims' = [victims EXCEPT ![c] = CPUs \ {c}]
            /\ UNCHANGED <<hand, runq>>
    /\ UNCHANGED <<state, killed, lastCpu, tree, plk, cur, pc, child>>

Steal(c) ==
    /\ \E d \in victims[c] :
          IF runq[d] # <<>>
          THEN Take(c, d) /\ victims' = [victims EXCEPT ![c] = {}]
          ELSE /\ victims' = [victims EXCEPT ![c] = @ \ {d}]
               /\ UNCHANGED <<hand, runq>>
    /\ UNCHANGED <<state, killed, lastCpu, tree, plk, cur, pc, child>>

Dispatch(c) ==
    /\ hand[c] # None
    /\ LET p == hand[c]
       IN  IF state[p] = "RUNNABLE"
           THEN /\ state' = [state EXCEPT ![p] = "RUNNING"]
                /\ lastCpu' = [lastCpu EXCEPT ![p] = c]
                /\ cur' = [cur EXCEPT ![c] = p]
           ELSE UNCHANGED <<state, lastCpu, cur>>
    /\ hand' = [hand EXCEPT ![c] = None]
    /\ UNCHANGED <<killed, tree, plk, runq, victims, pc, child>>

\* yielding, on a timer interrupt; a process that holds a lock takes none.
Yield(c, p) ==
    /\ Running(c, p)
    /\ plk # p
    /\ MakeRunnable(p)
    /\ cur' = [cur EXCEPT ![c] = None]
    /\ UNCHANGED <<killed, lastCpu, tree, plk, sched, pc, child>>

-----------------------------------------------------------------------------
(***************************************************************************)
(* fork and clone: allocate a slot; when the child is complete enter its   *)
(* parent, with PROCS.parents locked; then make it runnable.               *)
(***************************************************************************)
Alloc(c, p, isThread, next) ==
    /\ Running(c, p)
    /\ pc[p] = "user" /\ ~killed[p]
    /\ \E s \in Slots :
          /\ state[s] = "UNUSED"
          /\ state' = [state EXCEPT ![s] = "USED"]
          /\ thread' = [thread EXCEPT ![s] = isThread]
          /\ child' = [child EXCEPT ![p] = s]
    /\ Goto(p, next)
    /\ UNCHANGED <<killed, lastCpu, parent, plk, runq, sched, cur>>

EnterParent(c, p, l, next) ==
    /\ Running(c, p)
    /\ pc[p] = l
    /\ plk = None
    /\ parent' = [parent EXCEPT ![child[p]] = p]
    /\ Goto(p, next)
    /\ UNCHANGED <<state, killed, lastCpu, thread, plk, runq, sched, cur, child>>

StartChild(c, p, l) ==
    /\ Running(c, p)
    /\ pc[p] = l
    /\ MakeRunnable(child[p])
    /\ child' = [child EXCEPT ![p] = None]
    /\ Goto(p, "ret")
    /\ UNCHANGED <<killed, lastCpu, tree, plk, sched, cur>>

Fork(c, p) == Alloc(c, p, FALSE, "fork")
ForkParent(c, p) == EnterParent(c, p, "fork", "forkrun")
ForkRun(c, p) == StartChild(c, p, "forkrun")

Clone(c, p) == Alloc(c, p, TRUE, "clone")
CloneParent(c, p) == EnterParent(c, p, "clone", "clonerun")
CloneRun(c, p) == StartChild(c, p, "clonerun")

-----------------------------------------------------------------------------
(***************************************************************************)
(* wait and join.  The scan frees a zombie child and returns, or returns   *)
(* without freeing it if its status cannot be copied to the caller; or it  *)
(* goes on, with PROCS.parents locked, to look at killed and then to       *)
(* sleep.  Init gives wait a variable of its own, which does not fail      *)
(* (user/src/bin/init.rs:82-86, user/src/lib/process.rs:568-574).          *)
(***************************************************************************)
Kids(p, isThread) == {q \in Slots : parent[q] = p /\ thread[q] = isThread}
Zombies(S) == {q \in S : state[q] = "ZOMBIE"}

\* Proc::free of the processes in Z, and their entries in PROCS.parents.
Free(Z) ==
    /\ state' = [q \in Slots |-> IF q \in Z THEN "UNUSED" ELSE state[q]]
    /\ killed' = [q \in Slots |-> killed[q] /\ q \notin Z]
    /\ thread' = [q \in Slots |-> thread[q] /\ q \notin Z]
    /\ parent' = [q \in Slots |-> IF q \in Z THEN None ELSE parent[q]]

Call(c, p, l) ==
    /\ Running(c, p)
    /\ pc[p] = "user" /\ ~killed[p]
    /\ Goto(p, l)
    /\ UNCHANGED <<state, killed, lastCpu, tree, plk, runq, sched, cur, child>>

Scan(c, p, isThread, l, check) ==
    /\ Running(c, p)
    /\ pc[p] = l
    /\ plk = None
    /\ LET zs == Zombies(Kids(p, isThread))
       IN  IF zs # {}
           THEN \/ \E z \in zs :
                      /\ Free({z})
                      /\ pc' = [pc EXCEPT ![p] = "ret", ![z] = "user"]
                      /\ UNCHANGED plk
                \/ /\ p # INITPROC
                   /\ Goto(p, "ret")
                   /\ UNCHANGED <<state, killed, tree, plk>>
           ELSE /\ plk' = p
                /\ Goto(p, check)
                /\ UNCHANGED <<state, killed, tree>>
    /\ UNCHANGED <<lastCpu, runq, sched, cur, child>>

\* A changed form: PROCS.parents is unlocked before the sleep.
Check_UnlocksEarly(c, p, isThread, check, sleep) ==
    /\ Running(c, p)
    /\ pc[p] = check
    /\ Goto(p, IF Kids(p, isThread) = {} \/ killed[p] THEN "ret" ELSE sleep)
    /\ plk' = None
    /\ UNCHANGED <<state, killed, lastCpu, tree, runq, sched, cur, child>>

\* No child, or killed: an error.
Check(c, p, isThread, check, sleep) ==
    /\ Running(c, p)
    /\ pc[p] = check
    /\ IF Kids(p, isThread) = {} \/ killed[p]
       THEN Goto(p, "ret") /\ plk' = None
       ELSE Goto(p, sleep) /\ UNCHANGED plk
    /\ UNCHANGED <<state, killed, lastCpu, tree, runq, sched, cur, child>>

\* sleep on the process's own channel, releasing PROCS.parents.
Sleep(c, p, sleep, l) ==
    /\ Running(c, p)
    /\ pc[p] = sleep
    /\ plk' = None
    /\ SwitchAway(c, p, "SLEEPING")
    /\ Goto(p, l)
    /\ UNCHANGED <<killed, lastCpu, tree, runq, sched, child>>

WaitScan(c, p) == Scan(c, p, FALSE, "wait", "waitcheck")
WaitCheck(c, p) == Check(c, p, FALSE, "waitcheck", "waitsleep")
WaitSleep(c, p) == Sleep(c, p, "waitsleep", "wait")

JoinScan(c, p) == Scan(c, p, TRUE, "join", "joincheck")
JoinCheck(c, p) == Check(c, p, TRUE, "joincheck", "joinsleep")
JoinSleep(c, p) == Sleep(c, p, "joinsleep", "join")

\* waitpid with WNOHANG and no zombie child returns 0.
WaitNoHang(c, p) ==
    /\ Running(c, p)
    /\ pc[p] = "wait"
    /\ plk = None
    /\ Zombies(Kids(p, FALSE)) = {}
    /\ Goto(p, "ret")
    /\ UNCHANGED <<state, killed, lastCpu, tree, plk, runq, sched, cur, child>>

-----------------------------------------------------------------------------
(***************************************************************************)
(* exit.  A process that is no thread first kills its threads, one by one  *)
(* with PROCS.parents locked, and frees those that are zombies until it    *)
(* sees none left.  It counts the threads of a pass before freeing them.   *)
(***************************************************************************)
\* The system call, or a trap from user space of a killed process, or the
\* return of one from the kernel.
Exit(c, p) ==
    /\ Running(c, p)
    /\ p # INITPROC
    /\ pc[p] = "user" \/ (pc[p] = "ret" /\ killed[p])
    /\ Goto(p, IF thread[p] THEN "exit" ELSE "killthreads")
    /\ UNCHANGED <<state, killed, lastCpu, tree, plk, runq, sched, cur, child>>

Return(c, p) ==
    /\ Running(c, p)
    /\ pc[p] = "ret" /\ ~killed[p]
    /\ Goto(p, "user")
    /\ UNCHANGED <<state, killed, lastCpu, tree, plk, runq, sched, cur, child>>

KillThread(c, p) ==
    /\ Running(c, p)
    /\ pc[p] = "killthreads"
    /\ plk \in {None, p}
    /\ LET todo == {q \in Kids(p, TRUE) : ~killed[q] \/ state[q] = "SLEEPING"}
       IN  IF todo = {}
           THEN /\ Goto(p, "reap")
                /\ plk' = None
                /\ UNCHANGED <<state, killed, runq>>
           ELSE \E q \in todo :
                   /\ killed' = [killed EXCEPT ![q] = TRUE]
                   /\ Wakeup(q)
                   /\ plk' = p
                   /\ UNCHANGED pc
    /\ UNCHANGED <<lastCpu, tree, sched, cur, child>>

ReapScan(c, p) ==
    /\ Running(c, p)
    /\ pc[p] = "reap"
    /\ plk = None
    /\ LET zs == Zombies(Kids(p, TRUE))
       IN  /\ Free(zs)
           /\ pc' = [q \in Slots |->
                        CASE q = p -> IF Kids(p, TRUE) = {} THEN "exit" ELSE "reapcheck"
                          [] q \in zs -> "user"
                          [] OTHER -> pc[q]]
    /\ plk' = IF Kids(p, TRUE) = {} THEN None ELSE p
    /\ UNCHANGED <<lastCpu, runq, sched, cur, child>>

\* A killed process gives up reaping; exit goes on all the same.
ReapCheck(c, p) ==
    /\ Running(c, p)
    /\ pc[p] = "reapcheck"
    /\ IF killed[p]
       THEN Goto(p, "exit") /\ plk' = None
       ELSE Goto(p, "reapsleep") /\ UNCHANGED plk
    /\ UNCHANGED <<state, killed, lastCpu, tree, runq, sched, cur, child>>

ReapSleep(c, p) == Sleep(c, p, "reapsleep", "reap")

\* A changed form: children that have exited stay with the dying parent.
ExitReparent_SkipsZombies(c, p) ==
    /\ Running(c, p)
    /\ pc[p] = "exit"
    /\ plk = None
    /\ plk' = p
    /\ parent' = [q \in Slots |->
                     IF parent[q] = p /\ state[q] # "ZOMBIE" THEN INITPROC ELSE parent[q]]
    /\ Goto(p, "wakeinit")
    /\ UNCHANGED <<state, killed, lastCpu, thread, runq, sched, cur, child>>

\* Files and the working directory are closed; then, with PROCS.parents locked,
\* abandoned children go to init, and init and the parent are woken.
ExitReparent(c, p) ==
    /\ Running(c, p)
    /\ pc[p] = "exit"
    /\ plk = None
    /\ plk' = p
    /\ parent' = [q \in Slots |-> IF parent[q] = p THEN INITPROC ELSE parent[q]]
    /\ Goto(p, IF \E q \in Slots : parent[q] = p THEN "wakeinit" ELSE "wakeparent")
    /\ UNCHANGED <<state, killed, lastCpu, thread, runq, sched, cur, child>>

ExitWake(c, p, q, l, next) ==
    /\ Running(c, p)
    /\ pc[p] = l
    /\ Wakeup(q)
    /\ Goto(p, next)
    /\ UNCHANGED <<killed, lastCpu, tree, plk, sched, cur, child>>

\* A changed form: the wrong channel is woken.
ExitWakeParent_OwnChannel(c, p) == ExitWake(c, p, p, "wakeparent", "zombie")

ExitWakeInit(c, p) == ExitWake(c, p, INITPROC, "wakeinit", "wakeparent")
ExitWakeParent(c, p) == ExitWake(c, p, parent[p], "wakeparent", "zombie")

ExitZombie(c, p) ==
    /\ Running(c, p)
    /\ pc[p] = "zombie"
    /\ SwitchAway(c, p, "ZOMBIE")
    /\ plk' = None
    /\ UNCHANGED <<killed, lastCpu, tree, runq, sched, pc, child>>

\* kill(SIGKILL), by anyone.
Kill(q) ==
    /\ q # INITPROC
    /\ state[q] # "UNUSED"
    /\ killed' = [killed EXCEPT ![q] = TRUE]
    /\ Wakeup(q)
    /\ UNCHANGED <<lastCpu, tree, plk, sched, cur, pc, child>>

-----------------------------------------------------------------------------
\* What a process goes on to do in the kernel once it runs.
KernelStep(c, p) ==
    \/ ForkParent(c, p) \/ ForkRun(c, p) \/ CloneParent(c, p) \/ CloneRun(c, p)
    \/ Return(c, p)
    \/ WaitScan(c, p) \/ WaitCheck(c, p) \/ WaitSleep(c, p)
    \/ JoinScan(c, p) \/ JoinCheck(c, p) \/ JoinSleep(c, p)
    \/ KillThread(c, p) \/ ReapScan(c, p) \/ ReapCheck(c, p) \/ ReapSleep(c, p)
    \/ ExitReparent(c, p) \/ ExitWakeInit(c, p) \/ ExitWakeParent(c, p) \/ ExitZombie(c, p)
    \/ (killed[p] /\ Exit(c, p))

\* What programs ask for.  Init forks and waits and does nothing else.
UserStep(c, p) ==
    \/ "fork" \in Calls /\ Fork(c, p)
    \/ "exit" \in Calls /\ Exit(c, p)
    \/ "wait" \in Calls /\ Call(c, p, "wait")
    \/ /\ p # INITPROC
       /\ \/ "clone" \in Calls /\ Clone(c, p)
          \/ "join" \in Calls /\ Call(c, p, "join")
          \/ "wait" \in Calls /\ WaitNoHang(c, p)

Next ==
    \/ \E c \in CPUs :
          \/ Pop(c)
          \/ Steal(c)
          \/ Dispatch(c)
          \/ \E p \in Slots : Yield(c, p) \/ KernelStep(c, p) \/ UserStep(c, p)
    \/ "kill" \in Calls /\ \E q \in Slots : Kill(q)

Spec == Init /\ [][Next]_vars

(***************************************************************************)
(* Every CPU's scheduler runs, and its timer interrupts whatever runs on   *)
(* it: an interrupt that comes while a lock is held is taken afterwards.   *)
(* A process that is given a CPU again and again goes on, and takes a spin *)
(* lock that is free again and again.  Init waits for its children         *)
(* (user/src/bin/init.rs:82-86).                                           *)
(***************************************************************************)
Fairness ==
    /\ \A c \in CPUs : WF_vars(Pop(c) \/ Steal(c) \/ Dispatch(c))
    /\ \A c \in CPUs : SF_vars(\E p \in Slots : Yield(c, p))
    /\ \A p \in Slots : SF_vars(\E c \in CPUs : KernelStep(c, p))
    /\ SF_vars(\E c \in CPUs : Call(c, INITPROC, "wait"))

FairSpec == Spec /\ Fairness

-----------------------------------------------------------------------------
TypeOK ==
    /\ state \in [Slots -> States]
    /\ killed \in [Slots -> BOOLEAN]
    /\ lastCpu \in [Slots -> CPUs]
    /\ thread \in [Slots -> BOOLEAN]
    /\ parent \in [Slots -> Slots \cup {None}]
    /\ plk \in Slots \cup {None}
    /\ runq \in [CPUs -> Seq(Slots)]
    /\ \A c \in CPUs : Len(runq[c]) <= Cardinality(Slots)   \* RunQueue.buf
    /\ victims \in [CPUs -> SUBSET CPUs]
    /\ hand \in [CPUs -> Slots \cup {None}]
    /\ cur \in [CPUs -> Slots \cup {None}]
    /\ pc \in [Slots -> PCs]
    /\ child \in [Slots -> Slots \cup {None}]

(***************************************************************************)
(* A process is in the run queues once if it is runnable and not at all    *)
(* otherwise, a popped one counted as queued until it is dispatched: so no *)
(* wakeup, kill, yield or steal queues a process twice or loses it.        *)
(***************************************************************************)
QueuedOnce ==
    \A p \in Slots :
        /\ \A c, d \in CPUs : \A i \in 1 .. Len(runq[c]), j \in 1 .. Len(runq[d]) :
              runq[c][i] = p /\ runq[d][j] = p => c = d /\ i = j
        /\ \A c, d \in CPUs : hand[c] = p /\ hand[d] = p => c = d
        /\ \A c, d \in CPUs : \A i \in 1 .. Len(runq[d]) : ~(hand[c] = p /\ runq[d][i] = p)
        /\ state[p] = "RUNNABLE" <=>
              \E c \in CPUs : hand[c] = p \/ \E i \in 1 .. Len(runq[c]) : runq[c][i] = p

(***************************************************************************)
(* A process runs on one CPU at a time, the one whose Cpu.proc it is, and  *)
(* only while its state says so (proc.rs:1003-1011).                       *)
(***************************************************************************)
RunsOnOneCpu ==
    /\ \A c, d \in CPUs : cur[c] # None /\ cur[c] = cur[d] => c = d
    /\ \A p \in Slots : state[p] = "RUNNING" <=> \E c \in CPUs : cur[c] = p

(***************************************************************************)
(* Every process but init that has been made runnable has a parent, and a  *)
(* parent can still wait: exit hands abandoned children to init before it  *)
(* becomes a zombie, a child that fork has not made runnable yet included, *)
(* and no slot is freed that is a parent or keeps the one it had           *)
(* (proc.rs:1119-1132, 1371-1375, 1786-1787).                              *)
(***************************************************************************)
ParentsAlive ==
    \A p \in Slots \ {INITPROC} :
        /\ state[p] = "UNUSED" => parent[p] = None
        /\ state[p] \notin {"UNUSED", "USED"} => parent[p] # None
        /\ parent[p] # None => state[parent[p]] \notin {"UNUSED", "USED", "ZOMBIE"}

(***************************************************************************)
(* Nobody sleeps in wait or join over a child that is a zombie already: a  *)
(* child that exits between the scan and the sleep is not missed, although *)
(* exit wakes the parent before it sets its state (proc.rs:1128-1132).     *)
(***************************************************************************)
NoMissedExit ==
    plk = None =>
      \A p \in Slots :
        state[p] = "SLEEPING" =>
            /\ pc[p] = "wait" => Zombies(Kids(p, FALSE)) = {}
            /\ pc[p] \in {"join", "reap"} => Zombies(Kids(p, TRUE)) = {}

(***************************************************************************)
(* Every runnable process is run: while the CPUs get their ticks neither a *)
(* CPU that keeps to its own queue nor one that steals from the queues of  *)
(* others (runq.rs:112-128) starves anybody.                               *)
(***************************************************************************)
RunnableRuns ==
    \A p \in Slots : (state[p] = "RUNNABLE") ~> (state[p] = "RUNNING")

(***************************************************************************)
(* While init has zombie children it goes on reaping, so orphans do not    *)
(* use up the table (proc.rs:1119 "Pass p's abandoned children to init."). *)
(* No one zombie is sure of its turn: the scan takes the first it meets.   *)
(***************************************************************************)
InitReaps ==
    \/ []<>(Zombies(Kids(INITPROC, FALSE)) = {})
    \/ []<><<\E z \in Zombies(Kids(INITPROC, FALSE)) : state'[z] = "UNUSED">>_vars

(***************************************************************************)
(* "Terminate the current process; status reported to wait()."             *)
(* (syscall.rs:129): a process that calls exit becomes a zombie.           *)
(***************************************************************************)
ExitCompletes ==
    \A p \in Slots :
        (state[p] = "RUNNING" /\ pc[p] = "killthreads") ~> (state[p] \in {"ZOMBIE", "UNUSED"})
=============================================================================
