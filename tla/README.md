# Verification of Web OS

TLA+ models of the parts of Web OS that are hard to test: the journal, the
buffer cache, pipes, and processes with the scheduler. TLC checks them on small
instances; TLAPS proves the properties of the journal for every size.
`PROJECT.json` lists components, runs, mutants, the map from definitions to
source lines, findings, hazards and theorems.

All source paths below are relative to `src/crates/kernel/src/`.

## The system and its parts

Web OS is a UNIX-like kernel in Rust for RISC-V with several CPUs. User
processes enter it by system calls and traps; each CPU runs a scheduler loop
that also polls the tasks of a kernel executor. Kernel code is preempted by the
timer except while a spin lock is held. Processes wait with `sleep(chan, guard)`
and `wakeup(chan)`.

| part | source | module | state |
|---|---|---|---|
| journal | `log.rs` | `Log`, abstract: `TxnDisk` | modelled, proved |
| buffer cache, sleep locks | `bio.rs`, `sleeplock.rs` | `BufCache` | modelled |
| pipes, channels, semaphores | `pipe.rs`, `mpmc.rs`, `semaphore.rs`, `condvar.rs`, `File::drop` of `file.rs` | `Channel` | modelled but for the poll queries |
| processes, scheduler, run queues | `proc.rs`, `runq.rs`, part of `trap.rs` | `Proc` | core modelled |
| signals, timers, job control | `proc.rs`, `signal.rs`, `console.rs` | - | planned |
| inodes, directories, files, locks | `fs.rs`, `file.rs`, `fcntl.rs` | - | planned |
| memory: buddy, references, page tables, copy on write, mmap, IPC | `buddy.rs`, `kalloc.rs`, `vm.rs`, `ipc.rs` | - | planned |
| disk driver and kernel executor | `virtio_disk.rs`, `task.rs` | - | planned |
| sockets and TCP/UDP | `socket.rs`, `net.rs`, `virtio_net.rs` | - | planned |
| console, UART, framebuffer, input | `console.rs`, `uart.rs`, ... | - | console and UART planned |
| user space, mkfs, web application | `../../user`, `../../mkfs`, `../../app` | - | concurrent parts planned |

The file system calls `begin_op`, changes cached blocks, hands them to
`LOG.write` and calls `end_op`. The journal pins the blocks in the buffer cache
until they are installed. Both sleep and wake through the scheduler, and so do
pipes. Each model represents what it uses of the others by its effect: `Log`
sees of the cache only contents and pins, and `Channel` and `BufCache` see
`sleep` and `wakeup` as the change of a program counter.

## The models

### Log and TxnDisk

`Log` is `log.rs`. Each write of a disk block is a step, and `Crash` may come
between any two. State: the data blocks, log blocks and header on disk; `lh`,
`outstanding` and `committing` of `struct Log`; the cached contents and the pins;
a program counter for every process in `begin_op`, `LOG.write`, `end_op`,
`commit` and `sync`; and the progress of `recover` at boot. `commit` runs
without the lock, as in the code: `WriteLog`, `WriteHead`, `Install`,
`ClearHead`, `CommitDone`.

`TxnDisk` is what the journal promises: operations change a visible disk, a
commit makes it durable at one instant and only when no operation is open, a
crash goes back to the durable disk, and `fsync` returns only at a moment when
all that is visible is durable. `Log` implements it under the mapping in
`Log.tla`: the durable disk is the data blocks overlaid with the logged blocks
that the on-disk header names (`Survives`), the visible one is what the cache
shows (`Visible`).

### BufCache

`bio.rs` and `sleeplock.rs`. `Get` is the lookup or recycling under the lock of
the list. The sleep lock (`Lock`, and `LockSleep` when it is taken), the
reference (`TakeRef`) and the read from disk (`ReadDisk`) come later, in steps of
their own, because the code drops the list's lock first. The spin lock inside
the sleep lock is held from the test to the sleep and is the variable `slk`. A
holder may change its block and log it (`Update`: `LOG.write` pins the buffer) or,
as `install_trans` does, write it to disk and unpin it (`Install`). Dropping a
guard is three steps: `Unlock`, `Unref`, `Relse`. The machine halts where the
code panics (no buffer left) or frees a buffer that is in the list.

Between the lookup and the reference a process holds neither the list's lock nor
a count, and others can overtake it in two ways: one that was given the buffer by
the index locks it before the recycler has labelled it (`Overtaken`), or one
recycles a buffer that another has looked up and not counted (`Unguarded`). The
history variable `raced` records that either has happened. Properties of counts
and contents are stated up to that moment, and so they say that these two windows
are the only ways in which the cache can lose an update or a reference. What does
not depend on them (`OneUserPerBuffer`, `IndexMatchesMeta`, labels, wakeups) is
stated for all behaviours. `bufcache_race` shows what the first window does.

### Channel

`mpmc.rs` with the semaphore that counts its places, as `pipe.rs` uses it. A
lock that is held while a process reads `killed` or the sender count and then
sleeps (`semlk`, `buflk`) is a variable, everything else done under one lock is
one step. A pipe has one `SyncSender` and one `Receiver`; `fork` and `dup` share
them by cloning the `Arc` in a `File` (`Share`). `File::drop` is `Close` (it reads
the strong count), `RemoveFromTable` (only if that was 2), and the drop of its own
reference: `DropRef` when others remain, `DropSender` or `DropReceiver` with the
last. `Exit` closes the file of a killed process. `Clone` of `SyncSender` and of
`Receiver` has no caller in the kernel and is not modelled.

Two closers that both read a count of 3 leave the table's reference for ever,
and with it the end. The history variable `overlapped` records such reads;
`EndGoesWithLastFile` says that this is the only way in which an end survives
its files.

### Proc

The process table and the per-CPU scheduler. A process's change of state and
the switch away are one step, since its lock is held until the scheduler has
it. `PROCS.parents` is held over several steps and is the variable `plk`. A CPU
pops its own queue (`Pop`) or visits the others one by one, each under its own
lock (`Steal`; `victims` are those still to be visited), so that an entry may
appear behind it. `Dispatch` is separate: between them the entry is in nobody's
queue. `fork` and `clone` are three steps: the slot is allocated with no parent
and its lock is dropped, the parent is entered under `PROCS.parents`, the child is
made runnable and queued. In between the child can be killed and the parent can
be preempted; `wait` and `join`
may fail to copy the status out and then leave the zombie in its slot.
`wait`, `join` and `reap_threads` are scan, look at `killed`, sleep. `exit` is
`KillThread`, `ReapScan`, `ReapCheck`, `ReapSleep`, `ExitReparent`, `ExitWake*`,
`ExitZombie`.

Left out: signals other than the killing one, stop and continue, waiting for one
pid, failure of allocation, exec, and the sleeps of closing files during exit.
Slots are unordered: a scan may meet zombies in any order, and fork may take any
free slot, of which the code's order is one case.

## Runs

| run | checks | states |
|---|---|---|
| `log_safety` | commit is exclusive, reservations suffice, pins match, durability changes at the header write only, refinement of `TxnDisk` | 960 thousand |
| `log_live` | no lost wakeup, fsync returns | 10 thousand |
| `log_overflow` | violation: overflow panic with mkfs's log size | |
| `log_absorb` | violation: a write that would be absorbed panics on a full log | |
| `bufcache` | one user per buffer, counts balance and no update is lost until `get` is overtaken, the recycler gets its block, the index matches the labels, no lost wakeup | 730 thousand |
| `bufcache_race` | violation: read returns another block | |
| `channel` | places conserved, bytes in order, sleepers justified, ends go with their last file, writers return | 130 thousand |
| `channel_eof` | violation: a reader misses end of file | |
| `proc` | queued once, one CPU, living parents, no missed exit | 290 thousand |
| `proc_sched` | runnable processes run, with two CPUs | 33 thousand |
| `proc_live` | init reaps every orphan | 64 thousand |
| `proc_exit` | violation: exit hangs | |

Every property of a passing run has a mutant: a definition of the model changed
as a plausible bug in the code would change it (`..._NoWakeup`,
`..._OffByOne`, and so on, next to the definition), under which TLC finds the
property violated.

### Findings

- `log_overflow`: `begin_op` admits operations up to LOGSIZE blocks, but the log
  area mkfs makes has its header among its LOGSIZE blocks; the last block of a
  full transaction panics (`log.rs:270`).
- `log_absorb`: the same test comes before the search for an entry to absorb into,
  so a second write of a logged block panics on a full log although it needs no
  space (`log.rs:270`).
- `bufcache_race`: a process that looks up a block just after another has
  recycled a buffer for it can take the buffer's sleep lock first, with the label
  of its previous use still on it. If that was valid its contents are returned;
  in the trace TLC prints the buffer is new, and a read under its initial label
  is what the process gets (`bio.rs:338`).
- `channel_eof`: the last sender's drop notifies without the buffer's lock, and a
  reader between its test and its sleep misses it (`mpmc.rs:147`).
- `proc_exit`: `reap_threads` counts a thread it has just freed and then sleeps;
  nobody wakes it (`proc.rs:1078`).

### Bounds

- `log_safety`: two processes, MAXOPBLOCKS 2, LOGSIZE 4 and four blocks: two
  operations fill the log exactly, the next must wait, and a write may be absorbed.
  Two contents tell an old block from a new one. Two crashes allow one in a
  commit and one in the recovery from it.
- `log_live`: three processes, so that one commits while two sleep.
- `bufcache`: two buffers for three blocks force recycling, and guards and pins
  can use up both. One block (`Updated`) is changed and logged; the others are only
  read. Once `raced` holds, `View` leaves contents out of the state: no property
  speaks of them then, and no action depends on them.
- `channel`: two writers and two readers, so that each end is shared and closed
  twice; two places and two bytes per call, so that writers block half-way and
  bytes of one writer can overtake. `Killable`, `NonBlocking`, `MaxCall` and
  `MaxSent` bound kills, non-blocking calls and bytes.
- `proc`: three slots give init, a process and its child or thread, and orphans;
  two CPUs give stealing and true concurrency. `proc_sched` has two CPUs as well,
  and only `fork` and `exit` among the calls (`Calls`): they, preemption and stealing
  are what moves entries between queues. `proc_live` has one CPU and all calls.

Symmetry is used only in runs without liveness, on processes, slots other
than init, CPUs, blocks and values, none of which the models order.

### Fairness

- `Log`, `BufCache`: weak fairness of a process's steps inside a call. It is
  scheduled again and again, and no step waits for a lock that others can hold
  for ever. A process gives its buffer back ("do not keep them longer than
  necessary", `bio.rs:12`). Starting a call is never assumed.
- `Channel`: strong fairness of these steps: a spin lock that is free again and
  again is obtained (the scheduler preempts no holder).
- `Proc`: the scheduler of every CPU runs; the timer interrupts what runs on it
  (strongly fair: an interrupt that arrives while a lock is held is taken when
  it is released); a process that gets a CPU again and again goes on; init calls
  `wait` with a variable of its own for the status
  (`../../user/src/bin/init.rs:82-86`, `../../user/src/lib/process.rs:568-574`).

Deadlock is checked except in runs whose system may really stop: a panic
(`Log`, `BufCache`) or both ends of a pipe closed (`Channel`).

## Proofs

`LogProofs` proves, for any finite set of processes, any blocks and values and
all sizes with 0 < MAXOPBLOCKS <= LOGSIZE and a log area of at least two blocks:

- `LogTypes`: the type invariant.
- `CommitsAreExclusive`: `outstanding` counts the open operations and a commit
  runs alone.
- `ReservationSuffices`: logged blocks and all reserved ones fit into LOGSIZE.
- `NoPanics`: `end_op` never panics; `LOG.write` of a new block does not when the
  log area has more than LOGSIZE blocks. `log_overflow` shows that this
  condition is needed.
- `QuietLogIsEmpty`: with no operation and no commit the log is empty, and pins
  are those of the logged blocks not yet installed.

All follow from `LogInvariant : Spec => []LogInv`. The properties alone are not
inductive. `LogInv` adds where the loops are (`LoopBounds`), that logged blocks
are distinct and what the log holds in each phase of a commit (`LogShape`), that
what an operation has written is in the log (`WroteLogged`), that nobody is in a
call during boot (`BootQuiet`), and which panics are possible (`PanicReasons`).
There is one lemma for each action. The reservation is counted as the
cardinality of a set of (operation, share) pairs, so that admission, a write and
the end of an operation add or remove elements.

Only model-checked: `TxnRefinement` and `DurableAtHeaderWrite`; liveness, which
is beyond the prover; and everything about `BufCache`, `Channel` and `Proc`.

## Plan

1. Processes: stop and continue, pending signals, interval timers, groups.
2. Memory: page references and copy on write, the buddy allocator, mmap, IPC.
3. File system: inode table, block allocation, link counts, directories; files,
   descriptors and file locks; the calls that compose them with the journal.
4. Disk driver and kernel executor: descriptors, interrupt future, wakers.
5. Sockets and TCP; console and UART; concurrent user-space libraries.
6. Proofs: `Log` implements `TxnDisk`; `PlacesConserved` for any channel;
   `QueuedOnce`, `RunsOnOneCpu` and `ParentsAlive` for any number of slots and CPUs.

Not planned: drawing, font and input-event handling, register layouts and boot
code, sequential utilities, and the browser side: they have no state machine of
which a model would say more than the code.
