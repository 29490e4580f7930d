------------------------------ MODULE Channel ------------------------------
(***************************************************************************)
(* The bounded channel of crates/kernel/src/mpmc.rs, the semaphore that    *)
(* counts its free places (semaphore.rs), the pipe calls that use it       *)
(* (pipe.rs) and the files through which processes share its two ends      *)
(* (file.rs).  A writer takes a place from the semaphore and then puts its *)
(* byte into the buffer; a reader takes a byte and posts the semaphore.    *)
(* Both block on condition variables, that is in proc.rs sleep().          *)
(*                                                                         *)
(* A pipe has one SyncSender and one Receiver, each in a VFile.  fork and  *)
(* dup clone the Arc of that VFile; the file table FTABLE has one more     *)
(* reference.  Closing a file reads the count, takes the table's reference *)
(* away when it looks like the last file, and drops its own; with the last *)
(* reference goes the end.  A Receiver closes the semaphore, a SyncSender  *)
(* decrements a counter and notifies readers without the buffer's lock.    *)
(*                                                                         *)
(* A byte is named by its writer and its place in what that writer wrote.  *)
(* A process with both ends open is two members of Procs here.             *)
(***************************************************************************)
EXTENDS Integers, Sequences, FiniteSets

CONSTANTS Senders,    \* processes that may have the write end open
          Receivers,  \* processes that may have the read end open
          Openers,    \* the two of them that pipe() gives the ends to
          None,       \* no process
          MAX,        \* places of the channel (pipe.rs: PIPESIZE)
          Killable,   \* bound: processes that someone kills
          NonBlocking, \* bound: processes that use O_NONBLOCK at times
          MaxCall,    \* bound: bytes a read or write call asks for
          MaxSent     \* bound: bytes each writer sends in all

Procs == Senders \cup Receivers

ASSUME ProcsAssumption ==
    /\ IsFiniteSet(Senders) /\ IsFiniteSet(Receivers)
    /\ Senders \cap Receivers = {}
    /\ \E s \in Senders, r \in Receivers : Openers = {s, r}
    /\ None \notin Procs

ASSUME SizesAssumption ==
    MAX \in Nat \ {0} /\ MaxCall \in Nat /\ MaxSent \in [Senders -> Nat]

VARIABLES
    count,      \* SemState.count
    closed,     \* SemState.closed
    semlk,      \* who is inside Semaphore::wait with its mutex held
    buf,        \* the LinkedList
    buflk,      \* who is about to sleep in recv with its mutex held
    scnt,       \* live SyncSenders
    rcnt,       \* live Receivers
    table,      \* the ends whose VFile is in FTABLE
    pc,         \* where each process is
    left,       \* bytes its read or write call still has to move
    nonblock,   \* whether the call is a non-blocking one
    killed,     \* ProcInner.killed
    sent,       \* history: bytes each writer has put into the buffer
    out,        \* history: each writer's bytes in the order they were taken
    overlapped  \* history: ends of which two closers counted references at a time

sem == <<count, closed, semlk>>
queue == <<buf, buflk, sent, out>>
ends == <<scnt, rcnt>>
files == <<table, overlapped>>
call == <<left, nonblock>>
vars == <<sem, queue, ends, files, pc, call, killed>>

\* "none": has no file of its end yet; "done": has closed it.
FilePCs == {"none", "idle", "remove", "release", "panic", "done"}
SenderPCs == {"copyin", "wait", "take", "semsleep", "push", "notify"}
ReceiverPCs == {"recv", "presleep", "sleep", "close"}

\* Pipe::alloc: one sender, one receiver, all places free.
Init ==
    /\ count = MAX /\ closed = FALSE /\ semlk = None
    /\ buf = <<>> /\ buflk = None
    /\ scnt = 1 /\ rcnt = 1
    /\ table = {"read", "write"} /\ overlapped = {}
    /\ pc = [p \in Procs |-> IF p \in Openers THEN "idle" ELSE "none"]
    /\ left = [p \in Procs |-> 0]
    /\ nonblock = [p \in Procs |-> FALSE]
    /\ killed = [p \in Procs |-> FALSE]
    /\ sent = [s \in Senders |-> 0]
    /\ out = [s \in Senders |-> <<>>]

Goto(p, l) == pc' = [pc EXCEPT ![p] = l]

\* The end of a read or write call.
EndCall(p) == left' = [left EXCEPT ![p] = 0] /\ nonblock' = [nonblock EXCEPT ![p] = FALSE]
Return(p) == Goto(p, "idle") /\ EndCall(p)
Continue(p, l) == Goto(p, l) /\ UNCHANGED call

\* Condvar::notify_all with those of S asleep at `from`.
Woken(S, from, to, f) == [q \in Procs |-> IF q \in S /\ f[q] = from THEN to ELSE f[q]]

-----------------------------------------------------------------------------
(***************************************************************************)
(* The files of the two ends: fork, dup, and Drop of a File.               *)
(***************************************************************************)
End(p) == IF p \in Senders THEN "write" ELSE "read"

\* Processes with a file of end e, those that are closing it included.
Holders(e) ==
    {p \in Procs : End(p) = e /\ pc[p] \notin {"none", "panic", "notify", "close", "done"}}

\* Arc::strong_count of the end's VFile.
Strong(e) == Cardinality(Holders(e)) + (IF e \in table THEN 1 ELSE 0)

\* fork's clone of the open files, or dup: another reference to the same VFile.
Share(p, q) ==
    /\ End(p) = End(q)
    /\ pc[p] = "idle" /\ pc[q] = "none"
    /\ Goto(q, "idle")
    /\ UNCHANGED <<sem, queue, ends, files, call, killed>>

\* Where File::drop goes on, with the count it reads and the one that says that
\* this file is the last.
CloseAt(p, last) ==
    /\ pc[p] = "idle"
    /\ Goto(p, CASE Strong(End(p)) < 2 -> "panic"
                 [] Strong(End(p)) = last -> "remove"
                 [] OTHER -> "release")
    /\ overlapped' = IF /\ Strong(End(p)) > last
                        /\ \E q \in Holders(End(p)) : pc[q] = "release"
                     THEN overlapped \cup {End(p)}
                     ELSE overlapped
    /\ UNCHANGED <<sem, queue, ends, table, call, killed>>

\* A mistake to be caught: the last two files both take themselves for the last.
Close_OneEarly(p) == CloseAt(p, 3)

\* File::drop reads the count, which is 2 for the last file: its own reference
\* and the table's.  (It reads it twice; the first time is for the panic alone.)
Close(p) == CloseAt(p, 2)

\* With FTABLE locked the table's reference is dropped.
RemoveFromTable(p) ==
    /\ pc[p] = "remove"
    /\ table' = table \ {End(p)}
    /\ Goto(p, "release")
    /\ UNCHANGED <<sem, queue, ends, overlapped, call, killed>>

\* The file's own reference is dropped, and is not the last.
DropRef(p) ==
    /\ pc[p] = "release"
    /\ Strong(End(p)) > 1
    /\ Goto(p, "done")
    /\ UNCHANGED <<sem, queue, ends, files, call, killed>>

\* It is the last, and drops the SyncSender: the count first, then the
\* notification, no lock held.
DropSender(p) ==
    /\ p \in Senders
    /\ pc[p] = "release"
    /\ Strong(End(p)) = 1
    /\ scnt' = scnt - 1
    /\ Goto(p, "notify")
    /\ UNCHANGED <<sem, queue, rcnt, files, call, killed>>

DropSenderNotify(p) ==
    /\ pc[p] = "notify"
    /\ pc' = [Woken(Receivers, "sleep", "recv", pc) EXCEPT ![p] = "done"]
    /\ UNCHANGED <<sem, queue, ends, files, call, killed>>

\* A mistake to be caught: the last receiver does not close the semaphore.
DropReceiver_NoClose(p) ==
    /\ p \in Receivers
    /\ pc[p] = "release"
    /\ Strong(End(p)) = 1
    /\ rcnt' = rcnt - 1
    /\ Goto(p, "done")
    /\ UNCHANGED <<sem, queue, scnt, files, call, killed>>

\* It is the last, and drops the Receiver, which is to close the semaphore.
DropReceiver(p) ==
    /\ p \in Receivers
    /\ pc[p] = "release"
    /\ Strong(End(p)) = 1
    /\ rcnt' = rcnt - 1
    /\ Goto(p, IF rcnt = 1 THEN "close" ELSE "done")
    /\ UNCHANGED <<sem, queue, scnt, files, call, killed>>

CloseSemaphore(p) ==
    /\ pc[p] = "close"
    /\ semlk = None
    /\ closed' = TRUE
    /\ pc' = [Woken(Senders, "semsleep", "wait", pc) EXCEPT ![p] = "done"]
    /\ UNCHANGED <<count, semlk, queue, ends, files, call, killed>>

-----------------------------------------------------------------------------
(***************************************************************************)
(* Pipe::write and write_nonblock.                                         *)
(***************************************************************************)
BeginWrite(p) ==
    /\ p \in Senders
    /\ pc[p] = "idle"
    /\ ~killed[p]
    /\ \E n \in 1 .. MaxCall, nb \in BOOLEAN :
          /\ nb => p \in NonBlocking
          /\ sent[p] + n <= MaxSent[p]
          /\ left' = [left EXCEPT ![p] = n]
          /\ nonblock' = [nonblock EXCEPT ![p] = nb]
    /\ Goto(p, "copyin")
    /\ UNCHANGED <<sem, queue, ends, files, killed>>

\* either_copyin of the next byte, which may fail.
CopyIn(p) ==
    /\ pc[p] = "copyin"
    /\ Continue(p, "wait") \/ Return(p)
    /\ UNCHANGED <<sem, queue, ends, files, killed>>

\* Semaphore::wait looks at killed with its mutex held, and goes on.
WaitKilled(p) ==
    /\ pc[p] = "wait"
    /\ ~nonblock[p]
    /\ semlk = None
    /\ IF killed[p]
       THEN Return(p) /\ UNCHANGED semlk
       ELSE Continue(p, "take") /\ semlk' = p
    /\ UNCHANGED <<count, closed, queue, ends, files, killed>>

WaitTake(p) ==
    /\ pc[p] = "take"
    /\ semlk' = None
    /\ IF closed
       THEN Return(p) /\ UNCHANGED count
       ELSE IF count = 0
            THEN Continue(p, "semsleep") /\ UNCHANGED count
            ELSE Continue(p, "push") /\ count' = count - 1
    /\ UNCHANGED <<closed, queue, ends, files, killed>>

\* A mistake to be caught: try_wait takes a place that is not there.
TryWait_NoLimit(p) ==
    /\ pc[p] = "wait"
    /\ nonblock[p]
    /\ semlk = None
    /\ IF closed
       THEN Return(p) /\ UNCHANGED count
       ELSE Continue(p, "push") /\ count' = count - 1
    /\ UNCHANGED <<closed, semlk, queue, ends, files, killed>>

\* Semaphore::try_wait: an error and WouldBlock both end the call.
TryWait(p) ==
    /\ pc[p] = "wait"
    /\ nonblock[p]
    /\ semlk = None
    /\ IF closed \/ count = 0
       THEN Return(p) /\ UNCHANGED count
       ELSE Continue(p, "push") /\ count' = count - 1
    /\ UNCHANGED <<closed, semlk, queue, ends, files, killed>>

\* One byte of a write call put into its place.
PushByte(p, newbuf, newpc) ==
    /\ pc[p] = "push"
    /\ buflk = None
    /\ sent' = [sent EXCEPT ![p] = @ + 1]
    /\ buf' = newbuf
    /\ IF left[p] = 1
       THEN EndCall(p)
       ELSE left' = [left EXCEPT ![p] = @ - 1] /\ UNCHANGED nonblock
    /\ pc' = [newpc EXCEPT ![p] = IF left[p] = 1 THEN "idle" ELSE "copyin"]
    /\ UNCHANGED <<sem, buflk, out, ends, files, killed>>

\* Mistakes to be caught: the byte goes to the front, or readers sleep on.
Push_AtFront(p) ==
    PushByte(p, <<<<p, sent[p] + 1>>>> \o buf, Woken(Receivers, "sleep", "recv", pc))

Push_NoNotify(p) == PushByte(p, Append(buf, <<p, sent[p] + 1>>), pc)

\* send: push_back and notify the readers, then the next byte of the call.
Push(p) ==
    PushByte(p, Append(buf, <<p, sent[p] + 1>>), Woken(Receivers, "sleep", "recv", pc))

-----------------------------------------------------------------------------
(***************************************************************************)
(* Pipe::read and read_nonblock.                                           *)
(***************************************************************************)
BeginRead(p) ==
    /\ p \in Receivers
    /\ pc[p] = "idle"
    /\ ~killed[p]
    /\ \E n \in 1 .. MaxCall, nb \in BOOLEAN :
          /\ nb => p \in NonBlocking
          /\ left' = [left EXCEPT ![p] = n]
          /\ nonblock' = [nonblock EXCEPT ![p] = nb]
    /\ Goto(p, "recv")
    /\ UNCHANGED <<sem, queue, ends, files, killed>>

\* A mistake to be caught: the place is not given back.
Post_Lost(next) == pc' = next /\ UNCHANGED count

\* Semaphore::post, when it does not fail.
Post(next) ==
    /\ count' = count + 1
    /\ pc' = Woken(Senders, "semsleep", "wait", next)

PostFails == closed \/ count = MAX

\* recv or try_recv finds a byte and posts.  If the post fails the byte is lost
\* and the call ends; so does the call when either_copyout fails.
RecvByte(p) ==
    /\ pc[p] = "recv"
    /\ buflk = None /\ semlk = None
    /\ buf # <<>>
    /\ buf' = Tail(buf)
    /\ IF PostFails
       THEN Return(p) /\ UNCHANGED <<out, count>>
       ELSE /\ out' = [out EXCEPT ![Head(buf)[1]] = Append(@, Head(buf)[2])]
            /\ \/ /\ left[p] > 1
                  /\ left' = [left EXCEPT ![p] = @ - 1]
                  /\ Post(pc)
                  /\ UNCHANGED nonblock
               \/ EndCall(p) /\ Post([pc EXCEPT ![p] = "idle"])
    /\ UNCHANGED <<closed, semlk, buflk, sent, ends, files, killed>>

\* recv finds none: without a sender it is the end of file; else the reader is
\* about to sleep, with the buffer's lock held.  try_recv returns in any case.
RecvEmpty(p) ==
    /\ pc[p] = "recv"
    /\ buflk = None
    /\ buf = <<>>
    /\ IF scnt > 0 /\ ~nonblock[p]
       THEN Continue(p, "presleep") /\ buflk' = p
       ELSE Return(p) /\ UNCHANGED buflk
    /\ UNCHANGED <<sem, buf, sent, out, ends, files, killed>>

RecvSleep(p) ==
    /\ pc[p] = "presleep"
    /\ buflk' = None
    /\ Goto(p, "sleep")
    /\ UNCHANGED <<sem, buf, sent, out, ends, files, call, killed>>

-----------------------------------------------------------------------------
\* kill(): a sleeper is made runnable, and looks at its condition again.
Kill(p) ==
    /\ p \in Killable
    /\ ~killed[p]
    /\ p \in Holders(End(p))
    /\ killed' = [killed EXCEPT ![p] = TRUE]
    /\ pc' = [pc EXCEPT ![p] = CASE @ = "semsleep" -> "wait"
                                 [] @ = "sleep" -> "recv"
                                 [] OTHER -> @]
    /\ UNCHANGED <<sem, queue, ends, files, call>>

\* A killed process exits, which drops its file.
Exit(p) == killed[p] /\ Close(p)

\* What a process that runs goes on to do inside the kernel.
Step(p) ==
    \/ CopyIn(p) \/ WaitKilled(p) \/ WaitTake(p) \/ TryWait(p) \/ Push(p)
    \/ RecvByte(p) \/ RecvEmpty(p) \/ RecvSleep(p)
    \/ RemoveFromTable(p) \/ DropRef(p)
    \/ DropSender(p) \/ DropSenderNotify(p) \/ DropReceiver(p) \/ CloseSemaphore(p)
    \/ Exit(p)

\* What user programs ask for.
Call(p) ==
    \/ BeginWrite(p) \/ BeginRead(p) \/ Close(p) \/ Kill(p)
    \/ \E q \in Procs : Share(p, q)

Next == \E p \in Procs : Step(p) \/ Call(p)

Spec == Init /\ [][Next]_vars

\* The scheduler runs every process that is runnable, and a spin lock that is
\* free again and again is taken at last by a process that spins on it.
FairSpec == Spec /\ \A p \in Procs : SF_vars(Step(p))

-----------------------------------------------------------------------------
\* Writers that have taken a place and not yet filled it.
Pushing == {s \in Senders : pc[s] = "push"}

TypeOK ==
    /\ count \in 0 .. MAX
    /\ closed \in BOOLEAN
    /\ semlk \in Senders \cup {None}
    /\ buf \in Seq(Senders \X (Nat \ {0}))
    /\ buflk \in Receivers \cup {None}
    /\ scnt \in Nat /\ rcnt \in Nat
    /\ table \subseteq {"read", "write"} /\ overlapped \subseteq {"read", "write"}
    /\ pc \in [Procs -> FilePCs \cup SenderPCs \cup ReceiverPCs]
    /\ left \in [Procs -> 0 .. MaxCall]
    /\ nonblock \in [Procs -> BOOLEAN]
    /\ killed \in [Procs -> BOOLEAN]
    /\ sent \in [Senders -> Nat]
    /\ out \in [Senders -> Seq(Nat)]

(***************************************************************************)
(* Places are conserved: free places, bytes in the buffer and places taken *)
(* by writers that have not pushed yet make up MAX, across blocking and    *)
(* non-blocking calls, kills and closing.  So the buffer never outgrows    *)
(* MAX, and the post of recv (mpmc.rs:89) never fails and throws away the  *)
(* byte that was popped.                                                   *)
(***************************************************************************)
PlacesConserved == count + Len(buf) + Cardinality(Pushing) = MAX

(***************************************************************************)
(* Every byte a writer sent is taken once, in the order it was written, or *)
(* is still in the buffer (pipe.rs write and read over mpmc.rs).           *)
(***************************************************************************)
From(s) == LET mine(e) == e[1] = s
               bytes == SelectSeq(buf, mine)
           IN  [i \in 1 .. Len(bytes) |-> bytes[i][2]]

BytesInOrder ==
    \A s \in Senders : out[s] \o From(s) = [i \in 1 .. sent[s] |-> i]

(***************************************************************************)
(* Nobody sleeps on a condition that holds: a writer in Semaphore::wait    *)
(* sleeps only when no place is free and the semaphore is open, a reader   *)
(* in recv only when the buffer is empty.                                  *)
(***************************************************************************)
SleepersJustified ==
    /\ \A s \in Senders : pc[s] = "semsleep" => count = 0 /\ ~closed
    /\ \A r \in Receivers : pc[r] \in {"presleep", "sleep"} => buf = <<>>

(***************************************************************************)
(* An end lives as long as the files of it.  It is never dropped while a   *)
(* process has it open, and the panic "file drop" is not reached.  When    *)
(* all files are closed it has been dropped, unless at some time two       *)
(* closers had both counted more than 2 references before either dropped   *)
(* its own: then nobody may take the table's reference away, and the end   *)
(* stays for ever (file.rs:611-630).                                       *)
(***************************************************************************)
Dropped(e) == IF e = "write" THEN scnt = 0 ELSE rcnt = 0

EndGoesWithLastFile ==
    /\ \A p \in Procs : pc[p] # "panic"
    /\ closed => Dropped("read")
    /\ \A e \in {"read", "write"} :
          /\ Dropped(e) => Holders(e) = {}
          /\ Holders(e) = {} => Dropped(e) \/ e \in overlapped

(***************************************************************************)
(* A writer does not hang once the readers are gone: the close of the last *)
(* Receiver ends its call (semaphore.rs:108-112, pipe.rs:47-49).           *)
(***************************************************************************)
WritersReturn ==
    \A s \in Senders :
        (rcnt = 0 /\ pc[s] \in {"take", "semsleep", "wait"}) ~> (pc[s] = "idle")

(***************************************************************************)
(* "Read n bytes into buf; returns number read; or 0 if end of file"       *)
(* (syscall.rs:135): a reader asleep does not stay so once no process has  *)
(* the write end open.                                                     *)
(***************************************************************************)
ReadersSeeEof ==
    \A r \in Receivers :
        (Holders("write") = {} /\ pc[r] = "sleep" /\ ~killed[r]) ~> (pc[r] # "sleep")
=============================================================================
