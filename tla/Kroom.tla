------------------------------- MODULE Kroom -------------------------------
(***************************************************************************)
(* The kernel half of SHAMBLES: mm/kroom.c and the hooks the kroom patch   *)
(* puts in the page-fault path, for ONE address space (mm).                *)
(*                                                                         *)
(* A periodic timer poisons the top-level page-table entry (p4d) that      *)
(* covers the sampled window.  The next access of any thread to that       *)
(* window faults; the fault handler restores the entry, leaves the         *)
(* faulting address and pc in a one-place mailbox (the kroom_handle) and   *)
(* lets the thread retry.  A sampler thread takes samples out of the       *)
(* mailbox with read(2) on /sys/kernel/debug/sampler/samples.              *)
(*                                                                         *)
(* A sample (address, pc) is an element s of Samples; its two halves are   *)
(* both written s, so a pair whose halves differ is a torn one.            *)
(***************************************************************************)
EXTENDS Naturals, FiniteSets

CONSTANTS
    Threads,      \* threads of the profiled program that touch sampled memory
    Readers,      \* threads that read samples (exactly one in every plugin)
    Samples,      \* what a fault may report
    None,         \* the null pointer / no owner
    Timer,        \* the hrtimer callback, as an owner of mmap_lock
    PerVmaLocks,  \* TRUE: faults run under a per-VMA lock (6.5 and 6.6);
                  \* FALSE: they hold mmap_lock for reading (5.15)
    SharedFd,     \* readers may use a descriptor another one opened
    MayExit       \* the process may exit, and fork a child that keeps the fd

ASSUME KroomAssumption ==
    /\ Threads \cap Readers = {}
    /\ None \notin Samples \cup Threads \cup Readers
    /\ Timer \notin Threads \cup Readers \cup {None}
    /\ PerVmaLocks \in BOOLEAN
    /\ SharedFd \in BOOLEAN
    /\ MayExit \in BOOLEAN

VARIABLES
    enabled,      \* kroom_enabled, a debugfs switch
    p4d,          \* flag bits set in the top-level entry of the window
    tlb,          \* threads whose CPU caches a translation through p4d
    mmapReaders,  \* threads that hold mmap_lock for reading
    mmapWriter,   \* who holds it for writing
    mm,           \* "live", "dead" after exit_mmap, "freed" after the last mmdrop
    mmCount,      \* mm->mm_count: one for the users of mm, one per mmgrab
    published,    \* mm->kroom_handle is not NULL
    hstate,       \* the handle object: "free", "raw" (allocated), "ready"
    filp,         \* processes that hold a reference to the open file
    timer,        \* where the hrtimer is
    lock,         \* owner of handle->lock
    wait_sem,     \* count of handle->wait_sem
    addr, pc,     \* handle->addr, handle->pc
    fault,        \* fault[t]: where thread t is in the fault path
    cur,          \* cur[t]: the address and pc t faulted with
    rd,           \* rd[r]: where reader r is
    buff,         \* buff[r]: the user's 16-byte buffer, a pair
    last,         \* the pair the latest successful read returned
    unread        \* history: the mailbox holds a sample no read was given yet

mmVars      == <<p4d, tlb, mmapReaders, mmapWriter>>
lifeVars    == <<enabled, mm, mmCount, published, hstate, filp>>
mailVars    == <<lock, wait_sem, addr, pc, unread>>
threadVars  == <<fault, cur>>
readerVars  == <<rd, buff, last>>
vars == <<mmVars, lifeVars, mailVars, threadVars, readerVars, timer>>

-----------------------------------------------------------------------------
(* The page-table entry.  A poisoned entry has _PAGE_PRESENT cleared and   *)
(* _PAGE_USER, which tells it from an empty one, left set.                 *)
Table == {"PRESENT", "USER"}

p4d_sample_unpoison(e) == e \cup {"PRESENT"}
p4d_sample_poisonable(e) == e = Table

\* Defect: the wrong bit is cleared.
p4d_sample_poison_WrongBit(e) == e \ {"USER"}
p4d_sample_poison(e) == e \ {"PRESENT"}

\* Defect: an empty entry passes for a poisoned one.
p4d_sample_poisoned_NoUser(e) == "PRESENT" \notin e
p4d_sample_poisoned(e) == e = {"USER"}

(* Kernel services, by what kroom.c uses of them.                          *)

\* Defect: poisoning keeps the cached translations.
flush_tlb_mm_Skipped(T) == T
flush_tlb_mm(T) == {}

\* Defect: the callback returns HRTIMER_NORESTART.
RestartTimer_Never == "off"
RestartTimer == "armed"

\* Defect: the old count is left on the semaphore.
down_trylock_Skipped(s) == s
\* down_trylock, whose result both callers ignore.
down_trylock(s) == IF s > 0 THEN s - 1 ELSE s

\* Defect: a report does not wake the reader.
up_Skipped(s) == s
up(s) == s + 1

\* Defect: handle->lock is not taken.
MutexFree_Skipped == TRUE
MutexFree == lock = None

\* Defect: the sampler takes no reference to mm.
mmgrab_Skipped(n) == n
mmgrab(n) == n + 1

\* Defect: a reference to mm is never given back.
mmdrop_Skipped(n) == n
mmdrop(n) == n - 1

FaultStates == {"run", "mmap", "fault", "walk", "unpoison", "report", "post", "exited"}
InFault(t) == fault[t] \in {"walk", "unpoison", "report", "post"}
ReadStates == {"start", "init", "arm", "down", "lock", "copy", "copy2", "done", "exited"}

Init ==
    /\ enabled = FALSE
    /\ p4d = {}
    /\ tlb = {}
    /\ mmapReaders = {}
    /\ mmapWriter = None
    /\ mm = "live"
    /\ mmCount = 1
    /\ published = FALSE
    /\ hstate = "free"
    /\ filp = {}
    /\ timer = "off"
    /\ lock = None
    /\ wait_sem = 0
    /\ addr = None
    /\ pc = None
    /\ fault = [t \in Threads |-> "run"]
    /\ cur = [t \in Threads |-> None]
    /\ rd = [r \in Readers |-> "start"]
    /\ buff = [r \in Readers |-> <<None, None>>]
    /\ last = <<None, None>>
    /\ unread = FALSE

\* Writing the debugfs switch.
SetEnabled ==
    /\ mm = "live"
    /\ enabled' = ~enabled
    /\ UNCHANGED <<mmVars, mm, mmCount, published, hstate, filp, mailVars,
                   threadVars, readerVars, timer>>

-----------------------------------------------------------------------------
(* The hrtimer, every kt nanoseconds.  When mmap_write_trylock fails the   *)
(* callback only rearms itself: nothing changes.                           *)
TimerFire ==
    /\ timer = "armed"
    /\ mmapWriter = None
    /\ mmapReaders = {}
    /\ mmapWriter' = Timer
    /\ timer' = "poison"
    /\ UNCHANGED <<p4d, tlb, mmapReaders, lifeVars, mailVars, threadVars, readerVars>>

kroom_poison ==
    /\ timer = "poison"
    /\ IF p4d_sample_poisonable(p4d)
       THEN p4d' = p4d_sample_poison(p4d) /\ timer' = "flush"
       ELSE timer' = "unlock" /\ UNCHANGED p4d
    /\ UNCHANGED <<tlb, mmapReaders, mmapWriter, lifeVars, mailVars, threadVars, readerVars>>

TimerFlush ==
    /\ timer = "flush"
    /\ tlb' = flush_tlb_mm(tlb)
    /\ timer' = "unlock"
    /\ UNCHANGED <<p4d, mmapReaders, mmapWriter, lifeVars, mailVars, threadVars, readerVars>>

TimerUnlock ==
    /\ timer = "unlock"
    /\ mmapWriter' = None
    /\ timer' = RestartTimer
    /\ UNCHANGED <<p4d, tlb, mmapReaders, lifeVars, mailVars, threadVars, readerVars>>

-----------------------------------------------------------------------------
(* Threads of the program.                                                 *)

\* An access to the window that the TLB does not serve: the walk finds the
\* entry present and caches it, or the thread faults.
Access(t) ==
    /\ fault[t] = "run"
    /\ t \notin tlb
    /\ IF "PRESENT" \in p4d
       THEN tlb' = tlb \cup {t} /\ UNCHANGED threadVars
       ELSE /\ fault' = [fault EXCEPT ![t] = "fault"]
            /\ \E s \in Samples : cur' = [cur EXCEPT ![t] = s]
            /\ UNCHANGED tlb
    /\ UNCHANGED <<p4d, mmapReaders, mmapWriter, lifeVars, mailVars, readerVars, timer>>

\* mmap, munmap, fork ...: the thread holds mmap_lock for writing.
MmapLock(t) ==
    /\ fault[t] = "run"
    /\ mmapWriter = None
    /\ mmapReaders = {}
    /\ mmapWriter' = t
    /\ fault' = [fault EXCEPT ![t] = "mmap"]
    /\ UNCHANGED <<p4d, tlb, mmapReaders, lifeVars, mailVars, cur, readerVars, timer>>

\* munmap of the last sampled mapping frees the table below p4d and clears
\* the entry; it has waited for the faults that hold the VMA.
MmapUnlock(t) ==
    /\ fault[t] = "mmap"
    /\ mmapWriter' = None
    /\ fault' = [fault EXCEPT ![t] = "run"]
    /\ \/ UNCHANGED <<p4d, tlb>>
       \/ /\ \A u \in Threads : ~InFault(u)
          /\ p4d' = {}
          /\ tlb' = {}
    /\ UNCHANGED <<mmapReaders, lifeVars, mailVars, cur, readerVars, timer>>

FaultLock(t) ==
    /\ fault[t] = "fault"
    /\ IF PerVmaLocks
       THEN UNCHANGED mmapReaders
       ELSE mmapWriter = None /\ mmapReaders' = mmapReaders \cup {t}
    /\ fault' = [fault EXCEPT ![t] = "walk"]
    /\ UNCHANGED <<p4d, tlb, mmapWriter, lifeVars, mailVars, cur, readerVars, timer>>

\* pud_alloc fills an empty entry.  The hook then looks for the poison; the
\* ordinary fault path (a page is mapped and the access retried) is one step.
HandleMmFault(t) ==
    /\ fault[t] = "walk"
    /\ p4d' = IF p4d = {} THEN Table ELSE p4d
    /\ IF p4d_sample_poisoned(p4d)
       THEN fault' = [fault EXCEPT ![t] = "unpoison"] /\ UNCHANGED mmapReaders
       ELSE /\ fault' = [fault EXCEPT ![t] = "run"]
            /\ mmapReaders' = mmapReaders \ {t}
    /\ UNCHANGED <<tlb, mmapWriter, lifeVars, mailVars, cur, readerVars, timer>>

kroom_unpoison(t) ==
    /\ fault[t] = "unpoison"
    /\ p4d' = p4d_sample_unpoison(p4d)
    /\ fault' = [fault EXCEPT ![t] = "report"]
    /\ UNCHANGED <<tlb, mmapReaders, mmapWriter, lifeVars, mailVars, cur, readerVars, timer>>

\* kroom_report, from mutex_lock to the write of handle->addr.
ReportAddr(t) ==
    /\ fault[t] = "report"
    /\ MutexFree
    /\ lock' = t
    /\ wait_sem' = down_trylock(wait_sem)
    /\ addr' = cur[t]
    /\ unread' = FALSE
    /\ fault' = [fault EXCEPT ![t] = "post"]
    /\ UNCHANGED <<mmVars, lifeVars, pc, cur, readerVars, timer>>

\* kroom_report, from the write of handle->pc on, and the way out of the fault.
ReportPc(t) ==
    /\ fault[t] = "post"
    /\ pc' = cur[t]
    /\ wait_sem' = up(wait_sem)
    /\ unread' = TRUE
    /\ lock' = None
    /\ fault' = [fault EXCEPT ![t] = "run"]
    /\ mmapReaders' = mmapReaders \ {t}
    /\ UNCHANGED <<p4d, tlb, mmapWriter, lifeVars, addr, cur, readerVars, timer>>

-----------------------------------------------------------------------------
(* Sampler threads.                                                        *)

\* sample_open up to the cmpxchg that publishes the handle.  A failed open
\* ends the sampler thread.
sample_open(r) ==
    /\ rd[r] = "start"
    /\ IF enabled /\ ~published
       THEN /\ published' = TRUE
            /\ mmCount' = mmgrab(mmCount)
            /\ hstate' = "raw"
            /\ rd' = [rd EXCEPT ![r] = "init"]
       ELSE /\ rd' = [rd EXCEPT ![r] = "done"]
            /\ UNCHANGED <<published, mmCount, hstate>>
    /\ UNCHANGED <<mmVars, enabled, mm, filp, mailVars, threadVars, buff, last, timer>>

\* mutex_init, sema_init and the two fields.
ActivateInit(r) ==
    /\ rd[r] = "init"
    /\ lock' = None
    /\ wait_sem' = 0
    /\ addr' = None
    /\ pc' = None
    /\ unread' = FALSE
    /\ hstate' = "ready"
    /\ rd' = [rd EXCEPT ![r] = "arm"]
    /\ UNCHANGED <<mmVars, enabled, mm, mmCount, published, filp, threadVars,
                   buff, last, timer>>

\* hrtimer_start and the return to user space with a descriptor.
ActivateStart(r) ==
    /\ rd[r] = "arm"
    /\ timer' = "armed"
    /\ filp' = {"parent"}
    /\ rd' = [rd EXCEPT ![r] = "down"]
    /\ UNCHANGED <<mmVars, enabled, mm, mmCount, published, hstate, mailVars,
                   threadVars, buff, last>>

\* A second reader of the same descriptor.
JoinFd(r) ==
    /\ SharedFd
    /\ rd[r] = "start"
    /\ "parent" \in filp
    /\ rd' = [rd EXCEPT ![r] = "down"]
    /\ UNCHANGED <<mmVars, lifeVars, mailVars, threadVars, buff, last, timer>>

\* sample_read, down_interruptible.  An interrupted wait returns
\* -ERESTARTSYS, the caller reads again: nothing changes.
ReadDown(r) ==
    /\ rd[r] = "down"
    /\ wait_sem > 0
    /\ wait_sem' = wait_sem - 1
    /\ rd' = [rd EXCEPT ![r] = "lock"]
    /\ UNCHANGED <<mmVars, lifeVars, lock, addr, pc, unread, threadVars, buff, last, timer>>

\* mutex_lock and the down_trylock behind it.
ReadLock(r) ==
    /\ rd[r] = "lock"
    /\ MutexFree
    /\ lock' = r
    /\ wait_sem' = down_trylock(wait_sem)
    /\ rd' = [rd EXCEPT ![r] = "copy"]
    /\ UNCHANGED <<mmVars, lifeVars, addr, pc, unread, threadVars, buff, last, timer>>

CopyAddr(r) ==
    /\ rd[r] = "copy"
    /\ buff' = [buff EXCEPT ![r] = <<addr, @[2]>>]
    /\ rd' = [rd EXCEPT ![r] = "copy2"]
    /\ UNCHANGED <<mmVars, lifeVars, mailVars, threadVars, last, timer>>

\* The second copy, mutex_unlock, and the return of 16 to the sampler.
CopyPc(r) ==
    /\ rd[r] = "copy2"
    /\ buff' = [buff EXCEPT ![r] = <<@[1], pc>>]
    /\ last' = <<buff[r][1], pc>>
    /\ unread' = FALSE
    /\ lock' = None
    /\ rd' = [rd EXCEPT ![r] = "down"]
    /\ UNCHANGED <<mmVars, lifeVars, wait_sem, addr, pc, threadVars, timer>>

\* Defect: the error path returns with handle->lock held.
CopyFault_KeepsLock(r) ==
    /\ rd[r] \in {"copy", "copy2"}
    /\ unread' = FALSE
    /\ rd' = [rd EXCEPT ![r] = "down"]
    /\ UNCHANGED <<mmVars, lifeVars, lock, wait_sem, addr, pc, threadVars, buff, last, timer>>

\* Either copy_to_user fails: the sample is spent on a read that returns -EFAULT.
CopyFault(r) ==
    /\ rd[r] \in {"copy", "copy2"}
    /\ unread' = FALSE
    /\ lock' = None
    /\ rd' = [rd EXCEPT ![r] = "down"]
    /\ UNCHANGED <<mmVars, lifeVars, wait_sem, addr, pc, threadVars, buff, last, timer>>

-----------------------------------------------------------------------------
(* The end of the process.  A forked child inherits the descriptor; its    *)
(* reads return -EPERM, but the file stays open until it exits too.        *)
Fork ==
    /\ MayExit
    /\ filp = {"parent"}
    /\ mm = "live"
    /\ mmapWriter = None
    /\ mmapReaders = {}
    /\ filp' = {"parent", "child"}
    /\ UNCHANGED <<mmVars, enabled, mm, mmCount, published, hstate, mailVars,
                   threadVars, readerVars, timer>>

\* The last thread leaves the address space (exit_mmap, mmdrop), then the
\* descriptors are closed.  A thread inside the kernel finishes its call first.
Exit ==
    /\ MayExit
    /\ mm = "live"
    /\ mmapWriter = None
    /\ \A t \in Threads : fault[t] \in {"run", "fault"}
    /\ \A r \in Readers : rd[r] \in {"start", "down", "done"}
    /\ p4d' = {}
    /\ tlb' = {}
    /\ mmCount' = mmdrop(mmCount)
    /\ mm' = IF mmCount' = 0 THEN "freed" ELSE "dead"
    /\ filp' = filp \ {"parent"}
    /\ fault' = [t \in Threads |-> "exited"]
    /\ rd' = [r \in Readers |-> "exited"]
    /\ UNCHANGED <<mmapReaders, mmapWriter, enabled, published, hstate, mailVars,
                   cur, buff, last, timer>>

ChildExit ==
    /\ mm = "dead"
    /\ "child" \in filp
    /\ filp' = filp \ {"child"}
    /\ UNCHANGED <<mmVars, enabled, mm, mmCount, published, hstate, mailVars,
                   threadVars, readerVars, timer>>

\* sample_release: hrtimer_cancel waits for a running callback.
DeactivateCancel ==
    /\ hstate = "ready"
    /\ filp = {}
    /\ timer = "armed"
    /\ timer' = "off"
    /\ UNCHANGED <<mmVars, lifeVars, mailVars, threadVars, readerVars>>

\* kroom_unpoison, the handle unpublished, mmdrop, kfree.
DeactivateFree ==
    /\ hstate = "ready"
    /\ filp = {}
    /\ timer = "off"
    /\ \A r \in Readers : rd[r] # "arm"
    /\ p4d' = p4d_sample_unpoison(p4d)
    /\ published' = FALSE
    /\ mmCount' = mmdrop(mmCount)
    /\ mm' = IF mmCount' = 0 THEN "freed" ELSE mm
    /\ hstate' = "free"
    /\ UNCHANGED <<tlb, mmapReaders, mmapWriter, enabled, filp, mailVars,
                   threadVars, readerVars, timer>>

-----------------------------------------------------------------------------
TimerStep == TimerFire \/ kroom_poison \/ TimerFlush \/ TimerUnlock

FaultStep(t) ==
    FaultLock(t) \/ HandleMmFault(t) \/ kroom_unpoison(t) \/ ReportAddr(t) \/ ReportPc(t)

ThreadStep(t) == Access(t) \/ MmapLock(t) \/ MmapUnlock(t) \/ FaultStep(t)

OpenStep(r) == sample_open(r) \/ ActivateInit(r) \/ ActivateStart(r) \/ JoinFd(r)

ReadStep(r) == ReadDown(r) \/ ReadLock(r) \/ CopyAddr(r) \/ CopyPc(r) \/ CopyFault(r)

LifeStep == Fork \/ Exit \/ ChildExit \/ DeactivateCancel \/ DeactivateFree

Next ==
    \/ SetEnabled
    \/ TimerStep
    \/ \E t \in Threads : ThreadStep(t)
    \/ \E r \in Readers : OpenStep(r) \/ ReadStep(r)
    \/ LifeStep

Spec == Init /\ [][Next]_vars

(***************************************************************************)
(* Fairness.  The kernel finishes what it started: every step inside a     *)
(* call or the callback is taken in the end.  Where such a step waits, it  *)
(* need only be possible again and again: the hrtimer rearms itself for    *)
(* ever, so a trylock that could succeed does; a kernel mutex or semaphore *)
(* hands over to its oldest waiter; rwsem writers cannot starve a reader.  *)
(* A thread is at one step at a time, so one condition covers all of its   *)
(* steps.  The program keeps touching sampled memory between its other     *)
(* calls (SF of Access).                                                   *)
(***************************************************************************)
Fairness ==
    /\ SF_vars(TimerStep)
    /\ \A t \in Threads : SF_vars(Access(t)) /\ SF_vars(MmapUnlock(t) \/ FaultStep(t))
    /\ \A r \in Readers : SF_vars(ActivateInit(r) \/ ActivateStart(r) \/ ReadStep(r))
    /\ WF_vars(ChildExit)
    /\ SF_vars(DeactivateCancel \/ DeactivateFree)

FairSpec == Spec /\ Fairness

-----------------------------------------------------------------------------
(* Properties.                                                             *)

Halves == Samples \cup {None}

\* Every variable has its type.
TypeOK ==
    /\ enabled \in BOOLEAN
    /\ p4d \in SUBSET Table
    /\ tlb \in SUBSET Threads
    /\ mmapReaders \in SUBSET Threads
    /\ mmapWriter \in Threads \cup {Timer, None}
    /\ mm \in {"live", "dead", "freed"}
    /\ mmCount \in 0..2
    /\ published \in BOOLEAN
    /\ hstate \in {"free", "raw", "ready"}
    /\ filp \in SUBSET {"parent", "child"}
    /\ timer \in {"off", "armed", "poison", "flush", "unlock"}
    /\ lock \in Threads \cup Readers \cup {None}
    /\ wait_sem \in 0..1
    /\ addr \in Halves
    /\ pc \in Halves
    /\ fault \in [Threads -> FaultStates]
    /\ cur \in [Threads -> Halves]
    /\ rd \in [Readers -> ReadStates]
    /\ buff \in [Readers -> Halves \X Halves]
    /\ last \in Halves \X Halves
    /\ unread \in BOOLEAN

\* sample_read never copies out a sample that an earlier read was already
\* given ("make sure that you do not read a duplicate value", in sample_read).
NoDuplicate == \A r \in Readers : rd[r] \in {"copy", "copy2"} => unread

\* A read returns the address and the pc of one and the same fault, although
\* kroom_report writes and sample_read copies the two halves separately.
NoTornSample == last[1] = last[2]

\* A sample that no read was given and no later report replaced can still be
\* read: the semaphore is up, or a reader is between its down and its copy.
NoLostSample ==
    unread => \/ wait_sem = 1
              \/ \E r \in Readers : rd[r] \in {"lock", "copy", "copy2"}

\* Once kroom_poison is through with its flush, no CPU still caches a
\* translation through the poisoned entry: the next access does fault.
PoisonArmed == p4d_sample_poisoned(p4d) /\ timer # "flush" => tlb = {}

\* While the program runs, the present bit is never set on an entry without a
\* table, although kroom_unpoison sets it without looking at the entry.
NoBogusEntry == mm = "live" /\ "PRESENT" \in p4d => p4d = Table

\* kroom_report dereferences mm->kroom_handle without a test: whoever gets
\* there finds a published handle whose mutex and semaphore are initialised.
ReportFindsHandle ==
    \A t \in Threads : fault[t] \in {"unpoison", "report", "post"} =>
        published /\ hstate = "ready"

\* The callback and sample_release use handle->mm after the process that
\* opened the device is gone (a forked child can hold the file open): the
\* mm_struct is still there, the reference of mmgrab being theirs.
SamplerMmAlive ==
    /\ timer # "off" => mm # "freed"
    /\ published => mm # "freed" /\ mmCount = (IF mm = "live" THEN 2 ELSE 1)

\* A fault on sampled memory always gets through: the thread retries its
\* access (or the process exits); no lock order in the fault path blocks it.
FaultCompletes ==
    \A t \in Threads : fault[t] = "fault" ~> fault[t] \in {"run", "exited"}

\* A sampler thread blocked in read(2) is served a sample in the end, as long
\* as the program keeps some sampled memory mapped and keeps touching it.
ReaderServed ==
    <>[](p4d # {}) =>
    \A r \in Readers : rd[r] = "down" ~> rd[r] \in {"copy", "exited"}

\* After the process and every heir of the descriptor are gone, the sampler
\* lets go of the address space: the timer stops and mm is freed.
ReleaseCompletes == mm = "dead" /\ filp = {} ~> mm = "freed" /\ timer = "off"

\* With one reader the device implements the abstract one-place mailbox.
Mailbox == INSTANCE SampleMailbox WITH slot <- IF unread THEN addr ELSE None
MailboxSpec == Mailbox!Spec

=============================================================================
