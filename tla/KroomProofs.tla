---------------------------- MODULE KroomProofs ----------------------------
(***************************************************************************)
(* Proofs about Kroom, for any number of threads, readers and samples and  *)
(* for both kinds of fault locking.                                        *)
(*                                                                         *)
(* The inductive invariant has three parts.  LifeInv ties the life of the  *)
(* handle (raw, ready, free), of the file and of mm to where the readers   *)
(* and the threads are; PageInv says what may be in the page-table entry;  *)
(* MailInv is about the mutex, the semaphore and the two halves.           *)
(***************************************************************************)
EXTENDS Kroom, TLAPS

Opening(r) == rd[r] \in {"init", "arm"}
Reading(r) == rd[r] \in {"down", "lock", "copy", "copy2"}

\* Who is alive when.  mm_count is the number of references there are; a
\* handle is being built by at most one reader, with the timer off; the file
\* is open in the process exactly as long as handle and process are there.
LifeInv ==
    /\ mmCount = (IF mm = "live" THEN 1 ELSE 0) + (IF published THEN 1 ELSE 0)
    /\ mm = "freed" <=> mmCount = 0
    /\ published <=> hstate # "free"
    /\ timer # "off" => hstate = "ready"
    /\ hstate = "raw" => \E r \in Readers : rd[r] = "init"
    /\ \A r \in Readers :
          /\ rd[r] = "init" => hstate = "raw"
          /\ rd[r] = "arm" => hstate = "ready"
          /\ Opening(r) => timer = "off" /\ filp = {} /\ mm = "live"
          /\ Reading(r) => "parent" \in filp
          /\ mm # "live" => rd[r] = "exited"
    /\ \A q, r \in Readers : Opening(q) /\ Opening(r) => q = r
    /\ filp # {} => hstate = "ready"
    /\ "parent" \in filp => mm = "live"
    /\ hstate = "ready" /\ mm = "live" /\ (\A r \in Readers : ~Opening(r)) => "parent" \in filp
    /\ mm # "live" => \A t \in Threads : fault[t] = "exited"

\* Only a ready handle leaves poison behind, and whoever is about to
\* unpoison the entry finds the table still in it.
PageInv ==
    /\ p4d_sample_poisoned(p4d) => hstate = "ready"
    /\ \A t \in Threads : fault[t] = "unpoison" => "USER" \in p4d
    /\ ReportFindsHandle
    /\ NoBogusEntry
    /\ PoisonArmed

\* The mutex protects the halves and the semaphore counts the unread sample.
MailInv ==
    /\ \A t \in Threads : fault[t] = "post" => lock = t /\ wait_sem = 0 /\ addr = cur[t]
    /\ \A r \in Readers : rd[r] \in {"copy", "copy2"} => lock = r /\ wait_sem = 0
    /\ \A r \in Readers : rd[r] = "copy2" => buff[r][1] = addr
    /\ (\A t \in Threads : fault[t] # "post") => addr = pc
    /\ wait_sem = 1 => unread
    /\ NoLostSample
    /\ NoTornSample

IInv == TypeOK /\ LifeInv /\ PageInv /\ MailInv

-----------------------------------------------------------------------------
\* The initial state satisfies the inductive invariant.
LEMMA InitIInv == Init => IInv
  <1> SUFFICES ASSUME Init PROVE IInv
    OBVIOUS
  <1> USE KroomAssumption DEF Init
  <1>1. TypeOK
    <2>1. buff \in [Readers -> Halves \X Halves] /\ last \in Halves \X Halves
      BY DEF Halves
    <2>2. fault \in [Threads -> FaultStates] /\ rd \in [Readers -> ReadStates]
      BY DEF FaultStates, ReadStates
    <2>3. enabled \in BOOLEAN /\ published \in BOOLEAN /\ unread \in BOOLEAN
      OBVIOUS
    <2>4. cur \in [Threads -> Halves] /\ p4d \in SUBSET Table /\ addr \in Halves /\ pc \in Halves
      BY DEF Halves
    <2>5. QED
      BY <2>1, <2>2, <2>3, <2>4 DEF TypeOK
  <1>2. LifeInv
    BY DEF LifeInv, Opening, Reading
  <1>3. PageInv
    BY DEF PageInv, ReportFindsHandle, NoBogusEntry, PoisonArmed, p4d_sample_poisoned
  <1>4. MailInv
    BY DEF MailInv, NoLostSample, NoTornSample
  <1>5. QED
    BY <1>1, <1>2, <1>3, <1>4 DEF IInv

-----------------------------------------------------------------------------
(* Steps: one lemma for each part of the invariant.                        *)

\* Every step keeps the types: the counts of mm and of the semaphore included.
LEMMA TypeStep == IInv /\ [Next]_vars => TypeOK'
  <1> SUFFICES ASSUME IInv, [Next]_vars PROVE TypeOK'
    OBVIOUS
  <1> USE KroomAssumption DEF IInv, TypeOK, FaultStates, ReadStates,
      vars, mmVars, lifeVars, mailVars, threadVars, readerVars
  <1>1. CASE SetEnabled
    BY <1>1 DEF SetEnabled
  <1>2. CASE TimerFire
    BY <1>2 DEF TimerFire
  <1>3. CASE kroom_poison
    <2>1. p4d' \in SUBSET Table /\ timer' \in {"flush", "unlock"}
      BY <1>3 DEF kroom_poison, p4d_sample_poison, p4d_sample_poisonable, Table
    <2>2. QED
      BY <1>3, <2>1 DEF kroom_poison, p4d_sample_poison, p4d_sample_poisonable, Table
  <1>4. CASE TimerFlush
    BY <1>4 DEF TimerFlush, flush_tlb_mm
  <1>5. CASE TimerUnlock
    BY <1>5 DEF TimerUnlock, RestartTimer
  <1>6. CASE Fork
    BY <1>6 DEF Fork
  <1>7. CASE Exit
    BY <1>7 DEF Exit, mmdrop, LifeInv
  <1>8. CASE ChildExit
    BY <1>8 DEF ChildExit
  <1>9. CASE DeactivateCancel
    BY <1>9 DEF DeactivateCancel
  <1>10. CASE DeactivateFree
    <2>1. mmCount' \in 0..2 /\ mm' \in {"live", "dead", "freed"}
      BY <1>10 DEF DeactivateFree, mmdrop, p4d_sample_unpoison, LifeInv, Table
    <2>2. p4d' \in SUBSET Table
      BY <1>10 DEF DeactivateFree, mmdrop, p4d_sample_unpoison, LifeInv, Table
    <2>3. QED
      BY <1>10, <2>1, <2>2 DEF DeactivateFree, mmdrop, p4d_sample_unpoison, LifeInv, Table
  <1>11. ASSUME NEW t \in Threads, Access(t) PROVE TypeOK'
    BY <1>11 DEF Access, Halves
  <1>12. ASSUME NEW t \in Threads, MmapLock(t) PROVE TypeOK'
    BY <1>12 DEF MmapLock
  <1>13. ASSUME NEW t \in Threads, MmapUnlock(t) PROVE TypeOK'
    <2>1. p4d' \in SUBSET Table /\ tlb' \in SUBSET Threads
      BY <1>13 DEF MmapUnlock, InFault, Table
    <2>2. QED
      BY <1>13, <2>1 DEF MmapUnlock, InFault, Table
  <1>14. ASSUME NEW t \in Threads, FaultLock(t) PROVE TypeOK'
    BY <1>14 DEF FaultLock
  <1>15. ASSUME NEW t \in Threads, HandleMmFault(t) PROVE TypeOK'
    BY <1>15 DEF HandleMmFault, p4d_sample_poisoned
  <1>16. ASSUME NEW t \in Threads, kroom_unpoison(t) PROVE TypeOK'
    BY <1>16 DEF kroom_unpoison, p4d_sample_unpoison, Table
  <1>17. ASSUME NEW t \in Threads, ReportAddr(t) PROVE TypeOK'
    <2>1. wait_sem' \in 0..1
      BY <1>17 DEF ReportAddr, MutexFree, down_trylock
    <2>2. addr' \in Halves /\ fault' \in [Threads -> FaultStates]
      BY <1>17 DEF ReportAddr, MutexFree, down_trylock
    <2>3. QED
      BY <1>17, <2>1, <2>2 DEF ReportAddr, MutexFree, down_trylock
  <1>18. ASSUME NEW t \in Threads, ReportPc(t) PROVE TypeOK'
    BY <1>18 DEF ReportPc, up, MailInv
  <1>19. ASSUME NEW r \in Readers, sample_open(r) PROVE TypeOK'
    <2>1. mmCount' \in 0..2
      BY <1>19 DEF sample_open, mmgrab, LifeInv
    <2>2. published' \in BOOLEAN /\ hstate' \in {"free", "raw", "ready"}
      BY <1>19 DEF sample_open, mmgrab, LifeInv
    <2>3. rd' \in [Readers -> ReadStates]
      BY <1>19 DEF sample_open, mmgrab, LifeInv
    <2>4. QED
      BY <1>19, <2>1, <2>2, <2>3 DEF sample_open, mmgrab, LifeInv
  <1>20. ASSUME NEW r \in Readers, ActivateInit(r) PROVE TypeOK'
    <2>1. unread' \in BOOLEAN
      BY <1>20 DEF ActivateInit, Halves
    <2>2. wait_sem' \in 0..1 /\ rd' \in [Readers -> ReadStates]
      BY <1>20 DEF ActivateInit, Halves
    <2>3. QED
      BY <1>20, <2>1, <2>2 DEF ActivateInit, Halves
  <1>21. ASSUME NEW r \in Readers, ActivateStart(r) PROVE TypeOK'
    BY <1>21 DEF ActivateStart
  <1>22. ASSUME NEW r \in Readers, JoinFd(r) PROVE TypeOK'
    BY <1>22 DEF JoinFd
  <1>23. ASSUME NEW r \in Readers, ReadDown(r) PROVE TypeOK'
    BY <1>23 DEF ReadDown
  <1>24. ASSUME NEW r \in Readers, ReadLock(r) PROVE TypeOK'
    BY <1>24 DEF ReadLock, MutexFree, down_trylock
  <1>25. ASSUME NEW r \in Readers, CopyAddr(r) PROVE TypeOK'
    BY <1>25 DEF CopyAddr
  <1>26. ASSUME NEW r \in Readers, CopyPc(r) PROVE TypeOK'
    <2>1. buff' \in [Readers -> Halves \X Halves] /\ last' \in Halves \X Halves
      BY <1>26 DEF CopyPc, MailInv
    <2>2. rd' \in [Readers -> ReadStates] /\ unread' = FALSE /\ lock' = None
      BY <1>26 DEF CopyPc, MailInv
    <2>3. QED
      BY <1>26, <2>1, <2>2 DEF CopyPc, MailInv
  <1>27. ASSUME NEW r \in Readers, CopyFault(r) PROVE TypeOK'
    <2>1. rd' \in [Readers -> ReadStates] /\ unread' = FALSE /\ lock' = None
      BY <1>27 DEF CopyFault
    <2>2. QED
      BY <1>27, <2>1 DEF CopyFault
  <1>28. CASE UNCHANGED vars
    BY <1>28
  <1>29. QED
    BY <1>1, <1>2, <1>3, <1>4, <1>5, <1>6, <1>7, <1>8, <1>9, <1>10, <1>11, <1>12, <1>13,
       <1>14, <1>15, <1>16, <1>17, <1>18, <1>19, <1>20, <1>21, <1>22, <1>23, <1>24, <1>25,
       <1>26, <1>27, <1>28
       DEF Next, TimerStep, ThreadStep, FaultStep, OpenStep, ReadStep, LifeStep

\* Every step keeps the life cycles of handle, file and mm in line.
LEMMA LifeInvStep == IInv /\ [Next]_vars => LifeInv'
  <1> SUFFICES ASSUME IInv, [Next]_vars PROVE LifeInv'
    OBVIOUS
  <1> USE KroomAssumption DEF IInv, TypeOK, LifeInv, Reading, Opening,
      vars, mmVars, lifeVars, mailVars, threadVars, readerVars
  <1>1. CASE SetEnabled
    BY <1>1 DEF SetEnabled
  <1>2. CASE TimerFire
    BY <1>2 DEF TimerFire
  <1>3. CASE kroom_poison
    BY <1>3 DEF kroom_poison, p4d_sample_poison, p4d_sample_poisonable
  <1>4. CASE TimerFlush
    BY <1>4 DEF TimerFlush, flush_tlb_mm
  <1>5. CASE TimerUnlock
    BY <1>5 DEF TimerUnlock, RestartTimer
  <1>6. CASE Fork
    BY <1>6 DEF Fork
  <1>7. CASE Exit
    BY <1>7 DEF Exit, mmdrop
  <1>8. CASE ChildExit
    BY <1>8 DEF ChildExit
  <1>9. CASE DeactivateCancel
    BY <1>9 DEF DeactivateCancel
  <1>10. CASE DeactivateFree
    BY <1>10 DEF DeactivateFree, mmdrop, p4d_sample_unpoison
  <1>11. ASSUME NEW t \in Threads, Access(t) PROVE LifeInv'
    BY <1>11 DEF Access
  <1>12. ASSUME NEW t \in Threads, MmapLock(t) PROVE LifeInv'
    BY <1>12 DEF MmapLock
  <1>13. ASSUME NEW t \in Threads, MmapUnlock(t) PROVE LifeInv'
    BY <1>13 DEF MmapUnlock, InFault
  <1>14. ASSUME NEW t \in Threads, FaultLock(t) PROVE LifeInv'
    BY <1>14 DEF FaultLock
  <1>15. ASSUME NEW t \in Threads, HandleMmFault(t) PROVE LifeInv'
    BY <1>15 DEF HandleMmFault, p4d_sample_poisoned
  <1>16. ASSUME NEW t \in Threads, kroom_unpoison(t) PROVE LifeInv'
    BY <1>16 DEF kroom_unpoison, p4d_sample_unpoison
  <1>17. ASSUME NEW t \in Threads, ReportAddr(t) PROVE LifeInv'
    BY <1>17 DEF ReportAddr, MutexFree, down_trylock
  <1>18. ASSUME NEW t \in Threads, ReportPc(t) PROVE LifeInv'
    BY <1>18 DEF ReportPc, up
  <1>19. ASSUME NEW r \in Readers, sample_open(r) PROVE LifeInv'
    <2>1. CASE enabled /\ ~published
      <3>1. /\ published' = TRUE /\ hstate = "free" /\ hstate' = "raw"
            /\ mm = "live" /\ mmCount = 1 /\ mmCount' = 2
            /\ timer = "off" /\ filp = {}
        <4>1. hstate = "free" /\ timer = "off"
          BY <2>1
        <4>2. mm = "live"
          BY <1>19 DEF sample_open, mmgrab
        <4>3. mmCount = 1 /\ mmCount' = 2
          BY <1>19, <2>1, <4>2 DEF sample_open, mmgrab
        <4>4. filp = {}
          BY <4>1, <4>2
        <4>5. QED
          BY <1>19, <2>1, <4>1, <4>2, <4>3, <4>4 DEF sample_open, mmgrab
      <3>2. \A q \in Readers : ~Opening(q) /\ ~Reading(q)
        BY <3>1
      <3>3. /\ rd' = [rd EXCEPT ![r] = "init"]
            /\ UNCHANGED <<mm, filp, timer, fault>>
        BY <1>19, <2>1 DEF sample_open, mmgrab
      <3>4. QED
        BY <3>1, <3>2, <3>3
    <2>2. CASE ~(enabled /\ ~published)
      <3>1. /\ rd' = [rd EXCEPT ![r] = "done"]
            /\ UNCHANGED <<mm, mmCount, published, hstate, filp, timer, fault>>
        BY <1>19, <2>2 DEF sample_open, mmgrab
      <3>2. QED
        BY <1>19, <3>1 DEF sample_open, mmgrab
    <2>3. QED
      BY <2>1, <2>2
  <1>20. ASSUME NEW r \in Readers, ActivateInit(r) PROVE LifeInv'
    BY <1>20 DEF ActivateInit
  <1>21. ASSUME NEW r \in Readers, ActivateStart(r) PROVE LifeInv'
    BY <1>21 DEF ActivateStart
  <1>22. ASSUME NEW r \in Readers, JoinFd(r) PROVE LifeInv'
    BY <1>22 DEF JoinFd
  <1>23. ASSUME NEW r \in Readers, ReadDown(r) PROVE LifeInv'
    BY <1>23 DEF ReadDown
  <1>24. ASSUME NEW r \in Readers, ReadLock(r) PROVE LifeInv'
    BY <1>24 DEF ReadLock, MutexFree, down_trylock
  <1>25. ASSUME NEW r \in Readers, CopyAddr(r) PROVE LifeInv'
    BY <1>25 DEF CopyAddr
  <1>26. ASSUME NEW r \in Readers, CopyPc(r) PROVE LifeInv'
    BY <1>26 DEF CopyPc
  <1>27. ASSUME NEW r \in Readers, CopyFault(r) PROVE LifeInv'
    BY <1>27 DEF CopyFault
  <1>28. CASE UNCHANGED vars
    BY <1>28
  <1>29. QED
    BY <1>1, <1>2, <1>3, <1>4, <1>5, <1>6, <1>7, <1>8, <1>9, <1>10, <1>11, <1>12, <1>13,
       <1>14, <1>15, <1>16, <1>17, <1>18, <1>19, <1>20, <1>21, <1>22, <1>23, <1>24, <1>25,
       <1>26, <1>27, <1>28
       DEF Next, TimerStep, ThreadStep, FaultStep, OpenStep, ReadStep, LifeStep

\* Every step keeps the page-table entry, the TLB and the handle in line.
LEMMA PageInvStep == IInv /\ [Next]_vars => PageInv'
  <1> SUFFICES ASSUME IInv, [Next]_vars PROVE PageInv'
    OBVIOUS
  <1> USE KroomAssumption DEF IInv, PageInv, ReportFindsHandle, NoBogusEntry, PoisonArmed,
      Table, p4d_sample_poisoned,
      vars, mmVars, lifeVars, mailVars, threadVars, readerVars
  <1>1. fault \in [Threads -> FaultStates] /\ rd \in [Readers -> ReadStates] /\ p4d \in SUBSET Table
    BY DEF TypeOK
  <1> USE <1>1
  <1>2. CASE SetEnabled
    BY <1>2 DEF SetEnabled
  <1>3. CASE TimerFire
    BY <1>3 DEF TimerFire, LifeInv, Opening, Reading
  <1>4. CASE kroom_poison
    BY <1>4 DEF kroom_poison, p4d_sample_poison, p4d_sample_poisonable, LifeInv, Opening, Reading
  <1>5. CASE TimerFlush
    BY <1>5 DEF TimerFlush, flush_tlb_mm, LifeInv, Opening, Reading
  <1>6. CASE TimerUnlock
    BY <1>6 DEF TimerUnlock, RestartTimer, LifeInv, Opening, Reading
  <1>7. CASE Fork
    BY <1>7 DEF Fork
  <1>8. CASE Exit
    BY <1>8 DEF Exit, mmdrop, LifeInv, Opening, Reading
  <1>9. CASE ChildExit
    BY <1>9 DEF ChildExit
  <1>10. CASE DeactivateCancel
    BY <1>10 DEF DeactivateCancel, LifeInv, Opening, Reading
  <1>11. CASE DeactivateFree
    BY <1>11 DEF DeactivateFree, mmdrop, p4d_sample_unpoison, LifeInv, Opening, Reading
  <1>12. ASSUME NEW t \in Threads, Access(t) PROVE PageInv'
    BY <1>12 DEF Access
  <1>13. ASSUME NEW t \in Threads, MmapLock(t) PROVE PageInv'
    BY <1>13 DEF MmapLock
  <1>14. ASSUME NEW t \in Threads, MmapUnlock(t) PROVE PageInv'
    BY <1>14 DEF MmapUnlock, InFault
  <1>15. ASSUME NEW t \in Threads, FaultLock(t) PROVE PageInv'
    BY <1>15 DEF FaultLock
  <1>16. ASSUME NEW t \in Threads, HandleMmFault(t) PROVE PageInv'
    BY <1>16 DEF HandleMmFault, p4d_sample_poisoned, LifeInv, Opening, Reading
  <1>17. ASSUME NEW t \in Threads, kroom_unpoison(t) PROVE PageInv'
    <2>1. p4d' = Table
      BY <1>17 DEF kroom_unpoison, p4d_sample_unpoison
    <2>2. hstate' = "ready" /\ published'
      BY <1>17 DEF kroom_unpoison, p4d_sample_unpoison
    <2>3. QED
      BY <1>17, <2>1, <2>2 DEF kroom_unpoison, p4d_sample_unpoison
  <1>18. ASSUME NEW t \in Threads, ReportAddr(t) PROVE PageInv'
    BY <1>18 DEF ReportAddr, MutexFree, down_trylock
  <1>19. ASSUME NEW t \in Threads, ReportPc(t) PROVE PageInv'
    BY <1>19 DEF ReportPc, up
  <1>20. ASSUME NEW r \in Readers, sample_open(r) PROVE PageInv'
    BY <1>20 DEF sample_open, mmgrab, LifeInv, Opening, Reading
  <1>21. ASSUME NEW r \in Readers, ActivateInit(r) PROVE PageInv'
    BY <1>21 DEF ActivateInit, LifeInv, Opening, Reading
  <1>22. ASSUME NEW r \in Readers, ActivateStart(r) PROVE PageInv'
    BY <1>22 DEF ActivateStart, LifeInv, Opening, Reading
  <1>23. ASSUME NEW r \in Readers, JoinFd(r) PROVE PageInv'
    BY <1>23 DEF JoinFd
  <1>24. ASSUME NEW r \in Readers, ReadDown(r) PROVE PageInv'
    BY <1>24 DEF ReadDown
  <1>25. ASSUME NEW r \in Readers, ReadLock(r) PROVE PageInv'
    BY <1>25 DEF ReadLock, MutexFree, down_trylock
  <1>26. ASSUME NEW r \in Readers, CopyAddr(r) PROVE PageInv'
    BY <1>26 DEF CopyAddr
  <1>27. ASSUME NEW r \in Readers, CopyPc(r) PROVE PageInv'
    BY <1>27 DEF CopyPc
  <1>28. ASSUME NEW r \in Readers, CopyFault(r) PROVE PageInv'
    BY <1>28 DEF CopyFault
  <1>29. CASE UNCHANGED vars
    BY <1>29
  <1>30. QED
    BY <1>2, <1>3, <1>4, <1>5, <1>6, <1>7, <1>8, <1>9, <1>10, <1>11, <1>12, <1>13, <1>14,
       <1>15, <1>16, <1>17, <1>18, <1>19, <1>20, <1>21, <1>22, <1>23, <1>24, <1>25, <1>26,
       <1>27, <1>28, <1>29
       DEF Next, TimerStep, ThreadStep, FaultStep, OpenStep, ReadStep, LifeStep

\* Every step keeps mutex, semaphore and mailbox in line.
LEMMA MailInvStep == IInv /\ [Next]_vars => MailInv'
  <1> SUFFICES ASSUME IInv, [Next]_vars PROVE MailInv'
    OBVIOUS
  <1> USE KroomAssumption DEF IInv, MailInv, NoLostSample, NoTornSample,
      vars, mmVars, lifeVars, mailVars, threadVars, readerVars
  <1>1. /\ fault \in [Threads -> FaultStates] /\ rd \in [Readers -> ReadStates]
        /\ cur \in [Threads -> Halves] /\ buff \in [Readers -> Halves \X Halves]
        /\ wait_sem \in 0..1
    BY DEF TypeOK
  <1> USE <1>1
  <1>2. CASE SetEnabled
    BY <1>2 DEF SetEnabled
  <1>3. CASE TimerFire
    BY <1>3 DEF TimerFire
  <1>4. CASE kroom_poison
    BY <1>4 DEF kroom_poison, p4d_sample_poison, p4d_sample_poisonable
  <1>5. CASE TimerFlush
    BY <1>5 DEF TimerFlush, flush_tlb_mm
  <1>6. CASE TimerUnlock
    BY <1>6 DEF TimerUnlock, RestartTimer
  <1>7. CASE Fork
    BY <1>7 DEF Fork
  <1>8. CASE Exit
    BY <1>8 DEF Exit, mmdrop
  <1>9. CASE ChildExit
    BY <1>9 DEF ChildExit
  <1>10. CASE DeactivateCancel
    BY <1>10 DEF DeactivateCancel
  <1>11. CASE DeactivateFree
    BY <1>11 DEF DeactivateFree, mmdrop, p4d_sample_unpoison
  <1>12. ASSUME NEW t \in Threads, Access(t) PROVE MailInv'
    BY <1>12 DEF Access
  <1>13. ASSUME NEW t \in Threads, MmapLock(t) PROVE MailInv'
    BY <1>13 DEF MmapLock
  <1>14. ASSUME NEW t \in Threads, MmapUnlock(t) PROVE MailInv'
    BY <1>14 DEF MmapUnlock, InFault
  <1>15. ASSUME NEW t \in Threads, FaultLock(t) PROVE MailInv'
    BY <1>15 DEF FaultLock
  <1>16. ASSUME NEW t \in Threads, HandleMmFault(t) PROVE MailInv'
    BY <1>16 DEF HandleMmFault, p4d_sample_poisoned
  <1>17. ASSUME NEW t \in Threads, kroom_unpoison(t) PROVE MailInv'
    BY <1>17 DEF kroom_unpoison, p4d_sample_unpoison
  <1>18. ASSUME NEW t \in Threads, ReportAddr(t) PROVE MailInv'
    BY <1>18 DEF ReportAddr, MutexFree, down_trylock
  <1>19. ASSUME NEW t \in Threads, ReportPc(t) PROVE MailInv'
    BY <1>19 DEF ReportPc, up
  <1>20. ASSUME NEW r \in Readers, sample_open(r) PROVE MailInv'
    BY <1>20 DEF sample_open, mmgrab, LifeInv, Opening, Reading
  <1>21. ASSUME NEW r \in Readers, ActivateInit(r) PROVE MailInv'
    <2>1. \A q \in Readers : ~Reading(q)
      BY <1>21 DEF ActivateInit, LifeInv, Opening, Reading
    <2>2. \A t \in Threads : fault[t] # "post"
      BY <1>21 DEF ActivateInit, LifeInv, PageInv, ReportFindsHandle
    <2>3. QED
      BY <1>21, <2>1, <2>2 DEF ActivateInit, Reading
  <1>22. ASSUME NEW r \in Readers, ActivateStart(r) PROVE MailInv'
    BY <1>22 DEF ActivateStart
  <1>23. ASSUME NEW r \in Readers, JoinFd(r) PROVE MailInv'
    BY <1>23 DEF JoinFd
  <1>24. ASSUME NEW r \in Readers, ReadDown(r) PROVE MailInv'
    BY <1>24 DEF ReadDown
  <1>25. ASSUME NEW r \in Readers, ReadLock(r) PROVE MailInv'
    BY <1>25 DEF ReadLock, MutexFree, down_trylock
  <1>26. ASSUME NEW r \in Readers, CopyAddr(r) PROVE MailInv'
    BY <1>26 DEF CopyAddr
  <1>27. ASSUME NEW r \in Readers, CopyPc(r) PROVE MailInv'
    BY <1>27 DEF CopyPc
  <1>28. ASSUME NEW r \in Readers, CopyFault(r) PROVE MailInv'
    BY <1>28 DEF CopyFault
  <1>29. CASE UNCHANGED vars
    BY <1>29
  <1>30. QED
    BY <1>2, <1>3, <1>4, <1>5, <1>6, <1>7, <1>8, <1>9, <1>10, <1>11, <1>12, <1>13, <1>14,
       <1>15, <1>16, <1>17, <1>18, <1>19, <1>20, <1>21, <1>22, <1>23, <1>24, <1>25, <1>26,
       <1>27, <1>28, <1>29
       DEF Next, TimerStep, ThreadStep, FaultStep, OpenStep, ReadStep, LifeStep

-----------------------------------------------------------------------------
(* What holds with any number of readers.                                  *)

\* The inductive invariant holds in every reachable state.
THEOREM Invariance == Spec => []IInv
  <1>1. Init => IInv
    BY InitIInv
  <1>2. IInv /\ [Next]_vars => IInv'
    BY TypeStep, LifeInvStep, PageInvStep, MailInvStep DEF IInv
  <1>3. QED
    BY <1>1, <1>2, PTL DEF Spec

\* Types, and with them the bounds 1 of wait_sem and 2 of mm_count.
THEOREM TypeCorrect == Spec => []TypeOK
  BY Invariance, PTL DEF IInv

\* read(2) returns both halves of one fault, whatever the interleaving of
\* kroom_report and sample_read.
THEOREM SamplesWhole == Spec => []NoTornSample
  BY Invariance, PTL DEF IInv, MailInv

\* An unread sample that was not replaced can still be read.
THEOREM SamplesKept == Spec => []NoLostSample
  BY Invariance, PTL DEF IInv, MailInv

\* No access slips through a stale TLB entry after kroom_poison.
THEOREM PoisonEffective == Spec => []PoisonArmed
  BY Invariance, PTL DEF IInv, PageInv

\* kroom_unpoison never makes an empty entry look present to the program.
THEOREM EntrySound == Spec => []NoBogusEntry
  BY Invariance, PTL DEF IInv, PageInv

\* kroom_report finds mm->kroom_handle set and initialised.
THEOREM HandleThere == Spec => []ReportFindsHandle
  BY Invariance, PTL DEF IInv, PageInv

\* The timer callback and sample_release never use a freed mm.
THEOREM MmOutlivesSampler == Spec => []SamplerMmAlive
  <1>1. IInv => SamplerMmAlive
    BY DEF IInv, TypeOK, LifeInv, SamplerMmAlive
  <1>2. QED
    BY <1>1, Invariance, PTL

-----------------------------------------------------------------------------
(* What holds with one reader, as in every plugin.                         *)

SingleReader == \A q, r \in Readers : q = r

\* A reader on its way from the semaphore to the mailbox will find a sample no
\* one was given; a report in progress has already discarded the old one.
OnceInv ==
    /\ NoDuplicate
    /\ \A r \in Readers : rd[r] = "lock" => unread \/ \E t \in Threads : fault[t] = "post"
    /\ \A t \in Threads : fault[t] = "post" => ~unread
    /\ \A t \in Threads : fault[t] \in {"fault", "walk", "unpoison", "report", "post"} =>
          cur[t] \in Samples
    /\ unread => addr \in Samples

\* With one reader, every step keeps OnceInv.
LEMMA OnceInvStep == SingleReader /\ IInv /\ OnceInv /\ [Next]_vars => OnceInv'
  <1> SUFFICES ASSUME SingleReader /\ IInv /\ OnceInv, [Next]_vars PROVE OnceInv'
    OBVIOUS
  <1> USE KroomAssumption DEF IInv, MailInv, OnceInv, NoDuplicate, SingleReader,
      vars, mmVars, lifeVars, mailVars, threadVars, readerVars
  <1>1. /\ fault \in [Threads -> FaultStates] /\ rd \in [Readers -> ReadStates]
        /\ cur \in [Threads -> Halves] /\ buff \in [Readers -> Halves \X Halves]
        /\ wait_sem \in 0..1 /\ unread \in BOOLEAN
    BY DEF TypeOK
  <1> USE <1>1
  <1>2. CASE SetEnabled
    BY <1>2 DEF SetEnabled
  <1>3. CASE TimerFire
    BY <1>3 DEF TimerFire
  <1>4. CASE kroom_poison
    BY <1>4 DEF kroom_poison, p4d_sample_poison, p4d_sample_poisonable
  <1>5. CASE TimerFlush
    BY <1>5 DEF TimerFlush, flush_tlb_mm
  <1>6. CASE TimerUnlock
    BY <1>6 DEF TimerUnlock, RestartTimer
  <1>7. CASE Fork
    BY <1>7 DEF Fork
  <1>8. CASE Exit
    BY <1>8 DEF Exit, mmdrop
  <1>9. CASE ChildExit
    BY <1>9 DEF ChildExit
  <1>10. CASE DeactivateCancel
    BY <1>10 DEF DeactivateCancel
  <1>11. CASE DeactivateFree
    BY <1>11 DEF DeactivateFree, mmdrop, p4d_sample_unpoison
  <1>12. ASSUME NEW t \in Threads, Access(t) PROVE OnceInv'
    BY <1>12 DEF Access
  <1>13. ASSUME NEW t \in Threads, MmapLock(t) PROVE OnceInv'
    BY <1>13 DEF MmapLock
  <1>14. ASSUME NEW t \in Threads, MmapUnlock(t) PROVE OnceInv'
    BY <1>14 DEF MmapUnlock, InFault
  <1>15. ASSUME NEW t \in Threads, FaultLock(t) PROVE OnceInv'
    BY <1>15 DEF FaultLock
  <1>16. ASSUME NEW t \in Threads, HandleMmFault(t) PROVE OnceInv'
    BY <1>16 DEF HandleMmFault, p4d_sample_poisoned
  <1>17. ASSUME NEW t \in Threads, kroom_unpoison(t) PROVE OnceInv'
    BY <1>17 DEF kroom_unpoison, p4d_sample_unpoison
  <1>18. ASSUME NEW t \in Threads, ReportAddr(t) PROVE OnceInv'
    BY <1>18 DEF ReportAddr, MutexFree, down_trylock
  <1>19. ASSUME NEW t \in Threads, ReportPc(t) PROVE OnceInv'
    BY <1>19 DEF ReportPc, up
  <1>20. ASSUME NEW r \in Readers, sample_open(r) PROVE OnceInv'
    BY <1>20 DEF sample_open, mmgrab
  <1>21. ASSUME NEW r \in Readers, ActivateInit(r) PROVE OnceInv'
    <2>1. \A q \in Readers : ~Reading(q)
      BY <1>21 DEF ActivateInit, LifeInv, Opening, Reading
    <2>2. \A t \in Threads : fault[t] # "post"
      BY <1>21 DEF ActivateInit, LifeInv, PageInv, ReportFindsHandle
    <2>3. QED
      BY <1>21, <2>1, <2>2 DEF ActivateInit, Reading
  <1>22. ASSUME NEW r \in Readers, ActivateStart(r) PROVE OnceInv'
    BY <1>22 DEF ActivateStart
  <1>23. ASSUME NEW r \in Readers, JoinFd(r) PROVE OnceInv'
    BY <1>23 DEF JoinFd
  <1>24. ASSUME NEW r \in Readers, ReadDown(r) PROVE OnceInv'
    BY <1>24 DEF ReadDown
  <1>25. ASSUME NEW r \in Readers, ReadLock(r) PROVE OnceInv'
    BY <1>25 DEF ReadLock, MutexFree, down_trylock
  <1>26. ASSUME NEW r \in Readers, CopyAddr(r) PROVE OnceInv'
    BY <1>26 DEF CopyAddr
  <1>27. ASSUME NEW r \in Readers, CopyPc(r) PROVE OnceInv'
    BY <1>27 DEF CopyPc, Halves
  <1>28. ASSUME NEW r \in Readers, CopyFault(r) PROVE OnceInv'
    BY <1>28 DEF CopyFault
  <1>29. CASE UNCHANGED vars
    BY <1>29
  <1>30. QED
    BY <1>2, <1>3, <1>4, <1>5, <1>6, <1>7, <1>8, <1>9, <1>10, <1>11, <1>12, <1>13, <1>14,
       <1>15, <1>16, <1>17, <1>18, <1>19, <1>20, <1>21, <1>22, <1>23, <1>24, <1>25, <1>26,
       <1>27, <1>28, <1>29
       DEF Next, TimerStep, ThreadStep, FaultStep, OpenStep, ReadStep, LifeStep

\* With one reader the invariant OnceInv holds in every reachable state.
THEOREM OnceInvariance == SingleReader => (Spec => []OnceInv)
  <1> SUFFICES ASSUME SingleReader PROVE Spec => []OnceInv
    OBVIOUS
  <1>1. Init => OnceInv
    BY KroomAssumption DEF Init, OnceInv, NoDuplicate
  <1>2. IInv /\ OnceInv /\ [Next]_vars => OnceInv'
    BY OnceInvStep
  <1>3. QED
    BY <1>1, <1>2, Invariance, PTL DEF Spec

\* With one reader no sample is delivered twice: the down_trylock in
\* sample_read is enough.
THEOREM AtMostOnce == SingleReader => (Spec => []NoDuplicate)
  <1> SUFFICES ASSUME SingleReader PROVE Spec => []NoDuplicate
    OBVIOUS
  <1>1. OnceInv => NoDuplicate
    BY DEF OnceInv
  <1>2. QED
    BY <1>1, OnceInvariance, PTL

-----------------------------------------------------------------------------
(* The device implements the abstract mailbox.                             *)

slotNow == IF unread THEN addr ELSE None

\* With one reader, every step of the device is a step of the mailbox or
\* leaves slot and last alone.
LEMMA MailboxStep ==
    SingleReader /\ IInv /\ OnceInv /\ [Next]_vars => [Mailbox!Next]_<<slotNow, last>>
  <1> SUFFICES ASSUME SingleReader, IInv, OnceInv, [Next]_vars
               PROVE  [Mailbox!Next]_<<slotNow, last>>
    OBVIOUS
  <1> USE KroomAssumption
  <1> DEFINE Quiet == UNCHANGED <<unread, addr, last>>
  <1>1. CASE Quiet
    BY <1>1 DEF slotNow
  <1>2. ASSUME NEW t \in Threads, ReportAddr(t) PROVE [Mailbox!Next]_<<slotNow, last>>
    \* the old sample is discarded
    <2>1. slotNow' = None /\ UNCHANGED last
      BY <1>2 DEF ReportAddr, slotNow, readerVars
    <2>2. QED
      BY <2>1 DEF Mailbox!Next, Mailbox!Discard, slotNow
  <1>3. ASSUME NEW t \in Threads, ReportPc(t) PROVE [Mailbox!Next]_<<slotNow, last>>
    \* the new sample is put
    <2>1. slotNow = None /\ slotNow' = cur[t] /\ cur[t] \in Samples /\ UNCHANGED last
      BY <1>3 DEF ReportPc, slotNow, readerVars, IInv, MailInv, OnceInv
    <2>2. QED
      BY <2>1 DEF Mailbox!Next, Mailbox!Put, slotNow
  <1>4. ASSUME NEW r \in Readers, ActivateInit(r) PROVE [Mailbox!Next]_<<slotNow, last>>
    <2>1. slotNow' = None /\ UNCHANGED last
      BY <1>4 DEF ActivateInit, slotNow
    <2>2. QED
      BY <2>1 DEF Mailbox!Next, Mailbox!Discard, slotNow
  <1>5. ASSUME NEW r \in Readers, CopyPc(r) PROVE [Mailbox!Next]_<<slotNow, last>>
    \* the sample is taken
    <2>1. lock = r /\ r \notin Threads /\ unread /\ buff[r][1] = addr
      BY <1>5 DEF CopyPc, IInv, MailInv, OnceInv, NoDuplicate
    <2>2. addr = pc
      BY <2>1 DEF IInv, MailInv
    <2>3. slotNow = addr /\ addr # None /\ slotNow' = None /\ last' = <<addr, addr>>
      BY <1>5, <2>1, <2>2 DEF CopyPc, slotNow, OnceInv
    <2>4. QED
      BY <2>3 DEF Mailbox!Next, Mailbox!Take, slotNow
  <1>6. ASSUME NEW r \in Readers, CopyFault(r) PROVE [Mailbox!Next]_<<slotNow, last>>
    <2>1. slotNow' = None /\ UNCHANGED last
      BY <1>6 DEF CopyFault, slotNow
    <2>2. QED
      BY <2>1 DEF Mailbox!Next, Mailbox!Discard, slotNow
  <1>7. ASSUME NEW t \in Threads, ThreadStep(t), ~ReportAddr(t), ~ReportPc(t) PROVE Quiet
    BY <1>7 DEF ThreadStep, FaultStep, Access, MmapLock, MmapUnlock, FaultLock, HandleMmFault,
                kroom_unpoison, mailVars, readerVars
  <1>8. ASSUME NEW r \in Readers, OpenStep(r), ~ActivateInit(r) PROVE Quiet
    BY <1>8 DEF OpenStep, sample_open, ActivateStart, JoinFd, mailVars
  <1>9. ASSUME NEW r \in Readers, ReadStep(r), ~CopyPc(r), ~CopyFault(r) PROVE Quiet
    BY <1>9 DEF ReadStep, ReadDown, ReadLock, CopyAddr, mailVars
  <1>10. CASE SetEnabled \/ TimerStep \/ LifeStep \/ UNCHANGED vars
    <2>1. Quiet
      BY <1>10 DEF SetEnabled, TimerStep, TimerFire, kroom_poison, TimerFlush, TimerUnlock,
                   LifeStep, Fork, Exit, ChildExit, DeactivateCancel, DeactivateFree,
                   vars, mailVars, readerVars
    <2>2. QED
      BY <1>1, <2>1
  <1>11. QED
    BY <1>1, <1>2, <1>3, <1>4, <1>5, <1>6, <1>7, <1>8, <1>9, <1>10
       DEF Next

\* With one reader the sampler device implements the one-place mailbox: the
\* newest sample is kept, and each one is handed out whole and at most once.
THEOREM ImplementsMailbox == SingleReader => (Spec => MailboxSpec)
  <1> SUFFICES ASSUME SingleReader PROVE Spec => MailboxSpec
    OBVIOUS
  <1>1. Init => Mailbox!Init
    BY DEF Init, Mailbox!Init
  <1>2. IInv /\ OnceInv /\ [Next]_vars => [Mailbox!Next]_<<slotNow, last>>
    BY MailboxStep
  <1>3. QED
    BY <1>1, <1>2, Invariance, OnceInvariance, PTL DEF Spec, MailboxSpec, Mailbox!Spec, slotNow

=============================================================================
