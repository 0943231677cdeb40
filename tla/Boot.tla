-------------------------------- MODULE Boot --------------------------------
(***************************************************************************)
(* Initialisation of the allocator: malloc_init_hard() of jemalloc.c, run   *)
(* by whichever thread allocates first while others allocate too, and the   *)
(* number of arenas it settles on.  The initialising thread gives up        *)
(* init_lock in the middle, because the steps there may themselves allocate *)
(* (JEMALLOC_THREADED_INIT, the Linux build).                               *)
(*                                                                          *)
(* Options are chosen when the strings are read (module Conf), the number   *)
(* of processors when it is counted.                                        *)
(***************************************************************************)
EXTENDS Naturals, Sequences, FiniteSets

CONSTANTS
  Threads,
  MaxCalls,    \* most calls one thread makes
  MaxCpus,     \* most processors
  Limit,       \* MALLOCX_ARENA_LIMIT
  Narenas,     \* values of opt_narenas, 0 for none given
  Failing      \* the stages that may fail

VARIABLES
  state,       \* malloc_init_state
  initializer, \* malloc_initializer
  lock,        \* the holder of init_lock
  call,        \* thread -> where its call is
  calls,       \* thread -> calls made so far
  booted,      \* stage -> times it was completed
  opt,         \* the options that matter here
  arenas,      \* ncpus, narenas_auto, the huge arena, manual_arena_base
  served       \* the last grant: to whom, and what was ready then

vars == <<state, initializer, lock, call, calls, booted, opt, arenas, served>>

None == "none"

(* The stages of malloc_init_hard_a0_locked(), in order: size classes       *)
(* before the strings, the strings before what depends on their values.     *)
A0Stages == <<"sc_boot", "malloc_conf_init", "sz_boot", "bin_info_boot",
              "stats_boot", "pages_boot", "base_boot", "emap_init",
              "extent_boot", "ctl_boot", "prof_boot1", "arena_boot",
              "tcache_boot", "arenas_lock", "hook_boot", "arena_0", "hpa_a0">>

A0Set == {A0Stages[i] : i \in DOMAIN A0Stages}

(* The stages after it: without the lock, and with the lock taken again.    *)
RecursibleStages == <<"tsd_boot0", "pthread_atfork", "background_thread_boot0">>
LastStages == <<"narenas", "background_thread_boot1", "prof_boot2", "mutex_boot">>

Stages == A0Set \cup {RecursibleStages[i] : i \in 1..3} \cup {LastStages[i] : i \in 1..4}

(* No huge arena: an index beyond the range.                               *)
NoHuge == Limit

NoArenas == [ncpus |-> 0, narenas_auto |-> 0, total |-> 0, huge |-> NoHuge, base |-> 0]

Init ==
  /\ state = "uninitialized"
  /\ initializer = None
  /\ lock = None
  /\ call = [t \in Threads |-> "idle"]
  /\ calls = [t \in Threads |-> 0]
  /\ booted = [s \in Stages |-> 0]
  /\ opt = [percpu |-> "disabled", narenas |-> 0, ratio |-> 4, huge |-> TRUE,
            abort |-> FALSE, background |-> FALSE]
  /\ arenas = NoArenas
  /\ served = [to |-> None, nested |-> FALSE, state |-> "uninitialized", arenas |-> NoArenas]

(* The stages of a sequence up to, and without, the one that fails.         *)
Until(stages, n) == {stages[i] : i \in 1..(n - 1)}

Completed(done) == [s \in Stages |-> booted[s] + (IF s \in done THEN 1 ELSE 0)]

(* What can happen to a sequence of stages: all done (n is one more than    *)
(* their number) or the n-th fails.                                         *)
Outcomes(stages) ==
  {n \in 1..Len(stages) : stages[n] \in Failing} \cup {Len(stages) + 1}

Ends(t, how) == call' = [call EXCEPT ![t] = how]

-----------------------------------------------------------------------------
(* malloc_init(): the test made by every entry point of the allocator.      *)

Call(t) ==
  /\ call[t] = "idle"
  /\ calls[t] < MaxCalls
  /\ calls' = [calls EXCEPT ![t] = @ + 1]
  /\ Ends(t, IF state = "initialized" THEN "granted" ELSE "enter")
  /\ UNCHANGED <<state, initializer, lock, booted, opt, arenas, served>>

(* Defect: a thread that finds the initialisation under way takes it for    *)
(* done.                                                                    *)
malloc_init_hard_needed_Recursible(t) ==
  IF state \in {"initialized", "recursible"} THEN "granted"
  ELSE IF initializer \notin {None, t} THEN "waits"
  ELSE "boots"

(* malloc_init_hard_needed(), with init_lock held.                          *)
malloc_init_hard_needed(t) ==
  IF state = "initialized" \/ (initializer = t /\ state = "recursible")
  THEN "granted"
  ELSE IF initializer \notin {None, t} THEN "waits"
  ELSE "boots"

(* malloc_init_hard() up to the test; the lock is kept only to boot.        *)
Enter(t) ==
  /\ call[t] = "enter"
  /\ lock = None
  /\ lock' = IF malloc_init_hard_needed(t) = "boots" THEN t ELSE None
  /\ Ends(t, malloc_init_hard_needed(t))
  /\ UNCHANGED <<state, initializer, calls, booted, opt, arenas, served>>

(* The busy wait: unlock, spin, lock, until the allocator is initialised.   *)
SpinDone(t) ==
  /\ call[t] = "waits"
  /\ lock = None
  /\ state = "initialized"
  /\ Ends(t, "granted")
  /\ UNCHANGED <<state, initializer, lock, calls, booted, opt, arenas, served>>

(* malloc_init_hard_a0_locked(): a failure leaves malloc_initializer set.   *)
(* HPA that is not supported is switched off.                               *)
BootA0(t) ==
  /\ call[t] = "boots"
  /\ lock = t
  /\ IF state = "a0_initialized"
     THEN /\ Ends(t, "tsd")
          /\ UNCHANGED <<state, initializer, booted, opt, arenas>>
     ELSE /\ initializer' = t
          /\ \E n \in Outcomes(A0Stages),
                p \in {"disabled", "percpu", "phycpu"}, k \in Narenas, r \in {1, 16},
                h, a, b \in BOOLEAN :
               /\ booted' = Completed(Until(A0Stages, n))
               /\ opt' = [opt EXCEPT !.percpu = p, !.narenas = k, !.ratio = r, !.huge = h,
                                     !.abort = a, !.background = b]
               /\ IF n > Len(A0Stages)
                  THEN /\ state' = "a0_initialized"
                       /\ arenas' = [arenas EXCEPT !.narenas_auto = 1, !.base = 2]
                       /\ Ends(t, "tsd")
                  ELSE Ends(t, "failed") /\ UNCHANGED <<state, arenas>>
  /\ lock' = None
  /\ UNCHANGED <<calls, served>>

(* malloc_tsd_boot0() and malloc_init_hard_recursible(), without the lock:  *)
(* the processors are counted, and a per-CPU arena is given up when the     *)
(* count cannot be relied upon and no number of arenas was given.           *)
Recursible(t) ==
  /\ call[t] = "tsd"
  /\ \/ /\ "tsd_boot0" \in Failing
        /\ Ends(t, "failed")
        /\ UNCHANGED <<state, booted, opt, arenas>>
     \/ /\ state' = "recursible"
        /\ booted' = Completed({"tsd_boot0"})
        /\ Ends(t, "recursible")
        /\ \E c \in 1..MaxCpus, deterministic \in BOOLEAN :
             /\ arenas' = [arenas EXCEPT !.ncpus = c]
             /\ opt' = [opt EXCEPT !.percpu =
                          IF ~deterministic /\ opt.narenas = 0 THEN "disabled" ELSE @]
  /\ UNCHANGED <<initializer, lock, calls, served>>

(* A step of the initialisation allocates: the recursive call finds itself  *)
(* to be the initialiser and is granted arena 0.                            *)
Recurse(t) ==
  /\ call[t] = "recursible"
  /\ lock = None
  /\ malloc_init_hard_needed(t) = "granted"
  /\ served' = [to |-> t, nested |-> TRUE, state |-> state, arenas |-> arenas]
  /\ UNCHANGED <<state, initializer, lock, call, calls, booted, opt, arenas>>

(* The rest of malloc_init_hard_recursible(): fork handlers, and what the   *)
(* background threads need.                                                 *)
Registered(t) ==
  /\ call[t] = "recursible"
  /\ \E n \in Outcomes(SubSeq(RecursibleStages, 2, 3)) :
       /\ booted' = Completed(Until(SubSeq(RecursibleStages, 2, 3), n))
       /\ Ends(t, IF n = 3 THEN "finish"
                  ELSE IF n = 1 /\ opt.abort THEN "aborted" ELSE "failed")
  /\ UNCHANGED <<state, initializer, lock, calls, opt, arenas, served>>

-----------------------------------------------------------------------------
(* malloc_init_narenas().                                                   *)

(* Fixed point with 2 bits after the point in place of 16.                  *)
fxp_round_nearest(a) == (a \div 4) + (IF a % 4 >= 2 THEN 1 ELSE 0)

malloc_narenas_default(ncpus, ratio) ==
  LET goal == fxp_round_nearest(ncpus * ratio)
  IN  IF ncpus = 1 \/ goal = 0 THEN 1 ELSE goal

(* Defect: an odd number of processors rounds down.                         *)
percpu_arena_ind_limit_Down(mode, ncpus) ==
  IF mode = "phycpu" /\ ncpus > 1 THEN ncpus \div 2 ELSE ncpus

percpu_arena_ind_limit(mode, ncpus) ==
  IF mode = "phycpu" /\ ncpus > 1
  THEN IF ncpus % 2 = 1 THEN ncpus \div 2 + 1 ELSE ncpus \div 2
  ELSE ncpus

(* percpu_arena_choose(): the arena of a processor.                         *)
percpu_arena_choose(mode, ncpus, cpu) ==
  IF mode = "percpu" \/ cpu < ncpus \div 2 THEN cpu ELSE cpu - ncpus \div 2

(* The mode after the test for getcpu().                                    *)
PercpuMode(getcpu) == IF getcpu THEN opt.percpu ELSE "disabled"

NarenasWanted(mode) ==
  LET most == percpu_arena_ind_limit(mode, arenas.ncpus)
      given == IF mode # "disabled" /\ opt.narenas < most THEN most ELSE opt.narenas
  IN  IF given = 0 THEN malloc_narenas_default(arenas.ncpus, opt.ratio) ELSE given

(* Reduced to the range of MALLOCX_ARENA(); the huge arena, when there is   *)
(* one, takes the index after the automatic arenas.                         *)
NarenasAuto(wanted) == IF wanted >= Limit THEN Limit - 1 ELSE wanted

malloc_init_narenas(mode) ==
  LET n == NarenasAuto(NarenasWanted(mode))
      total == n + (IF opt.huge THEN 1 ELSE 0)
  IN  [arenas EXCEPT !.narenas_auto = n, !.total = total, !.base = total,
                     !.huge = IF opt.huge THEN n ELSE NoHuge]

(* The last part of malloc_init_hard(), with the lock taken again.  A       *)
(* failure leaves malloc_init_state at recursible.                          *)
Finish(t) ==
  /\ call[t] = "finish"
  /\ lock = None
  /\ \E n \in Outcomes(LastStages), getcpu \in BOOLEAN :
       LET mode == PercpuMode(getcpu)
           beyond == mode # "disabled" /\ arenas.ncpus >= Limit
           lost == opt.percpu # "disabled" /\ ~getcpu
           m == IF beyond THEN 1 ELSE n
       IN  /\ booted' = Completed(Until(LastStages, m))
           /\ opt' = [opt EXCEPT !.percpu = mode]
           /\ arenas' = IF m > 1 THEN malloc_init_narenas(mode) ELSE arenas
           /\ state' = IF m > Len(LastStages) THEN "initialized" ELSE state
           /\ Ends(t, IF (beyond \/ lost) /\ opt.abort THEN "aborted"
                      ELSE IF m <= Len(LastStages) THEN "failed"
                      ELSE IF opt.background THEN "background" ELSE "granted")
  /\ UNCHANGED <<initializer, lock, calls, served>>

(* background_thread_create() after the initialisation.                     *)
CreateBackground(t) ==
  /\ call[t] = "background"
  /\ \/ Ends(t, "granted")
     \/ "background_thread_create" \in Failing /\ Ends(t, "failed")
  /\ UNCHANGED <<state, initializer, lock, calls, booted, opt, arenas, served>>

(* The call that asked goes on to allocate, or fails.                       *)
Return(t) ==
  /\ call[t] \in {"granted", "failed"}
  /\ served' = IF call[t] = "granted"
               THEN [to |-> t, nested |-> FALSE, state |-> state, arenas |-> arenas]
               ELSE served
  /\ Ends(t, "idle")
  /\ UNCHANGED <<state, initializer, lock, calls, booted, opt, arenas>>

Aborted == \E t \in Threads : call[t] = "aborted"

Next ==
  \E t \in Threads :
    /\ ~Aborted
    /\ \/ Call(t) \/ Enter(t) \/ SpinDone(t) \/ BootA0(t) \/ Recursible(t)
       \/ Recurse(t) \/ Registered(t) \/ Finish(t) \/ CreateBackground(t)
       \/ Return(t)

(* Each step of a call that has begun is taken by a running thread.         *)
Steps(t) ==
  /\ ~Aborted
  /\ Enter(t) \/ SpinDone(t) \/ BootA0(t) \/ Recursible(t) \/ Registered(t)
       \/ Finish(t) \/ CreateBackground(t) \/ Return(t)

Spec == Init /\ [][Next]_vars
LiveSpec == Spec /\ \A t \in Threads : WF_vars(Steps(t))

-----------------------------------------------------------------------------
(* Properties.                                                              *)

(* Nobody allocates from a half-made allocator: a grant to a thread is made *)
(* when every stage has completed and the number of arenas is settled;      *)
(* only calls nested in the initialisation are granted earlier, to the      *)
(* initialising thread, and then arena 0 is there.                          *)
GrantedReady ==
  served.to # None =>
    IF served.nested
    THEN /\ served.to = initializer
         /\ served.state = "recursible"
         /\ served.arenas.narenas_auto >= 1
         /\ \A s \in A0Set : booted[s] >= 1
    ELSE /\ served.state = "initialized"
         /\ \A s \in Stages : booted[s] >= 1
         /\ served.arenas.base = served.arenas.total

(* Once initialised, every processor has an automatic arena, the huge arena *)
(* is none of those, manual arenas come after both, and every index is one  *)
(* that MALLOCX_ARENA() can express.                                        *)
ArenasIndexed ==
  state = "initialized" =>
    /\ arenas.narenas_auto \in 1..(Limit - 1)
    /\ opt.percpu # "disabled" =>
         \A cpu \in 0..(arenas.ncpus - 1) :
           percpu_arena_choose(opt.percpu, arenas.ncpus, cpu) < arenas.narenas_auto
    /\ arenas.huge # NoHuge =>
         /\ arenas.huge \in arenas.narenas_auto..(Limit - 1)
         /\ arenas.huge < arenas.base

(* What a caller of malloc_init() relies on.                                *)
BootRight == GrantedReady /\ ArenasIndexed

(* Every call to the allocator returns, or the process aborts: nobody spins *)
(* for ever on the initialising thread.                                     *)
CallsReturn ==
  \A t \in Threads : call[t] # "idle" ~> (call[t] = "idle" \/ Aborted)
=============================================================================
