----------------------------- MODULE BootProofs -----------------------------
(***************************************************************************)
(* Proofs about Boot, for any number of threads, calls and processors and  *)
(* any set of stages that fail before the allocator may be re-entered.     *)
(*                                                                         *)
(* A grant depends on the whole path of the initialising thread.  The      *)
(* invariant says where that thread is in each state of the allocator      *)
(* (CallInv, StateInv): nobody else gets past malloc_init_hard_needed()    *)
(* because malloc_initializer, once set, is only ever that thread, and the *)
(* thread itself is not granted a call while it is outside of the          *)
(* initialisation because malloc_init_state does not stay at recursible.   *)
(* BootedInv and ArenasInv say what is complete in each state.             *)
(***************************************************************************)
EXTENDS Boot, TLAPS

\* No stage fails once malloc_init_state is recursible, and the processors are fewer
\* than the arenas an index can name.  Both are needed: a failure there leaves the
\* state at recursible, and the next call of that thread is granted.
Completes ==
    /\ None \notin Threads
    /\ MaxCpus \in Nat /\ Limit \in Nat /\ Limit > 1 /\ MaxCpus < Limit
    /\ Narenas \subseteq Nat
    /\ \A i \in {2, 3} : RecursibleStages[i] \notin Failing
    /\ \A i \in 1 .. 4 : LastStages[i] \notin Failing

Modes == {"disabled", "percpu", "phycpu"}
States == {"uninitialized", "a0_initialized", "recursible", "initialized"}
Layouts == [ncpus : Nat, narenas_auto : Nat, total : Nat, huge : Nat, base : Nat]

TypeOK ==
    /\ state \in States
    /\ initializer \in Threads \cup {None}
    /\ lock \in Threads \cup {None}
    /\ call \in [Threads -> {"idle", "enter", "waits", "boots", "tsd", "recursible", "finish",
                            "background", "granted", "failed", "aborted"}]
    /\ booted \in [Stages -> Nat]
    /\ opt \in [percpu : Modes, narenas : Nat, ratio : Nat, huge : BOOLEAN, abort : BOOLEAN,
                background : BOOLEAN]
    /\ arenas \in Layouts
    /\ served \in [to : Threads \cup {None}, nested : BOOLEAN, state : States, arenas : Layouts]

\* Where the initialising thread can be in each state, and that it is one.
CallInv ==
    \A t \in Threads :
        /\ call[t] = "boots" =>
              lock = t /\ initializer \in {None, t} /\ state \in {"uninitialized", "a0_initialized"}
        /\ call[t] \in {"tsd", "recursible", "finish", "background"} => initializer = t
        /\ call[t] = "tsd" => state = "a0_initialized"
        /\ call[t] \in {"recursible", "finish"} => state = "recursible"
        /\ call[t] \in {"background", "granted"} => state = "initialized"
StateInv ==
    /\ state # "uninitialized" => initializer \in Threads
    /\ state = "recursible" => call[initializer] \in {"recursible", "finish", "aborted"}

\* What is complete in each state.
BootedInv ==
    /\ state # "uninitialized" => \A s \in A0Set : booted[s] >= 1
    /\ state \in {"recursible", "initialized"} => booted["tsd_boot0"] >= 1
    /\ \A t \in Threads : call[t] = "finish" =>
          booted["pthread_atfork"] >= 1 /\ booted["background_thread_boot0"] >= 1
    /\ state = "initialized" => \A s \in Stages : booted[s] >= 1
ArenasInv ==
    /\ state \in {"a0_initialized", "recursible"} => arenas.narenas_auto = 1
    /\ state = "recursible" => arenas.ncpus \in 1 .. MaxCpus
    /\ state = "initialized" => arenas.base = arenas.total

IInv == TypeOK /\ CallInv /\ StateInv /\ BootedInv /\ ArenasInv /\ BootRight

-----------------------------------------------------------------------------
(* Stages.                                                                 *)

\* The stages by name.
LEMMA StageNames ==
  /\ A0Set \subseteq Stages
  /\ {"tsd_boot0", "pthread_atfork", "background_thread_boot0"} \subseteq Stages
  /\ \A s \in Stages : \/ s \in A0Set
                       \/ s \in {"tsd_boot0", "pthread_atfork", "background_thread_boot0"}
                       \/ s \in {LastStages[i] : i \in 1..4}
  <1>1. /\ RecursibleStages[1] = "tsd_boot0" /\ RecursibleStages[2] = "pthread_atfork"
        /\ RecursibleStages[3] = "background_thread_boot0"
    BY DEF RecursibleStages
  <1>2. {RecursibleStages[i] : i \in 1..3} = {"tsd_boot0", "pthread_atfork", "background_thread_boot0"}
    BY <1>1
  <1>3. QED
    BY <1>2 DEF Stages

\* malloc_init_hard_a0_locked() that gets to its end has done all of its stages.
LEMMA A0Done == Until(A0Stages, Len(A0Stages) + 1) = A0Set /\ Len(A0Stages) \in Nat
  <1>1. Len(A0Stages) = 17
    BY DEF A0Stages
  <1>2. Len(A0Stages) \in Nat /\ DOMAIN A0Stages = 1 .. Len(A0Stages)
    BY <1>1 DEF A0Stages
  <1>3. Len(A0Stages) + 1 - 1 = Len(A0Stages)
    BY <1>2
  <1>4. QED
    BY <1>2, <1>3 DEF Until, A0Set

\* malloc_init_hard_recursible() does not fail.
LEMMA RecursibleDone ==
  ASSUME Completes, NEW n \in Outcomes(SubSeq(RecursibleStages, 2, 3))
  PROVE  n = 3 /\ {"pthread_atfork", "background_thread_boot0"}
                     \subseteq Until(SubSeq(RecursibleStages, 2, 3), n)
  <1> DEFINE q == SubSeq(RecursibleStages, 2, 3)
  <1>1. Len(q) = 2 /\ q[1] = RecursibleStages[2] /\ q[2] = RecursibleStages[3]
    BY DEF RecursibleStages
  <1>2. RecursibleStages[2] = "pthread_atfork" /\ RecursibleStages[3] = "background_thread_boot0"
    BY DEF RecursibleStages
  <1>3. q[1] \notin Failing /\ q[2] \notin Failing
    BY <1>1 DEF Completes
  <1> HIDE DEF q
  <1>4. n = 3
    BY <1>1, <1>3 DEF Outcomes, q
  <1>5. {"pthread_atfork", "background_thread_boot0"} \subseteq Until(q, n)
    BY <1>1, <1>2, <1>4 DEF Until
  <1>6. QED
    BY <1>4, <1>5 DEF q

\* Nor does the end of malloc_init_hard().
LEMMA LastDone ==
  ASSUME Completes, NEW n \in Outcomes(LastStages)
  PROVE  n = 5 /\ Len(LastStages) = 4 /\ {LastStages[i] : i \in 1..4} = Until(LastStages, n)
  <1>1. Len(LastStages) = 4
    BY DEF LastStages
  <1>2. \A i \in 1 .. 4 : LastStages[i] \notin Failing
    BY DEF Completes
  <1>3. n = 5
    BY <1>1, <1>2 DEF Outcomes
  <1>4. QED
    BY <1>1, <1>3 DEF Until

\* What is complete stays complete.
LEMMA CompletedMore ==
  ASSUME booted \in [Stages -> Nat], NEW done
  PROVE  /\ Completed(done) \in [Stages -> Nat]
         /\ \A s \in Stages : booted[s] >= 1 \/ s \in done => Completed(done)[s] >= 1
  BY DEF Completed

-----------------------------------------------------------------------------
(* The number of arenas.                                                   *)

\* The arena of a processor is below the limit for its mode,
LEMMA CpuArena ==
  ASSUME NEW mode, NEW n \in Nat, NEW cpu \in Nat, cpu < n
  PROVE  mode # "disabled" /\ mode \in Modes =>
             percpu_arena_choose(mode, n, cpu) < percpu_arena_ind_limit(mode, n)
  BY DEF percpu_arena_choose, percpu_arena_ind_limit, Modes

\* which is not above the number of processors.
LEMMA CpuLimit ==
  ASSUME NEW mode, NEW n \in Nat \ {0}
  PROVE  percpu_arena_ind_limit(mode, n) \in 1 .. n
  BY DEF percpu_arena_ind_limit

\* The default number of arenas is not zero.
LEMMA DefaultNarenas ==
  ASSUME NEW n \in Nat, NEW r \in Nat
  PROVE  malloc_narenas_default(n, r) \in Nat \ {0}
  <1>1. n * r \in Nat
    OBVIOUS
  <1>2. \A a \in Nat : fxp_round_nearest(a) \in Nat
    BY DEF fxp_round_nearest
  <1>3. QED
    BY <1>1, <1>2 DEF malloc_narenas_default

\* malloc_init_narenas() numbers the arenas within the limit, one for every
\* processor where they are chosen by processor.
LEMMA NarenasRight ==
  ASSUME Completes, TypeOK, arenas.ncpus \in 1 .. MaxCpus, NEW mode \in Modes,
         NEW a, a = malloc_init_narenas(mode)
  PROVE  /\ a \in Layouts /\ a.ncpus = arenas.ncpus /\ a.base = a.total
         /\ a.narenas_auto \in 1 .. (Limit - 1)
         /\ mode # "disabled" => percpu_arena_ind_limit(mode, arenas.ncpus) <= a.narenas_auto
         /\ a.huge # NoHuge => a.huge \in a.narenas_auto .. (Limit - 1) /\ a.huge < a.base
  <1> DEFINE most == percpu_arena_ind_limit(mode, arenas.ncpus)
             wanted == NarenasWanted(mode)
             n == NarenasAuto(wanted)
  <1>1. Limit \in Nat /\ Limit > 1 /\ MaxCpus \in Nat /\ MaxCpus < Limit
    BY DEF Completes
  <1>2. opt.narenas \in Nat /\ opt.ratio \in Nat /\ opt.huge \in BOOLEAN /\ arenas \in Layouts
    BY DEF TypeOK
  <1>3. arenas.ncpus \in Nat \ {0} /\ arenas.ncpus < Limit
    BY <1>1
  <1>4. most \in 1 .. arenas.ncpus
    BY <1>3, CpuLimit
  <1>5. malloc_narenas_default(arenas.ncpus, opt.ratio) \in Nat \ {0}
    BY <1>2, <1>3, DefaultNarenas
  <1>6. wanted \in Nat \ {0} /\ (mode # "disabled" => most <= wanted)
    <2> HIDE DEF most
    <2> QED
      BY <1>2, <1>3, <1>4, <1>5 DEF NarenasWanted, most
  <1> HIDE DEF most, wanted
  <1>7. n \in 1 .. (Limit - 1) /\ (mode # "disabled" => most <= n)
    BY <1>1, <1>3, <1>4, <1>6 DEF NarenasAuto
  <1> DEFINE total == n + (IF opt.huge THEN 1 ELSE 0)
  <1>8. a = [arenas EXCEPT !.narenas_auto = n, !.total = total, !.base = total,
                           !.huge = IF opt.huge THEN n ELSE NoHuge]
    BY DEF malloc_init_narenas, wanted
  <1>9. n \in Nat /\ total \in Nat /\ (opt.huge => total = n + 1)
    BY <1>1, <1>7
  <1> HIDE DEF n, total
  <1>10. /\ a.ncpus = arenas.ncpus /\ a.narenas_auto = n /\ a.total = total /\ a.base = total
         /\ a.huge = (IF opt.huge THEN n ELSE NoHuge) /\ a \in Layouts
    BY <1>1, <1>2, <1>8, <1>9 DEF Layouts, NoHuge
  <1>11. QED
    BY <1>1, <1>2, <1>7, <1>9, <1>10 DEF NoHuge, most

-----------------------------------------------------------------------------
(* Steps outside of the initialisation.                                    *)

\* A call that moves outside of the initialisation, and is granted only when that is
\* over, changes nothing for the others.
LEMMA Outside ==
  ASSUME Completes, IInv, NEW t \in Threads, NEW how, Ends(t, how),
         how \in {"idle", "enter", "waits", "granted", "failed"},
         how = "granted" => state = "initialized",
         call[t] \notin {"boots", "tsd", "recursible", "finish", "aborted"},
         UNCHANGED <<state, initializer, lock, booted, opt, arenas>>
  PROVE  /\ call' \in [Threads -> {"idle", "enter", "waits", "boots", "tsd", "recursible", "finish",
                                   "background", "granted", "failed", "aborted"}]
         /\ CallInv' /\ StateInv' /\ BootedInv' /\ ArenasInv' /\ ArenasIndexed'
  <1>1. TypeOK /\ CallInv /\ StateInv /\ BootedInv /\ ArenasInv /\ ArenasIndexed
    BY DEF IInv, BootRight
  <1>2. call' = [call EXCEPT ![t] = how]
    BY DEF Ends
  <1>3. call' \in [Threads -> {"idle", "enter", "waits", "boots", "tsd", "recursible", "finish",
                               "background", "granted", "failed", "aborted"}]
    BY <1>1, <1>2 DEF TypeOK
  <1>4. call'[t] = how /\ \A u \in Threads : u # t => call'[u] = call[u]
    BY <1>1, <1>2 DEF TypeOK
  <1>5. CallInv'
    BY <1>1, <1>4 DEF CallInv
  <1>6. StateInv'
    BY <1>1, <1>4 DEF StateInv
  <1>7. BootedInv'
    BY <1>1, <1>4 DEF BootedInv
  <1>8. ArenasInv' /\ ArenasIndexed'
    BY <1>1 DEF ArenasInv, ArenasIndexed, percpu_arena_choose, NoHuge
  <1>9. QED
    BY <1>3, <1>5, <1>6, <1>7, <1>8

\* As long as the initialisation is not touched, what was granted stays right.
LEMMA GrantSame ==
  ASSUME GrantedReady, UNCHANGED <<served, initializer, booted>>
  PROVE  GrantedReady'
  BY DEF GrantedReady

\* malloc_init() sees that the allocator is initialised, or goes on.
LEMMA CallStep ==
  ASSUME Completes, IInv, NEW t \in Threads, Call(t)
  PROVE  IInv'
  <1> DEFINE how == IF state = "initialized" THEN "granted" ELSE "enter"
  <1>1. /\ call[t] = "idle" /\ Ends(t, how)
        /\ UNCHANGED <<state, initializer, lock, booted, opt, arenas, served>>
    BY DEF Call
  <1>2. how \in {"granted", "enter"} /\ (how = "granted" => state = "initialized")
    OBVIOUS
  <1> HIDE DEF how
  <1>3. GrantedReady'
    BY <1>1, GrantSame DEF IInv, BootRight
  <1>4. /\ call' \in [Threads -> {"idle", "enter", "waits", "boots", "tsd", "recursible", "finish",
                                  "background", "granted", "failed", "aborted"}]
        /\ CallInv' /\ StateInv' /\ BootedInv' /\ ArenasInv' /\ ArenasIndexed'
    BY <1>1, <1>2, Outside
  <1>5. TypeOK'
    BY <1>1, <1>4 DEF IInv, TypeOK
  <1>6. QED
    BY <1>3, <1>4, <1>5 DEF IInv, BootRight

\* A thread that waited, and the end of background_thread_create().
LEMMA WaitStep ==
  ASSUME Completes, IInv, NEW t \in Threads, SpinDone(t) \/ CreateBackground(t)
  PROVE  IInv'
  <1>1. PICK how \in {"granted", "failed"} : Ends(t, how)
    BY DEF SpinDone, CreateBackground
  <1>2. /\ call[t] \in {"waits", "background"} /\ state = "initialized"
        /\ UNCHANGED <<state, initializer, lock, booted, opt, arenas, served>>
    BY DEF SpinDone, CreateBackground, IInv, CallInv
  <1>3. GrantedReady'
    BY <1>2, GrantSame DEF IInv, BootRight
  <1>4. /\ call' \in [Threads -> {"idle", "enter", "waits", "boots", "tsd", "recursible", "finish",
                                  "background", "granted", "failed", "aborted"}]
        /\ CallInv' /\ StateInv' /\ BootedInv' /\ ArenasInv' /\ ArenasIndexed'
    BY <1>1, <1>2, Outside
  <1>5. TypeOK'
    BY <1>2, <1>4 DEF IInv, TypeOK
  <1>6. QED
    BY <1>3, <1>4, <1>5 DEF IInv, BootRight

\* The call that asked goes on: what it was granted is ready.
LEMMA ReturnStep ==
  ASSUME Completes, IInv, NEW t \in Threads, Return(t)
  PROVE  IInv'
  <1>1. /\ call[t] \in {"granted", "failed"} /\ Ends(t, "idle")
        /\ UNCHANGED <<state, initializer, lock, booted, opt, arenas>>
    BY DEF Return
  <1>2. /\ call' \in [Threads -> {"idle", "enter", "waits", "boots", "tsd", "recursible", "finish",
                                  "background", "granted", "failed", "aborted"}]
        /\ CallInv' /\ StateInv' /\ BootedInv' /\ ArenasInv' /\ ArenasIndexed'
    BY <1>1, Outside
  <1>3. CASE call[t] = "granted"
    <2>1. state = "initialized" /\ arenas.base = arenas.total /\ \A s \in Stages : booted[s] >= 1
      BY <1>3 DEF IInv, CallInv, ArenasInv, BootedInv
    <2>2. served' = [to |-> t, nested |-> FALSE, state |-> state, arenas |-> arenas]
      BY <1>3 DEF Return
    <2>3. GrantedReady'
      BY <1>1, <2>1, <2>2 DEF GrantedReady
    <2>4. TypeOK'
      BY <1>1, <1>2, <2>2 DEF IInv, TypeOK
    <2>5. QED
      BY <1>2, <2>3, <2>4 DEF IInv, BootRight
  <1>4. CASE call[t] # "granted"
    <2>1. served' = served
      BY <1>4 DEF Return
    <2>2. GrantedReady'
      BY <1>1, <2>1, GrantSame DEF IInv, BootRight
    <2>3. TypeOK'
      BY <1>1, <1>2, <2>1 DEF IInv, TypeOK
    <2>4. QED
      BY <1>2, <2>2, <2>3 DEF IInv, BootRight
  <1>5. QED
    BY <1>3, <1>4

\* malloc_init_hard_needed() lets one thread through.
LEMMA EnterStep ==
  ASSUME Completes, IInv, NEW t \in Threads, Enter(t)
  PROVE  IInv'
  <1> DEFINE how == malloc_init_hard_needed(t)
  <1>1. /\ call[t] = "enter" /\ lock = None /\ Ends(t, how)
        /\ lock' = IF how = "boots" THEN t ELSE None
        /\ UNCHANGED <<state, initializer, booted, opt, arenas, served>>
    BY DEF Enter
  <1>2. ~(state = "recursible" /\ initializer = t)
    BY <1>1 DEF IInv, StateInv
  <1>3. how \in {"granted", "waits", "boots"} /\ (how = "granted" => state = "initialized")
    BY <1>2 DEF malloc_init_hard_needed
  <1>4. how = "boots" => initializer \in {None, t} /\ state \in {"uninitialized", "a0_initialized"}
    BY <1>2 DEF malloc_init_hard_needed, IInv, StateInv, TypeOK, States, Completes
  <1> HIDE DEF how
  <1>5. GrantedReady'
    BY <1>1, GrantSame DEF IInv, BootRight
  <1>6. CASE how # "boots"
    <2>1. lock' = lock
      BY <1>1, <1>6
    <2>2. /\ call' \in [Threads -> {"idle", "enter", "waits", "boots", "tsd", "recursible", "finish",
                                    "background", "granted", "failed", "aborted"}]
          /\ CallInv' /\ StateInv' /\ BootedInv' /\ ArenasInv' /\ ArenasIndexed'
      BY <1>1, <1>3, <1>6, <2>1, Outside
    <2>3. TypeOK'
      BY <1>1, <2>1, <2>2 DEF IInv, TypeOK
    <2>4. QED
      BY <1>5, <2>2, <2>3 DEF IInv, BootRight
  <1>7. CASE how = "boots"
    <2>1. call'[t] = "boots" /\ \A u \in Threads : u # t => call'[u] = call[u]
      BY <1>1, <1>7 DEF IInv, TypeOK, Ends
    <2>2. \A u \in Threads : call[u] # "boots"
      BY <1>1 DEF IInv, CallInv, Completes
    <2>3. TypeOK'
      BY <1>1, <1>7 DEF IInv, TypeOK, Ends
    <2>4. CallInv'
      BY <1>1, <1>4, <1>7, <2>1, <2>2 DEF IInv, CallInv
    <2>5. StateInv' /\ BootedInv'
      BY <1>1, <2>1 DEF IInv, StateInv, BootedInv
    <2>6. ArenasInv' /\ ArenasIndexed'
      BY <1>1 DEF IInv, BootRight, ArenasInv, ArenasIndexed, percpu_arena_choose, NoHuge
    <2>7. QED
      BY <1>5, <2>3, <2>4, <2>5, <2>6 DEF IInv, BootRight
  <1>8. QED
    BY <1>6, <1>7

-----------------------------------------------------------------------------
(* The initialisation.                                                     *)

\* The thread inside is the only one: where another is, nothing depends on it.
LEMMA Alone ==
  ASSUME Completes, IInv, NEW t \in Threads,
         call[t] \in {"boots", "tsd", "recursible", "finish"}, NEW u \in Threads, u # t
  PROVE  /\ state # "initialized"
         /\ call[u] \notin {"boots", "tsd", "recursible", "finish", "background", "granted"}
  <1>1. state # "initialized"
    BY DEF IInv, CallInv
  <1>2. call[u] \notin {"background", "granted"}
    BY <1>1 DEF IInv, CallInv
  <1>3. CASE call[t] = "boots"
    BY <1>2, <1>3 DEF IInv, CallInv, StateInv, Completes
  <1>4. CASE call[t] # "boots"
    <2>1. initializer = t /\ state \in {"a0_initialized", "recursible"}
      BY <1>4 DEF IInv, CallInv
    <2>2. call[u] # "boots"
      BY <2>1 DEF IInv, CallInv, Completes
    <2>3. QED
      BY <1>1, <1>2, <2>1, <2>2 DEF IInv, CallInv
  <1>5. QED
    BY <1>1, <1>3, <1>4

\* malloc_init_hard_a0_locked(), which may fail and be tried again by the same thread.
LEMMA BootA0Step ==
  ASSUME Completes, IInv, NEW t \in Threads, BootA0(t)
  PROVE  IInv'
  <1>1. /\ call[t] = "boots" /\ lock' = None /\ served' = served
        /\ initializer \in {None, t} /\ state \in {"uninitialized", "a0_initialized"}
    BY DEF BootA0, IInv, CallInv
  <1>2. \A u \in Threads : u # t =>
            call[u] \notin {"boots", "tsd", "recursible", "finish", "background", "granted"}
    BY <1>1, Alone
  <1>3. TypeOK /\ CallInv /\ StateInv /\ BootedInv /\ ArenasInv /\ GrantedReady
    BY DEF IInv, BootRight
  <1>4. CASE state = "a0_initialized"
    <2>1. call' = [call EXCEPT ![t] = "tsd"] /\ UNCHANGED <<state, initializer, booted, opt, arenas>>
      BY <1>4 DEF BootA0, Ends
    <2>2. call'[t] = "tsd" /\ \A u \in Threads : u # t => call'[u] = call[u]
      BY <1>3, <2>1 DEF TypeOK
    <2>3. TypeOK'
      BY <1>1, <1>3, <2>1 DEF TypeOK
    <2>4. CallInv'
      BY <1>1, <1>2, <1>3, <1>4, <2>1, <2>2 DEF CallInv, StateInv, Completes
    <2>5. StateInv' /\ BootedInv'
      BY <1>3, <1>4, <2>1, <2>2 DEF StateInv, BootedInv
    <2>6. ArenasInv' /\ ArenasIndexed' /\ GrantedReady'
      BY <1>1, <1>3, <1>4, <2>1 DEF ArenasInv, ArenasIndexed, GrantedReady
    <2>7. QED
      BY <2>3, <2>4, <2>5, <2>6 DEF IInv, BootRight
  <1>5. CASE state = "uninitialized"
    <2>1. initializer' = t
      BY <1>5 DEF BootA0
    <2>2. PICK n \in Outcomes(A0Stages), p \in Modes, k \in Narenas, r \in {1, 16},
               h \in BOOLEAN, a \in BOOLEAN, b \in BOOLEAN :
            /\ booted' = Completed(Until(A0Stages, n))
            /\ opt' = [opt EXCEPT !.percpu = p, !.narenas = k, !.ratio = r, !.huge = h,
                                  !.abort = a, !.background = b]
            /\ IF n > Len(A0Stages)
               THEN /\ state' = "a0_initialized"
                    /\ arenas' = [arenas EXCEPT !.narenas_auto = 1, !.base = 2]
                    /\ Ends(t, "tsd")
               ELSE Ends(t, "failed") /\ UNCHANGED <<state, arenas>>
      BY <1>5 DEF BootA0, Modes
    <2>3. opt' \in [percpu : Modes, narenas : Nat, ratio : Nat, huge : BOOLEAN, abort : BOOLEAN,
                    background : BOOLEAN]
      <3>1. opt \in [percpu : Modes, narenas : Nat, ratio : Nat, huge : BOOLEAN, abort : BOOLEAN,
                     background : BOOLEAN]
        BY <1>3 DEF TypeOK
      <3>2. opt' = [opt EXCEPT !.percpu = p, !.narenas = k, !.ratio = r, !.huge = h,
                               !.abort = a, !.background = b]
        BY <2>2
      <3>3. k \in Nat /\ r \in Nat
        BY DEF Completes
      <3>4. opt' = [percpu |-> p, narenas |-> k, ratio |-> r, huge |-> h, abort |-> a,
                    background |-> b]
        BY <3>1, <3>2, Zenon
      <3>5. QED
        BY <3>3, <3>4
    <2>4. booted' \in [Stages -> Nat] /\ \A s \in Stages : booted[s] >= 1 => booted'[s] >= 1
      BY <1>3, <2>2, CompletedMore DEF TypeOK
    <2>5. GrantedReady'
      BY <1>1, <1>3, <2>1, <2>4, StageNames DEF GrantedReady, TypeOK
    <2>6. CASE n > Len(A0Stages)
      <3>1. /\ state' = "a0_initialized" /\ call' = [call EXCEPT ![t] = "tsd"]
            /\ arenas' = [arenas EXCEPT !.narenas_auto = 1, !.base = 2]
        BY <2>2, <2>6 DEF Ends
      <3>2. call'[t] = "tsd" /\ \A u \in Threads : u # t => call'[u] = call[u]
        BY <1>3, <3>1 DEF TypeOK
      <3>3. arenas' \in Layouts /\ arenas'.narenas_auto = 1
        BY <1>3, <3>1 DEF TypeOK, Layouts
      <3>4. TypeOK'
        BY <1>1, <1>3, <2>1, <2>3, <2>4, <3>1, <3>3 DEF TypeOK, States
      <3>5. CallInv'
        BY <1>2, <2>1, <3>1, <3>2 DEF CallInv
      <3>6. StateInv'
        BY <2>1, <3>1 DEF StateInv
      <3>7. BootedInv'
        <4>1. n = Len(A0Stages) + 1
          BY <2>6, A0Done DEF Outcomes
        <4>2. \A s \in A0Set : booted'[s] >= 1
          BY <1>3, <2>2, <4>1, A0Done, StageNames, CompletedMore DEF TypeOK
        <4>3. QED
          BY <1>2, <3>1, <3>2, <4>2 DEF BootedInv
      <3>8. ArenasInv' /\ ArenasIndexed'
        BY <3>1, <3>3 DEF ArenasInv, ArenasIndexed
      <3>9. QED
        BY <2>5, <3>4, <3>5, <3>6, <3>7, <3>8 DEF IInv, BootRight
    <2>7. CASE ~(n > Len(A0Stages))
      <3>1. state' = state /\ arenas' = arenas /\ call' = [call EXCEPT ![t] = "failed"]
        BY <2>2, <2>7 DEF Ends
      <3>2. call'[t] = "failed" /\ \A u \in Threads : u # t => call'[u] = call[u]
        BY <1>3, <3>1 DEF TypeOK
      <3>3. TypeOK'
        BY <1>1, <1>3, <2>1, <2>3, <2>4, <3>1 DEF TypeOK
      <3>4. CallInv'
        BY <1>2, <3>2 DEF CallInv
      <3>5. StateInv' /\ BootedInv'
        BY <1>2, <1>5, <3>1, <3>2 DEF StateInv, BootedInv
      <3>6. ArenasInv' /\ ArenasIndexed'
        BY <1>5, <3>1 DEF ArenasInv, ArenasIndexed
      <3>7. QED
        BY <2>5, <3>3, <3>4, <3>5, <3>6 DEF IInv, BootRight
    <2>8. QED
      BY <2>6, <2>7
  <1>6. QED
    BY <1>1, <1>4, <1>5

\* malloc_tsd_boot0(), and the count of the processors.
LEMMA RecursibleStep ==
  ASSUME Completes, IInv, NEW t \in Threads, Recursible(t)
  PROVE  IInv'
  <1>1. /\ call[t] = "tsd" /\ UNCHANGED <<initializer, lock, served>>
        /\ initializer = t /\ state = "a0_initialized"
    BY DEF Recursible, IInv, CallInv
  <1>2. \A u \in Threads : u # t =>
            call[u] \notin {"boots", "tsd", "recursible", "finish", "background", "granted"}
    BY <1>1, Alone
  <1>3. TypeOK /\ CallInv /\ StateInv /\ BootedInv /\ ArenasInv /\ GrantedReady
    BY DEF IInv, BootRight
  <1>4. CASE Ends(t, "failed") /\ UNCHANGED <<state, booted, opt, arenas>>
    <2>1. call' = [call EXCEPT ![t] = "failed"]
      BY <1>4 DEF Ends
    <2>2. call'[t] = "failed" /\ \A u \in Threads : u # t => call'[u] = call[u]
      BY <1>3, <2>1 DEF TypeOK
    <2>3. TypeOK'
      BY <1>1, <1>3, <1>4, <2>1 DEF TypeOK
    <2>4. CallInv'
      BY <1>2, <2>2 DEF CallInv
    <2>5. StateInv' /\ BootedInv'
      BY <1>1, <1>2, <1>3, <1>4, <2>2 DEF StateInv, BootedInv
    <2>6. ArenasInv' /\ ArenasIndexed' /\ GrantedReady'
      BY <1>1, <1>3, <1>4 DEF ArenasInv, ArenasIndexed, GrantedReady
    <2>7. QED
      BY <2>3, <2>4, <2>5, <2>6 DEF IInv, BootRight
  <1>5. CASE /\ state' = "recursible" /\ booted' = Completed({"tsd_boot0"})
             /\ Ends(t, "recursible")
             /\ \E c \in 1..MaxCpus, deterministic \in BOOLEAN :
                  /\ arenas' = [arenas EXCEPT !.ncpus = c]
                  /\ opt' = [opt EXCEPT !.percpu =
                               IF ~deterministic /\ opt.narenas = 0 THEN "disabled" ELSE @]
    <2>1. call' = [call EXCEPT ![t] = "recursible"]
      BY <1>5 DEF Ends
    <2>2. call'[t] = "recursible" /\ \A u \in Threads : u # t => call'[u] = call[u]
      BY <1>3, <2>1 DEF TypeOK
    <2>3. PICK c \in 1..MaxCpus : arenas' = [arenas EXCEPT !.ncpus = c]
      BY <1>5
    <2>4. c \in Nat
      BY DEF Completes
    <2>5. arenas' \in Layouts /\ arenas'.ncpus = c /\ arenas'.narenas_auto = 1
      BY <1>1, <1>3, <2>3, <2>4 DEF TypeOK, Layouts, ArenasInv
    <2>6. opt' \in [percpu : Modes, narenas : Nat, ratio : Nat, huge : BOOLEAN, abort : BOOLEAN,
                    background : BOOLEAN]
      BY <1>3, <1>5 DEF TypeOK, Modes
    <2>7. /\ booted' \in [Stages -> Nat]
          /\ \A s \in Stages : booted[s] >= 1 \/ s = "tsd_boot0" => booted'[s] >= 1
      BY <1>3, <1>5, CompletedMore DEF TypeOK
    <2>8. TypeOK'
      BY <1>1, <1>3, <1>5, <2>1, <2>5, <2>6, <2>7 DEF TypeOK, States
    <2>9. CallInv'
      BY <1>1, <1>2, <1>5, <2>2 DEF CallInv
    <2>10. StateInv'
      BY <1>1, <1>5, <2>2 DEF StateInv
    <2>11. BootedInv'
      BY <1>1, <1>2, <1>3, <1>5, <2>2, <2>7, StageNames DEF BootedInv
    <2>12. ArenasInv' /\ ArenasIndexed'
      BY <1>5, <2>3, <2>5 DEF ArenasInv, ArenasIndexed
    <2>13. GrantedReady'
      BY <1>1, <1>3, <2>7, StageNames DEF GrantedReady
    <2>14. QED
      BY <2>8, <2>9, <2>10, <2>11, <2>12, <2>13 DEF IInv, BootRight
  <1>6. QED
    BY <1>4, <1>5 DEF Recursible

\* A call nested in the initialisation.
LEMMA RecurseStep ==
  ASSUME Completes, IInv, NEW t \in Threads, Recurse(t)
  PROVE  IInv'
  <1>1. /\ call[t] = "recursible" /\ initializer = t /\ state = "recursible"
        /\ served' = [to |-> t, nested |-> TRUE, state |-> state, arenas |-> arenas]
        /\ UNCHANGED <<state, initializer, lock, call, booted, opt, arenas>>
    BY DEF Recurse, IInv, CallInv
  <1>2. TypeOK /\ BootedInv /\ ArenasInv
    BY DEF IInv
  <1>3. TypeOK'
    BY <1>1, <1>2 DEF TypeOK
  <1>4. CallInv' /\ StateInv' /\ BootedInv' /\ ArenasInv' /\ ArenasIndexed'
    BY <1>1 DEF IInv, BootRight, CallInv, StateInv, BootedInv, ArenasInv, ArenasIndexed
  <1>5. GrantedReady'
    BY <1>1, <1>2 DEF GrantedReady, BootedInv, ArenasInv
  <1>6. QED
    BY <1>3, <1>4, <1>5 DEF IInv, BootRight

\* The fork handlers and what background threads need.
LEMMA RegisteredStep ==
  ASSUME Completes, IInv, NEW t \in Threads, Registered(t)
  PROVE  IInv'
  <1>1. /\ call[t] = "recursible" /\ initializer = t /\ state = "recursible"
        /\ UNCHANGED <<state, initializer, lock, opt, arenas, served>>
    BY DEF Registered, IInv, CallInv
  <1>2. \A u \in Threads : u # t =>
            call[u] \notin {"boots", "tsd", "recursible", "finish", "background", "granted"}
    BY <1>1, Alone
  <1>3. TypeOK /\ CallInv /\ StateInv /\ BootedInv /\ ArenasInv /\ GrantedReady
    BY DEF IInv, BootRight
  <1>4. PICK n \in Outcomes(SubSeq(RecursibleStages, 2, 3)) :
          /\ booted' = Completed(Until(SubSeq(RecursibleStages, 2, 3), n))
          /\ Ends(t, IF n = 3 THEN "finish"
                     ELSE IF n = 1 /\ opt.abort THEN "aborted" ELSE "failed")
    BY DEF Registered
  <1>5. n = 3 /\ {"pthread_atfork", "background_thread_boot0"}
                   \subseteq Until(SubSeq(RecursibleStages, 2, 3), n)
    BY RecursibleDone
  <1>6. call' = [call EXCEPT ![t] = "finish"]
    BY <1>4, <1>5 DEF Ends
  <1>7. call'[t] = "finish" /\ \A u \in Threads : u # t => call'[u] = call[u]
    BY <1>3, <1>6 DEF TypeOK
  <1>8. /\ booted' \in [Stages -> Nat]
        /\ \A s \in Stages : booted[s] >= 1 => booted'[s] >= 1
        /\ booted'["pthread_atfork"] >= 1 /\ booted'["background_thread_boot0"] >= 1
    BY <1>3, <1>4, <1>5, CompletedMore, StageNames DEF TypeOK
  <1>9. TypeOK'
    BY <1>1, <1>3, <1>6, <1>8 DEF TypeOK
  <1>10. CallInv'
    BY <1>1, <1>2, <1>7 DEF CallInv
  <1>11. StateInv'
    BY <1>1, <1>7 DEF StateInv
  <1>12. BootedInv'
    BY <1>1, <1>2, <1>3, <1>7, <1>8, StageNames DEF BootedInv
  <1>13. ArenasInv' /\ ArenasIndexed'
    BY <1>1, <1>3 DEF ArenasInv, ArenasIndexed
  <1>14. GrantedReady'
    BY <1>1, <1>3, <1>8, StageNames DEF GrantedReady
  <1>15. QED
    BY <1>9, <1>10, <1>11, <1>12, <1>13, <1>14 DEF IInv, BootRight

\* The end of malloc_init_hard(): everything is complete and the arenas are numbered.
LEMMA FinishStep ==
  ASSUME Completes, IInv, NEW t \in Threads, Finish(t)
  PROVE  IInv'
  <1>1. /\ call[t] = "finish" /\ initializer = t /\ state = "recursible"
        /\ UNCHANGED <<initializer, lock, served>>
    BY DEF Finish, IInv, CallInv
  <1>2. \A u \in Threads : u # t =>
            call[u] \notin {"boots", "tsd", "recursible", "finish", "background", "granted"}
    BY <1>1, Alone
  <1>3. TypeOK /\ CallInv /\ StateInv /\ BootedInv /\ ArenasInv /\ GrantedReady
    BY DEF IInv, BootRight
  <1>4. arenas.ncpus \in 1 .. MaxCpus /\ ~(arenas.ncpus >= Limit)
    BY <1>1, <1>3 DEF ArenasInv, Completes
  <1>5. PICK n \in Outcomes(LastStages), getcpu \in BOOLEAN :
          LET mode == PercpuMode(getcpu)
              beyond == mode # "disabled" /\ arenas.ncpus >= Limit
              lost == opt.percpu # "disabled" /\ ~getcpu
              m == IF beyond THEN 1 ELSE n
          IN  /\ booted' = Completed(Until(LastStages, m))
              /\ opt' = [opt EXCEPT !.percpu = mode]
              /\ arenas' = IF m > 1 THEN malloc_init_narenas(mode) ELSE arenas
              /\ state' = IF m > Len(LastStages) THEN "initialized" ELSE state
              /\ Ends(t, IF (beyond \/ lost) /\ opt.abort THEN "aborted"
                         ELSE IF m <= Len(LastStages) THEN "failed"
                         ELSE IF opt.background THEN "background" ELSE "granted")
    BY DEF Finish
  <1> DEFINE mode == PercpuMode(getcpu)
  <1>6. n = 5 /\ Len(LastStages) = 4 /\ {LastStages[i] : i \in 1..4} = Until(LastStages, n)
    BY LastDone
  <1>7. /\ booted' = Completed(Until(LastStages, n))
        /\ opt' = [opt EXCEPT !.percpu = mode]
        /\ arenas' = malloc_init_narenas(mode)
        /\ state' = "initialized"
        /\ \E how \in {"aborted", "background", "granted"} : call' = [call EXCEPT ![t] = how]
    <2> DEFINE beyond == mode # "disabled" /\ arenas.ncpus >= Limit
               lost == opt.percpu # "disabled" /\ ~getcpu
               m == IF beyond THEN 1 ELSE n
               how == IF (beyond \/ lost) /\ opt.abort THEN "aborted"
                      ELSE IF m <= Len(LastStages) THEN "failed"
                      ELSE IF opt.background THEN "background" ELSE "granted"
    <2>1. /\ booted' = Completed(Until(LastStages, m))
          /\ opt' = [opt EXCEPT !.percpu = mode]
          /\ arenas' = IF m > 1 THEN malloc_init_narenas(mode) ELSE arenas
          /\ state' = IF m > Len(LastStages) THEN "initialized" ELSE state
          /\ call' = [call EXCEPT ![t] = how]
      BY <1>5 DEF Ends
    <2>2. ~beyond /\ m = n
      BY <1>4
    <2>3. m > 1 /\ m > Len(LastStages) /\ ~(m <= Len(LastStages))
      BY <1>6, <2>2
    <2>4. how \in {"aborted", "background", "granted"}
      BY <2>3
    <2> HIDE DEF m, how, mode
    <2>5. QED
      BY <2>1, <2>2, <2>3, <2>4
  <1>8. mode \in Modes
    BY <1>3 DEF PercpuMode, TypeOK, Modes
  <1> HIDE DEF mode
  <1>9. opt' \in [percpu : Modes, narenas : Nat, ratio : Nat, huge : BOOLEAN, abort : BOOLEAN,
                  background : BOOLEAN] /\ opt'.percpu = mode
    BY <1>3, <1>7, <1>8 DEF TypeOK
  <1>10. /\ call'[t] \in {"aborted", "background", "granted"}
         /\ \A u \in Threads : u # t => call'[u] = call[u]
    BY <1>3, <1>7 DEF TypeOK
  <1>11. booted' \in [Stages -> Nat] /\ \A s \in Stages : booted'[s] >= 1
    <2>1. /\ booted' \in [Stages -> Nat]
          /\ \A s \in Stages : booted[s] >= 1 \/ s \in Until(LastStages, n) => booted'[s] >= 1
      BY <1>3, <1>7, CompletedMore DEF TypeOK
    <2>2. /\ \A s \in A0Set : booted[s] >= 1
          /\ \A s \in {"tsd_boot0", "pthread_atfork", "background_thread_boot0"} : booted[s] >= 1
      BY <1>1, <1>3 DEF BootedInv
    <2>3. QED
      BY <1>6, <2>1, <2>2, StageNames
  <1>12. /\ arenas' \in Layouts /\ arenas'.ncpus = arenas.ncpus /\ arenas'.base = arenas'.total
         /\ arenas'.narenas_auto \in 1 .. (Limit - 1)
         /\ mode # "disabled" => percpu_arena_ind_limit(mode, arenas.ncpus) <= arenas'.narenas_auto
         /\ arenas'.huge # NoHuge =>
               arenas'.huge \in arenas'.narenas_auto .. (Limit - 1) /\ arenas'.huge < arenas'.base
    BY <1>3, <1>4, <1>7, <1>8, NarenasRight
  <1>13. TypeOK'
    BY <1>1, <1>3, <1>7, <1>9, <1>11, <1>12 DEF TypeOK, States
  <1>14. CallInv'
    BY <1>1, <1>2, <1>7, <1>10 DEF CallInv
  <1>15. StateInv' /\ BootedInv'
    BY <1>1, <1>2, <1>7, <1>10, <1>11, StageNames DEF StateInv, BootedInv, TypeOK
  <1>16. ArenasInv'
    BY <1>7, <1>12 DEF ArenasInv
  <1>17. ArenasIndexed'
    <2>1. ASSUME mode # "disabled", NEW cpu \in 0 .. (arenas.ncpus - 1)
          PROVE  percpu_arena_choose(mode, arenas.ncpus, cpu) < arenas'.narenas_auto
      <3>1. arenas.ncpus \in Nat /\ cpu \in Nat /\ cpu < arenas.ncpus
        BY <1>4 DEF Completes
      <3>2. percpu_arena_choose(mode, arenas.ncpus, cpu) < percpu_arena_ind_limit(mode, arenas.ncpus)
        BY <1>8, <2>1, <3>1, CpuArena
      <3>3. percpu_arena_ind_limit(mode, arenas.ncpus) \in Nat
        BY <1>4, CpuLimit DEF Completes
      <3>4. percpu_arena_choose(mode, arenas.ncpus, cpu) \in Nat
        BY <3>1 DEF percpu_arena_choose
      <3>5. QED
        BY <1>12, <2>1, <3>2, <3>3, <3>4 DEF Completes
    <2>2. QED
      BY <1>9, <1>12, <2>1 DEF ArenasIndexed
  <1>18. GrantedReady'
    BY <1>1, <1>3, <1>11, StageNames DEF GrantedReady
  <1>19. QED
    BY <1>13, <1>14, <1>15, <1>16, <1>17, <1>18 DEF IInv, BootRight

-----------------------------------------------------------------------------
(* The theorems.                                                           *)

\* Before the first call.
LEMMA InitInv ==
  ASSUME Completes, Init
  PROVE  IInv
  <1>1. TypeOK
    BY DEF Init, TypeOK, Modes, States, Layouts, NoArenas, NoHuge, Completes
  <1>2. CallInv /\ StateInv /\ BootedInv /\ ArenasInv
    BY DEF Init, CallInv, StateInv, BootedInv, ArenasInv
  <1>3. BootRight
    BY DEF Init, BootRight, GrantedReady, ArenasIndexed
  <1>4. QED
    BY <1>1, <1>2, <1>3 DEF IInv

\* Every step of every thread.
LEMMA StepInv ==
  ASSUME Completes, IInv, [Next]_vars
  PROVE  IInv'
  <1>1. CASE UNCHANGED vars
    <2>1. UNCHANGED <<state, initializer, lock, call, booted, opt, arenas, served>>
      BY <1>1 DEF vars
    <2>2. TypeOK' /\ CallInv' /\ StateInv' /\ BootedInv' /\ ArenasInv'
      BY <2>1 DEF IInv, TypeOK, CallInv, StateInv, BootedInv, ArenasInv
    <2>3. BootRight'
      BY <2>1 DEF IInv, BootRight, GrantedReady, ArenasIndexed
    <2>4. QED
      BY <2>2, <2>3 DEF IInv
  <1>2. ASSUME NEW t \in Threads,
               \/ Call(t) \/ Enter(t) \/ SpinDone(t) \/ BootA0(t) \/ Recursible(t)
               \/ Recurse(t) \/ Registered(t) \/ Finish(t) \/ CreateBackground(t)
               \/ Return(t)
        PROVE  IInv'
    BY <1>2, CallStep, EnterStep, WaitStep, BootA0Step, RecursibleStep, RecurseStep,
       RegisteredStep, FinishStep, ReturnStep
  <1>3. QED
    BY <1>1, <1>2 DEF Next

\* The invariant of malloc_init_hard(), whichever threads call it and in whatever order.
THEOREM Invariance == Completes => (Spec => []IInv)
  <1>1. Completes /\ Init => IInv
    BY InitInv
  <1>2. Completes /\ IInv /\ [Next]_vars => IInv'
    BY StepInv
  <1>3. SUFFICES ASSUME Completes
                 PROVE  Spec => []IInv
    OBVIOUS
  <1>4. Init => IInv
    BY <1>1, <1>3
  <1>5. IInv /\ [Next]_vars => IInv'
    BY <1>2, <1>3
  <1>6. QED
    BY <1>4, <1>5, PTL DEF Spec

\* malloc_init() grants nobody an allocator that is half made, apart from the calls the
\* initialisation itself makes, and the arenas malloc_init_narenas() numbers suffice for
\* every processor within what MALLOCX_ARENA() expresses.
THEOREM BootIsRight == Completes => (Spec => []BootRight)
  <1>1. SUFFICES ASSUME Completes
                 PROVE  Spec => []BootRight
    OBVIOUS
  <1>2. Spec => []IInv
    BY <1>1, Invariance
  <1>3. IInv => BootRight
    BY DEF IInv
  <1>4. QED
    BY <1>2, <1>3, PTL

\* Initialisation happens once: after malloc_init_state is malloc_init_initialized, no
\* late thread of malloc_init_hard() repeats a stage or renumbers the arenas.
THEOREM BootedOnce ==
    Completes =>
        (Spec => [][state = "initialized" =>
                        UNCHANGED <<state, initializer, booted, opt, arenas>>]_vars)
  <1>1. ASSUME Completes, IInv, [Next]_vars, state = "initialized"
        PROVE  UNCHANGED <<state, initializer, booted, opt, arenas>>
    <2>1. CASE UNCHANGED vars
      BY <2>1 DEF vars
    <2>2. ASSUME NEW t \in Threads, BootA0(t) \/ Recursible(t) \/ Registered(t) \/ Finish(t)
          PROVE  FALSE
      <3>1. call[t] \in {"boots", "tsd", "recursible", "finish"}
        BY <2>2 DEF BootA0, Recursible, Registered, Finish
      <3>2. QED
        BY <1>1, <3>1 DEF IInv, CallInv
    <2>3. ASSUME NEW t \in Threads, Call(t) \/ Enter(t) \/ SpinDone(t) \/ Recurse(t)
                                     \/ CreateBackground(t) \/ Return(t)
          PROVE  UNCHANGED <<state, initializer, booted, opt, arenas>>
      BY <2>3 DEF Call, Enter, SpinDone, Recurse, CreateBackground, Return
    <2>4. QED
      BY <1>1, <2>1, <2>2, <2>3 DEF Next
  <1>2. SUFFICES ASSUME Completes
                 PROVE  Spec => [][state = "initialized" =>
                            UNCHANGED <<state, initializer, booted, opt, arenas>>]_vars
    OBVIOUS
  <1>3. Spec => []IInv
    BY <1>2, Invariance
  <1>4. IInv /\ [Next]_vars =>
            [state = "initialized" => UNCHANGED <<state, initializer, booted, opt, arenas>>]_vars
    BY <1>1, <1>2
  <1>5. QED
    BY <1>3, <1>4, PTL DEF Spec
=============================================================================
