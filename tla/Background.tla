----------------------------- MODULE Background -----------------------------
(* jemalloc's background threads (src/background_thread.c), the mallctls that *)
(* start, stop and pause them (src/ctl.c) and the hints that wake them        *)
(* (src/arena.c).                                                             *)
(*                                                                            *)
(* Slot i has a mutex, a condition variable and a state; thread 0 creates and *)
(* joins the threads of the other slots.  A background thread holds its       *)
(* slot's mutex from the moment it runs until it sleeps, so "the mutex is     *)
(* free" is read off bg[i].pc; everyone else takes it for one short critical  *)
(* section, which is one step here.  background_thread_lock, which a caller   *)
(* keeps for a whole mallctl, is the variable lock.  A signal reaches only a  *)
(* thread that is waiting.  ctl_mtx only serialises callers, and is left out. *)
EXTENDS Integers, FiniteSetsExt

CONSTANTS
    Apps,        \* application threads
    Nobody,      \* the owner of a free background_thread_lock
    MaxThreads,  \* opt_max_background_threads
    NArenas,     \* arena indices 0 .. NArenas - 1; arena 0 exists from boot
    Resets,      \* the arenas the application may reset or destroy
    Calls,       \* Calls[t]: the calls application thread t makes
    Failing,     \* the slots whose pthread_create may fail
    Retry        \* calls are made even after an enable has failed

Slots == 0 .. MaxThreads - 1
Arenas == 0 .. NArenas - 1

VARIABLES
    lock,        \* owner of background_thread_lock
    enabled,     \* background_thread_enabled_state
    max,         \* max_background_threads
    n,           \* n_background_threads
    state,       \* info[i].state
    indefinite,  \* info[i].indefinite_sleep
    bg,          \* where the thread of slot i is
    created,     \* thread 0's created_threads; n_created is one more
    arenas,      \* the arenas arena_get finds
    deferral,    \* the shard's deferral_allowed
    dirty,       \* the arena has pages waiting to be purged
    app,         \* the call each application thread is in
    failed       \* an enable has returned EFAULT

vars == <<lock, enabled, max, n, state, indefinite, bg, created, arenas,
          deferral, dirty, app, failed>>

NoThread == [pc |-> "none", at |-> 0, soon |-> FALSE]
Idle == [pc |-> "idle", arg |-> 0, val |-> FALSE]

At(pc) == [NoThread EXCEPT !.pc = pc]
In(pc, arg, val) == [pc |-> pc, arg |-> arg, val |-> val]

Init ==
    /\ lock = Nobody /\ enabled = FALSE /\ max = MaxThreads /\ n = 0
    /\ state = [i \in Slots |-> "stopped"]
    /\ indefinite = [i \in Slots |-> FALSE]
    /\ bg = [i \in Slots |-> NoThread]
    /\ created = {}
    /\ arenas = {0}
    /\ deferral = [a \in Arenas |-> FALSE]
    /\ dirty = [a \in Arenas |-> FALSE]
    /\ app = [t \in Apps |-> Idle]
    /\ failed = FALSE

Holding == {"loop", "work", "down", "join"}

MutexFree(i) == bg[i].pc \notin Holding

Slot(a) == a % max

(* Defect: the signal is lost.                                                *)
Signalled_Lost(b, i) == b

(* pthread_cond_signal: a waiting thread goes on to re-take its mutex.        *)
Signalled(b, i) == IF b[i].pc = "sleep" THEN [b EXCEPT ![i] = At("relock")] ELSE b

-----------------------------------------------------------------------------
(* The background threads.                                                    *)

(* background_work, up to its loop.                                           *)
background_thread_entry(i) ==
    /\ bg[i].pc = "entry"
    /\ bg' = [bg EXCEPT ![i] = At("loop")]
    /\ indefinite' = [indefinite EXCEPT ![i] = TRUE]
    /\ created' = IF i = 0 THEN {} ELSE created
    /\ UNCHANGED <<lock, enabled, max, n, state, arenas, deferral, dirty, app, failed>>

(* Defect: the walk takes in the arenas of every slot.                        *)
Remaining_All(i, a) == {b \in arenas : b >= a /\ b >= i}

(* The existing arenas slot i still has to visit, from index a on.            *)
Remaining(i, a) == {b \in arenas : b >= a /\ b % max = i}

(* background_work_sleep_once begins: visit the arenas, or sleep when none.   *)
Visit(i, a, soon) ==
    IF Remaining(i, a) # {}
    THEN /\ bg' = [bg EXCEPT ![i] =
                    [pc |-> "work", at |-> Min(Remaining(i, a)), soon |-> soon]]
         /\ UNCHANGED indefinite
    ELSE /\ bg' = [bg EXCEPT ![i] = At("sleep")]
         /\ indefinite' = [indefinite EXCEPT ![i] = ~soon]

(* The condition of the loops of background_work and background_thread0_work, *)
(* the pause check, and thread 0's test for threads still to be created.      *)
background_work(i) ==
    /\ bg[i].pc = "loop"
    /\ CASE state[i] = "stopped" /\ i = 0 ->
              /\ bg' = [bg EXCEPT ![i] = [At("down") EXCEPT !.at = 1]]
              /\ UNCHANGED indefinite
         [] state[i] = "stopped" /\ i # 0 ->
              /\ bg' = [bg EXCEPT ![i] = At("exited")]
              /\ indefinite' = [indefinite EXCEPT ![i] = FALSE]
         [] state[i] = "paused" ->
              bg' = [bg EXCEPT ![i] = At("paused")] /\ UNCHANGED indefinite
         [] state[i] = "started" /\ i = 0 /\ 1 + Cardinality(created) # n ->
              /\ bg' = [bg EXCEPT ![i] = [At("check") EXCEPT !.at = 1]]
              /\ UNCHANGED indefinite
         [] OTHER -> Visit(i, i, FALSE)
    /\ UNCHANGED <<lock, enabled, max, n, state, created, arenas, deferral, dirty, app, failed>>

(* The wait for the global lock in background_thread_pause_check.             *)
background_thread_pause_check(i) ==
    /\ bg[i].pc = "paused"
    /\ lock = Nobody
    /\ bg' = [bg EXCEPT ![i] = At("relock")]
    /\ UNCHANGED <<lock, enabled, max, n, state, indefinite, created, arenas,
                   deferral, dirty, app, failed>>

Relock(i) ==
    /\ bg[i].pc = "relock"
    /\ bg' = [bg EXCEPT ![i] = At("loop")]
    /\ UNCHANGED <<lock, enabled, max, n, state, indefinite, created, arenas,
                   deferral, dirty, app, failed>>

(* One arena of background_work_sleep_once: a thread woken from an indefinite *)
(* sleep only asks when the work is due; otherwise it purges what is due.     *)
background_work_sleep_once(i) ==
    LET a == bg[i].at IN
    /\ bg[i].pc = "work"
    /\ \E left \in {dirty[a]} \cup IF indefinite[i] THEN {} ELSE {FALSE} :
         /\ dirty' = [dirty EXCEPT ![a] = left]
         /\ Visit(i, a + 1, bg[i].soon \/ left)
    /\ UNCHANGED <<lock, enabled, max, n, state, created, arenas, deferral, app, failed>>

(* The wait of background_thread_sleep ends: its time is up, or a spurious    *)
(* return of pthread_cond_wait.                                               *)
background_thread_sleep(i) ==
    /\ bg[i].pc = "sleep"
    /\ bg' = [bg EXCEPT ![i] = At("relock")]
    /\ UNCHANGED <<lock, enabled, max, n, state, indefinite, created, arenas,
                   deferral, dirty, app, failed>>

(* Defect: it goes on to work in both cases.                                  *)
Rechecked_Never(found) == At("rework")

(* Where check_background_thread_creation returns to.  Having created a       *)
(* thread it restarts the loop; having found none to create it goes on to     *)
(* work, though its mutex was free in between.                                *)
Rechecked(found) == IF found THEN At("relock") ELSE At("rework")

(* check_background_thread_creation, one slot at a time, without mtx[0].  A   *)
(* paused slot is left for later.                                             *)
check_background_thread_creation ==
    LET i == bg[0].at IN
    /\ bg[0].pc = "check"
    /\ IF i >= max
       THEN bg' = [bg EXCEPT ![0] = Rechecked(FALSE)]
       ELSE /\ i \in created \/ MutexFree(i)
            /\ IF i \notin created /\ state[i] = "started"
               THEN bg' = [bg EXCEPT ![0].pc = "create"]
               ELSE bg' = [bg EXCEPT ![0].at = i + 1]
    /\ UNCHANGED <<lock, enabled, max, n, state, indefinite, created, arenas,
                   deferral, dirty, app, failed>>

(* Defect: the thread is not recorded.                                        *)
Recorded_Not(i) == created

(* created_threads after slot i's thread was created.                         *)
Recorded(i) == created \cup {i}

background_thread_create_signals_masked ==
    LET i == bg[0].at IN
    /\ bg[0].pc = "create"
    /\ \/ /\ bg' = [bg EXCEPT ![0] = Rechecked(TRUE), ![i] = At("entry")]
          /\ created' = Recorded(i)
       \/ /\ i \in Failing
          /\ bg' = [bg EXCEPT ![0] = Rechecked(TRUE)]
          /\ UNCHANGED created
    /\ UNCHANGED <<lock, enabled, max, n, state, indefinite, arenas, deferral,
                   dirty, app, failed>>

(* Back under mtx[0] after a check that created nothing: on to arena 0.       *)
Rework ==
    /\ bg[0].pc = "rework"
    /\ bg' = [bg EXCEPT ![0] = At("work")]
    /\ UNCHANGED <<lock, enabled, max, n, state, indefinite, created, arenas,
                   deferral, dirty, app, failed>>

(* The second half of background_thread0_work: thread 0 stops the others in   *)
(* turn, joins those it created, and exits.                                   *)
background_thread0_stop ==
    LET i == bg[0].at IN
    /\ bg[0].pc = "down"
    /\ IF i >= max
       THEN /\ bg' = [bg EXCEPT ![0] = At("exited")]
            /\ indefinite' = [indefinite EXCEPT ![0] = FALSE]
            /\ UNCHANGED <<n, state>>
       ELSE /\ MutexFree(i)
            /\ state' = [state EXCEPT ![i] = "stopped"]
            /\ UNCHANGED indefinite
            /\ IF state[i] = "started" /\ i \in created
               THEN /\ bg' = [Signalled(bg, i) EXCEPT ![0].pc = "join"]
                    /\ UNCHANGED n
               ELSE /\ bg' = [bg EXCEPT ![0].at = i + 1]
                    /\ n' = IF state[i] = "started" THEN n - 1 ELSE n
    /\ UNCHANGED <<lock, enabled, max, created, arenas, deferral, dirty, app, failed>>

background_thread0_join ==
    LET i == bg[0].at IN
    /\ bg[0].pc = "join"
    /\ bg[i].pc = "exited"
    /\ bg' = [bg EXCEPT ![i] = NoThread, ![0] = [At("down") EXCEPT !.at = i + 1]]
    /\ n' = n - 1
    /\ UNCHANGED <<lock, enabled, max, state, indefinite, created, arenas,
                   deferral, dirty, app, failed>>

-----------------------------------------------------------------------------
(* The application's calls.                                                   *)

Return(t) == app' = [app EXCEPT ![t] = Idle]

(* background_thread_ctl with a new value, up to its first call.              *)
background_thread_ctl(t, new) ==
    /\ app[t].pc = "idle" /\ "switch" \in Calls[t]
    /\ lock = Nobody
    /\ new # enabled
    /\ enabled' = new
    /\ lock' = t
    /\ app' = [app EXCEPT ![t] = In(IF new THEN "enable" ELSE "disable", 0, FALSE)]
    /\ UNCHANGED <<max, n, state, indefinite, bg, created, arenas, deferral, dirty, failed>>

(* max_background_threads_ctl with a new value: running threads are stopped,  *)
(* and started again under the new maximum.                                   *)
max_background_threads_ctl(t, new) ==
    /\ app[t].pc = "idle" /\ "max" \in Calls[t]
    /\ lock = Nobody
    /\ new # max
    /\ IF enabled
       THEN /\ enabled' = FALSE /\ lock' = t
            /\ app' = [app EXCEPT ![t] = In("disable", new, FALSE)]
            /\ UNCHANGED max
       ELSE max' = new /\ UNCHANGED <<enabled, lock, app>>
    /\ UNCHANGED <<n, state, indefinite, bg, created, arenas, deferral, dirty, failed>>

(* background_threads_disable_single for slot 0, up to the join.              *)
background_threads_disable_single(t) ==
    /\ app[t].pc = "disable"
    /\ MutexFree(0)
    /\ state' = [state EXCEPT ![0] = "stopped"]
    /\ bg' = IF state[0] = "started" THEN Signalled(bg, 0) ELSE bg
    /\ app' = [app EXCEPT ![t].pc = IF state[0] = "started" THEN "join" ELSE "disabled"]
    /\ UNCHANGED <<lock, enabled, max, n, indefinite, created, arenas, deferral, dirty, failed>>

JoinThread0(t) ==
    /\ app[t].pc = "join"
    /\ bg[0].pc = "exited"
    /\ bg' = [bg EXCEPT ![0] = NoThread]
    /\ n' = n - 1
    /\ app' = [app EXCEPT ![t].pc = "disabled"]
    /\ UNCHANGED <<lock, enabled, max, state, indefinite, created, arenas, deferral, dirty, failed>>

(* Defect: the shards are not told.                                           *)
SetDeferral_None(allowed) == deferral

(* pa_shard_set_deferral_allowed on every arena whose shard is set up.        *)
SetDeferral(allowed) ==
    LET opening == {app[t].arg : t \in {u \in Apps : app[u].pc = "shard"}} IN
    [a \in Arenas |-> IF a \in arenas \ opening THEN allowed ELSE deferral[a]]

(* background_threads_disable, after the join; a new maximum starts the       *)
(* threads again.                                                             *)
background_threads_disable(t) ==
    /\ app[t].pc = "disabled"
    /\ deferral' = SetDeferral(FALSE)
    /\ IF app[t].arg # 0
       THEN /\ max' = app[t].arg /\ enabled' = TRUE
            /\ app' = [app EXCEPT ![t] = In("enable", 0, FALSE)]
            /\ UNCHANGED lock
       ELSE lock' = Nobody /\ Return(t) /\ UNCHANGED <<max, enabled>>
    /\ UNCHANGED <<n, state, indefinite, bg, created, arenas, dirty, failed>>

(* Defect: the arenas past the number of threads are not looked at.           *)
Marked_Few == {a \in arenas : a < max - 1}

(* The slots background_threads_enable starts: one per existing arena, and 0. *)
Marked == {Slot(a) : a \in arenas}

(* background_threads_enable: mark the slots, slot 0 (created last) included. *)
background_threads_enable(t) ==
    /\ app[t].pc = "enable"
    /\ state' = [i \in Slots |-> IF i \in Marked THEN "started" ELSE state[i]]
    /\ indefinite' = [i \in Slots |-> indefinite[i] /\ i \notin Marked]
    /\ n' = n + Cardinality(Marked)
    /\ app' = [app EXCEPT ![t].pc = "launch"]
    /\ UNCHANGED <<lock, enabled, max, bg, created, arenas, deferral, dirty, failed>>

(* background_thread_create_locked creates thread 0.  When that fails the     *)
(* call returns EFAULT and nothing but slot 0 is undone.                      *)
LaunchThread0(t) ==
    /\ app[t].pc = "launch"
    /\ lock' = Nobody /\ Return(t)
    /\ \/ /\ bg' = [bg EXCEPT ![0] = At("entry")]
          /\ deferral' = SetDeferral(TRUE)
          /\ UNCHANGED <<n, state, failed>>
       \/ /\ 0 \in Failing
          /\ state' = [state EXCEPT ![0] = "stopped"]
          /\ n' = n - 1
          /\ failed' = TRUE
          /\ UNCHANGED <<bg, deferral>>
    /\ UNCHANGED <<enabled, max, indefinite, created, arenas, dirty>>

(* The arenas some call is creating, resetting or destroying.                 *)
InUse == {app[t].arg : t \in {u \in Apps : app[u].pc \in
            {"shard", "slot", "mark", "signal", "prepare", "reset"}}}

(* arenas.create: arena_new publishes the arena and reads the switch ...      *)
arena_new(t, a) ==
    /\ app[t].pc = "idle" /\ "create" \in Calls[t]
    /\ a \notin arenas \cup InUse
    /\ arenas' = arenas \cup {a}
    /\ deferral' = [deferral EXCEPT ![a] = FALSE]
    /\ app' = [app EXCEPT ![t] = In("shard", a, enabled)]
    /\ UNCHANGED <<lock, enabled, max, n, state, indefinite, bg, created, dirty, failed>>

(* ... then its shard takes over what was read ...                            *)
pa_shard_enable_hpa(t) ==
    LET a == app[t].arg IN
    /\ app[t].pc = "shard"
    /\ deferral' = [deferral EXCEPT ![a] = app[t].val]
    /\ app' = [app EXCEPT ![t] = In("slot", a, FALSE)]
    /\ UNCHANGED <<lock, enabled, max, n, state, indefinite, bg, created, arenas,
                   dirty, failed>>

(* ... then background_thread_create takes the global lock ...                *)
background_thread_create(t) ==
    /\ app[t].pc = "slot"
    /\ lock = Nobody
    /\ lock' = t
    /\ app' = [app EXCEPT ![t].pc = "mark"]
    /\ UNCHANGED <<enabled, max, n, state, indefinite, bg, created, arenas, deferral, dirty, failed>>

NeedNewThread(i) == enabled /\ state[i] = "stopped"

(* ... and background_thread_create_locked starts the slot, if it must ...    *)
background_thread_create_locked(t) ==
    LET i == Slot(app[t].arg) IN
    /\ app[t].pc = "mark"
    /\ MutexFree(i)
    /\ IF NeedNewThread(i)
       THEN /\ state' = [state EXCEPT ![i] = "started"]
            /\ indefinite' = [indefinite EXCEPT ![i] = FALSE]
            /\ n' = n + 1
            /\ app' = [app EXCEPT ![t].pc = "signal"]
            /\ UNCHANGED lock
       ELSE lock' = Nobody /\ Return(t) /\ UNCHANGED <<state, indefinite, n>>
    /\ UNCHANGED <<enabled, max, bg, created, arenas, deferral, dirty, failed>>

(* ... and tells thread 0, which creates the thread.                          *)
SignalThread0(t) ==
    /\ app[t].pc = "signal"
    /\ MutexFree(0)
    /\ bg' = Signalled(bg, 0)
    /\ lock' = Nobody /\ Return(t)
    /\ UNCHANGED <<enabled, max, n, state, indefinite, created, arenas, deferral, dirty, failed>>

(* arena.<i>.reset (val FALSE) and arena.<i>.destroy (val TRUE) take the lock *)
(* in arena_reset_prepare_background_thread ...                               *)
arena_i_reset_ctl(t, a, destroy) ==
    /\ app[t].pc = "idle" /\ "reset" \in Calls[t]
    /\ a \in (arenas \cap Resets) \ InUse
    /\ lock = Nobody
    /\ lock' = t
    /\ app' = [app EXCEPT ![t] = In("prepare", a, destroy)]
    /\ UNCHANGED <<enabled, max, n, state, indefinite, bg, created, arenas, deferral, dirty, failed>>

(* Defect: the slot's thread is not paused.                                   *)
PausedState_None == "started"

PausedState == "paused"

(* ... and pause the slot's thread ...                                        *)
arena_reset_prepare_background_thread(t) ==
    LET i == Slot(app[t].arg) IN
    /\ app[t].pc = "prepare"
    /\ enabled => MutexFree(i)
    /\ state' = IF enabled THEN [state EXCEPT ![i] = PausedState] ELSE state
    /\ app' = [app EXCEPT ![t].pc = "reset"]
    /\ UNCHANGED <<lock, enabled, max, n, indefinite, bg, created, arenas, deferral, dirty, failed>>

(* ... for arena_reset, which frees what the arena holds (a destroyed arena   *)
(* is then purged and gone), and arena_reset_finish_background_thread.        *)
arena_reset_finish_background_thread(t) ==
    LET a == app[t].arg
        i == Slot(a) IN
    /\ app[t].pc = "reset"
    /\ enabled => MutexFree(i)
    /\ state' = IF enabled THEN [state EXCEPT ![i] = "started"] ELSE state
    /\ arenas' = IF app[t].val THEN arenas \ {a} ELSE arenas
    /\ dirty' = [dirty EXCEPT ![a] = ~app[t].val]
    /\ lock' = Nobody /\ Return(t)
    /\ UNCHANGED <<enabled, max, n, indefinite, bg, created, deferral, failed>>

(* Freed pages become dirty; arena_background_thread_inactivity_check looks   *)
(* at the switch ...                                                          *)
arena_handle_deferred_work(t, a) ==
    /\ app[t].pc = "idle" /\ "free" \in Calls[t]
    /\ a \in arenas \ InUse
    /\ dirty' = [dirty EXCEPT ![a] = TRUE]
    /\ app' = IF enabled THEN [app EXCEPT ![t] = In("poke", a, FALSE)] ELSE app
    /\ UNCHANGED <<lock, enabled, max, n, state, indefinite, bg, created, arenas, deferral, failed>>

(* ... and arena_maybe_do_deferred_work wakes a thread that sleeps for good,  *)
(* unless its mutex is taken.                                                 *)
arena_maybe_do_deferred_work(t) ==
    LET i == Slot(app[t].arg) IN
    /\ app[t].pc = "poke"
    /\ bg' = IF indefinite[i] /\ MutexFree(i) /\ state[i] = "started"
             THEN Signalled(bg, i) ELSE bg
    /\ Return(t)
    /\ UNCHANGED <<lock, enabled, max, n, state, indefinite, created, arenas,
                   deferral, dirty, failed>>

-----------------------------------------------------------------------------
Thread(i) ==
    \/ background_thread_entry(i) \/ background_work(i)
    \/ background_thread_pause_check(i) \/ Relock(i)
    \/ background_work_sleep_once(i)

Thread0 ==
    \/ check_background_thread_creation
    \/ background_thread_create_signals_masked
    \/ Rework \/ background_thread0_stop \/ background_thread0_join

Call(t) ==
    /\ failed => Retry
    /\ \/ \E new \in BOOLEAN : background_thread_ctl(t, new)
       \/ \E new \in 1 .. MaxThreads : max_background_threads_ctl(t, new)
       \/ \E a \in Arenas : \/ arena_new(t, a)
                            \/ \E d \in BOOLEAN : arena_i_reset_ctl(t, a, d)
                            \/ arena_handle_deferred_work(t, a)

Continue(t) ==
    \/ background_threads_disable_single(t) \/ JoinThread0(t)
    \/ background_threads_disable(t)
    \/ background_threads_enable(t) \/ LaunchThread0(t)
    \/ pa_shard_enable_hpa(t) \/ background_thread_create(t)
    \/ background_thread_create_locked(t) \/ SignalThread0(t)
    \/ arena_reset_prepare_background_thread(t)
    \/ arena_reset_finish_background_thread(t)
    \/ arena_maybe_do_deferred_work(t)

Next ==
    \/ \E i \in Slots : Thread(i) \/ background_thread_sleep(i)
    \/ Thread0
    \/ \E t \in Apps : Call(t) \/ Continue(t)

Spec == Init /\ [][Next]_vars

(* The scheduler runs every thread that can run and a timed wait ends.  A     *)
(* background thread sleeps at least 100 ms without its mutex, so whoever     *)
(* wants that mutex gets it in the end (strong fairness).  An application     *)
(* need make no call, an indefinite wait need not end.                        *)
LiveSpec ==
    /\ Spec
    /\ \A i \in Slots : WF_vars(Thread(i))
    /\ \A i \in Slots : WF_vars(~indefinite[i] /\ background_thread_sleep(i))
    /\ SF_vars(Thread0)
    /\ \A t \in Apps : SF_vars(Continue(t))

-----------------------------------------------------------------------------
(* With nobody in a mallctl, n_background_threads is the number of slots in   *)
(* use, no slot is left paused, and an existing arena has a slot in use       *)
(* whenever the threads are on (an arena still being created aside, and       *)
(* unless an enable failed): what stats.background_thread.num_threads reports *)
(* and purging relies on.                                                     *)
SlotsServe ==
    lock = Nobody =>
        /\ n = Cardinality({i \in Slots : state[i] # "stopped"})
        /\ \A i \in Slots : state[i] # "paused"
        /\ enabled /\ ~failed => \A a \in arenas \ InUse : state[Slot(a)] = "started"

(* Switching off terminates the threads synchronously: once the call has      *)
(* returned there is no thread and no slot in use.  And a thread is only      *)
(* created in a slot whose previous thread has been joined.                   *)
StoppedMeansGone ==
    /\ lock = Nobody /\ ~enabled =>
         \A i \in Slots : bg[i] = NoThread /\ state[i] = "stopped"
    /\ bg[0].pc = "create" => bg[bg[0].at].pc = "none"
    /\ \A t \in Apps : app[t].pc = "launch" => bg[0].pc = "none"

(* "Temporarily disable the background thread during arena reset": while an   *)
(* arena is reset or destroyed no background thread works on it.              *)
ResetAlone ==
    \A i \in Slots, t \in Apps :
        app[t].pc = "reset" => ~(bg[i].pc = "work" /\ bg[i].at = app[t].arg)

(* The assertions of background_thread.c and ctl.c.                           *)
Asserts ==
    /\ \A t \in Apps :
         /\ app[t].pc = "disable" => state[0] # "paused"
         /\ app[t].pc = "disabled" => n = 0
         /\ app[t].pc = "enable" =>
              n = 0 /\ enabled /\ \A i \in Slots : state[i] = "stopped"
         /\ app[t].pc = "signal" => state[0] = "started"
         /\ app[t].pc = "prepare" /\ enabled => state[Slot(app[t].arg)] = "started"
         /\ app[t].pc = "reset" /\ enabled => state[Slot(app[t].arg)] = "paused"
    /\ bg[0].pc \in {"down", "join", "exited"} =>
         ~enabled /\ \A i \in Slots : state[i] # "paused"
    /\ bg[0].pc = "exited" => n = 1
    /\ \A i \in Slots : bg[i].pc # "none" => i < max

(* With nobody in a mallctl, a shard may defer its work exactly when there    *)
(* are background threads to do it.                                           *)
DeferralAgrees ==
    lock = Nobody /\ ~failed => \A a \in arenas \ InUse : deferral[a] = enabled

(* A thread that sleeps until it is told to wake has nothing to do.           *)
NoForgottenWork ==
    (\A t \in Apps : app[t].pc = "idle") =>
        \A i \in Slots : bg[i].pc = "sleep" /\ indefinite[i] =>
            \A a \in arenas : Slot(a) = i => ~dirty[a]

(* Switching off, or changing the maximum, comes to an end.                   *)
DisableReturns == \A t \in Apps : app[t].pc = "join" ~> app[t].pc # "join"

(* No thread is ever paused for the reset of an arena.                        *)
Unpaused == [](\A i \in Slots : state[i] # "paused")

(* Switching off comes to an end if no thread is paused.                      *)
DisableReturnsUnpaused == Unpaused => DisableReturns

(* A slot that is in use gets its thread, or is given up, if no thread is     *)
(* paused.                                                                    *)
SlotsStaffed ==
    Unpaused => \A i \in Slots : state[i] = "started" /\ bg[i] = NoThread
                                    ~> bg[i] # NoThread \/ state[i] = "stopped"
=============================================================================
