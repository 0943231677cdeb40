------------------------------- MODULE Fork --------------------------------
(***************************************************************************)
(* The fork handlers of jemalloc.  Before fork() the forking thread takes  *)
(* every mutex of the allocator, in the order of the ranks of witness.h,   *)
(* the mutexes of the arenas stage by stage.  After it the parent releases *)
(* them and the child initialises them afresh and counts itself as the     *)
(* only thread.  Another thread takes mutexes all the while, two at a time *)
(* and by increasing rank, creates arenas and switches background threads. *)
(* Arrays of mutexes stand for one mutex each.                             *)
(***************************************************************************)
EXTENDS Integers, Sequences, FiniteSets, SequencesExt

CONSTANTS
    Features,       \* of the build and the options: "stats", "prof", "hpa", "background"
    NAuto,          \* arenas there is room for from the start
    MaxArenas,
    Untaken,        \* mutexes in use that no handler takes
    LateArena       \* whether an arena may be added once fork() has begun

VARIABLES
    held,           \* the mutexes each thread holds
    want,           \* the mutex the other thread waits for
    made,           \* arenas that exist
    total,          \* narenas_total
    forker,         \* where the forking thread is, what it has to do next, and its narenas
    threads,        \* what counts threads: by arena, caches and nominal list
    background      \* background threads: enabled, enabled_at_fork, running

vars == <<held, want, made, total, forker, threads, background>>

F == "forker"
T == "other"
Nothing == <<"nothing", -1>>

Global(names) == [i \in DOMAIN names |-> <<names[i], -1>>]
If(feature, names) == IF feature \in Features THEN names ELSE <<>>

-----------------------------------------------------------------------------
hpa_shard_prefork == If("hpa", <<"hpa_shard_grow", "hpa_shard">>)
sec_prefork2 == If("hpa", <<"sec">>)

\* Stages 0 and 2 to 5 of an arena are those of its page allocator.
pa_shard_prefork ==
    <<<<"decay_dirty", "decay_muzzy">>,
      sec_prefork2,
      <<"extent_grow">> \o SubSeq(hpa_shard_prefork, 1, 1),
      <<"ecache_dirty", "ecache_muzzy", "ecache_retained">> \o SubSeq(hpa_shard_prefork, 2, 2),
      <<"edata_cache">>>>

arena_prefork ==
    <<pa_shard_prefork[1], If("stats", <<"tcache_ql">>), pa_shard_prefork[2], pa_shard_prefork[3],
      pa_shard_prefork[4], pa_shard_prefork[5], <<"base">>, <<"large">>, <<"bin">>>>

pa_shard_postfork ==
    <<"edata_cache", "ecache_dirty", "ecache_muzzy", "ecache_retained", "extent_grow", "decay_dirty", "decay_muzzy">>
        \o sec_prefork2 \o hpa_shard_prefork

arena_postfork == <<"bin", "large", "base">> \o pa_shard_postfork \o If("stats", <<"tcache_ql">>)

prof_prefork0 == If("prof", <<"prof_dump", "bt2gctx", "tdatas", "tdata", "log", "gctx", "prof_recent_dump">>)

prof_prefork1 ==
    If("prof", <<"prof_active", "prof_dump_filename", "prof_gdump", "prof_recent_alloc", "prof_stats",
                 "next_thr_uid", "prof_thread_active_init">>)

prof_postfork == Reverse(prof_prefork1) \o Reverse(prof_prefork0)

background_thread_prefork0 == If("background", <<"background_global">>)
background_thread_prefork1 == If("background", <<"background">>)
background_thread_postfork == background_thread_prefork1 \o background_thread_prefork0

Each(names, arenas) ==
    FlattenSeq([j \in DOMAIN arenas |-> [i \in DOMAIN names |-> <<names[i], arenas[j]>>]])

\* Defect: arena by arena.
Stages_ByArena(arenas) == Each(FlattenSeq(arena_prefork), arenas)

Stages(arenas) == FlattenSeq([i \in DOMAIN arena_prefork |-> Each(arena_prefork[i], arenas)])

\* The calls of the handlers: those before the arenas, those from the arenas
\* on, and the calls of the handlers after fork(), each with its mutexes.
Prefork0 ==
    Global(<<"ctl", "tcaches", "arenas">> \o background_thread_prefork0 \o prof_prefork0
             \o background_thread_prefork1)

Prefork1(arenas) == Stages(arenas) \o Global(prof_prefork1 \o <<"tsd_nominal_tsds">>)

Postfork(arenas) ==
    <<Global(<<"tsd_nominal_tsds">>)>>
        \o [j \in DOMAIN arenas |-> Each(arena_postfork, <<arenas[j]>>)]
        \o <<Global(prof_postfork), Global(background_thread_postfork),
             Global(<<"arenas", "tcaches", "ctl">>)>>

-----------------------------------------------------------------------------
Ranks ==
    <<{"ctl"}, {"tcaches"}, {"arenas"}, {"background_global"}, {"prof_dump"}, {"bt2gctx"}, {"tdatas"}, {"tdata"},
      {"log"}, {"gctx"}, {"prof_recent_dump"}, {"background"}, {"decay_dirty", "decay_muzzy"}, {"tcache_ql"},
      {"sec"}, {"extent_grow", "hpa_shard_grow"},
      {"ecache_dirty", "ecache_muzzy", "ecache_retained", "hpa_shard"}, {"hpa_central_grow"}, {"hpa_central"},
      {"edata_cache"}, {"rtree"}, {"base"}, {"large"}, {"hook"},
      {"bin"} \cup ToSet(prof_prefork1), {"tsd_nominal_tsds"}>>


ArenaLocks == ToSet(FlattenSeq(arena_prefork))

Locks ==
    (ArenaLocks \X (0 .. MaxArenas - 1))
        \cup ToSet(Global(<<"ctl", "tcaches", "arenas", "tsd_nominal_tsds">> \o prof_prefork0 \o prof_prefork1
                             \o background_thread_postfork))
        \cup (Untaken \X {-1})

Rank(lock) == LET ranks == Ranks IN CHOOSE r \in DOMAIN ranks : lock[1] \in ranks[r]

InUse == {l \in Locks : l[2] = -1 \/ l[2] \in made}

Free(lock) == lock \notin held[F] \cup held[T]

Running == [at |-> "run", todo |-> <<>>, narenas |-> 0]

Init ==
    /\ held = [who \in {F, T} |-> {}]
    /\ want = Nothing
    /\ made = {0} /\ total = NAuto
    /\ forker = Running
    /\ threads = [nthreads |-> [a \in 0 .. MaxArenas - 1 |-> IF a = 0 THEN {F, T} ELSE {}],
                  tcache_ql |-> [a \in 0 .. MaxArenas - 1 |-> IF a = 0 THEN {F, T} ELSE {}],
                  nominal |-> {F, T}]
    /\ background = [enabled |-> FALSE, at_fork |-> FALSE, running |-> FALSE]

-----------------------------------------------------------------------------
\* The other thread: it decides on a mutex of a higher rank than the one it
\* holds, takes it when it is free, and releases them together.
Alive == forker.at # "child"

witness_lock(who, lock) == \A l \in held[who] : Rank(l) < Rank(lock)

Decide ==
    /\ Alive /\ want = Nothing /\ Cardinality(held[T]) <= 1
    /\ \E lock \in InUse : witness_lock(T, lock) /\ want' = lock
    /\ UNCHANGED <<held, made, total, forker, threads, background>>

malloc_mutex_lock ==
    /\ Alive /\ want # Nothing /\ Free(want)
    /\ held' = [held EXCEPT ![T] = @ \cup {want}]
    /\ want' = Nothing
    /\ UNCHANGED <<made, total, forker, threads, background>>

malloc_mutex_unlock ==
    /\ Alive /\ want = Nothing /\ held[T] # {}
    /\ held' = [held EXCEPT ![T] = {}]
    /\ UNCHANGED <<want, made, total, forker, threads, background>>

\* Under ctl_mtx and arenas_lock: an arena there is room for, or one more;
\* the thread then moves to it.
arena_init ==
    /\ Alive /\ want = Nothing /\ held[T] = {}
    /\ Free(<<"ctl", -1>>) /\ Free(<<"arenas", -1>>)
    /\ \E a \in (0 .. total) \ made :
          /\ a < MaxArenas
          /\ a = total => LateArena \/ forker.at = "run"
          /\ made' = made \cup {a}
          /\ total' = IF a = total THEN total + 1 ELSE total
          /\ threads' = [threads EXCEPT !.nthreads = [b \in DOMAIN @ |-> IF b = a THEN {T} ELSE @[b] \ {T}],
                                        !.tcache_ql = [b \in DOMAIN @ |-> IF b = a THEN {T} ELSE @[b] \ {T}]]
    /\ UNCHANGED <<held, want, forker, background>>

background_thread_ctl ==
    /\ Alive /\ want = Nothing /\ held[T] = {} /\ "background" \in Features
    /\ Free(<<"ctl", -1>>) /\ Free(<<"background_global", -1>>) /\ Free(<<"background", -1>>)
    /\ background' = [background EXCEPT !.enabled = ~@, !.running = ~background.enabled]
    /\ UNCHANGED <<held, want, made, total, forker, threads>>

-----------------------------------------------------------------------------
\* The forking thread.  The number of arenas is read before any mutex is held.
PreforkBegin ==
    /\ forker.at = "run"
    /\ forker' = [at |-> "prefork0", todo |-> Prefork0, narenas |-> total]
    /\ UNCHANGED <<held, want, made, total, threads, background>>

Taking == forker.at \in {"prefork0", "prefork1"} /\ forker.todo # <<>>

Prefork ==
    /\ Taking /\ Free(Head(forker.todo))
    /\ held' = [held EXCEPT ![F] = @ \cup {Head(forker.todo)}]
    /\ forker' = [forker EXCEPT !.todo = Tail(@)]
    /\ background' = IF Head(forker.todo)[1] = "background_global"
                     THEN [background EXCEPT !.at_fork = background.enabled] ELSE background
    /\ UNCHANGED <<want, made, total, threads>>

\* Defect: the last arena is left out.
Found_Short(n) == SetToSortSeq(made \cap 0 .. n - 2, <)

\* The arenas are looked up once arenas_lock is held, up to the number read
\* before.
Found(n) == SetToSortSeq(made \cap 0 .. n - 1, <)

PreforkArenas ==
    /\ forker.at = "prefork0" /\ forker.todo = <<>>
    /\ forker' = [forker EXCEPT !.at = "prefork1",
                                !.todo = Prefork1(Found(forker.narenas))]
    /\ UNCHANGED <<held, want, made, total, threads, background>>

ForkCall ==
    /\ forker.at = "prefork1" /\ forker.todo = <<>>
    /\ \E side \in {"parent", "child"} :
          forker' = [forker EXCEPT !.at = side, !.todo = Postfork(SetToSortSeq(made \cap 0 .. total - 1, <))]
    /\ UNCHANGED <<held, want, made, total, threads, background>>

\* A mutex that is released is free, whoever held it.
Released(mutexes) == [who \in {F, T} |-> held[who] \ mutexes]

PostforkParent ==
    /\ forker.at = "parent"
    /\ IF forker.todo # <<>>
       THEN /\ held' = Released(ToSet(Head(forker.todo)))
            /\ forker' = [forker EXCEPT !.todo = Tail(@)]
       ELSE forker' = Running /\ UNCHANGED held
    /\ UNCHANGED <<want, made, total, threads, background>>

\* Defect: the count of threads of the parent is kept.
Recount_Kept(bound) == bound

\* Only the thread that forked is counted.
Recount(bound) == bound \cap {F}

background_thread_postfork_child(b) == IF b.at_fork THEN [b EXCEPT !.enabled = FALSE, !.running = FALSE] ELSE b

\* The child is alone, so that its handler is one step.
PostforkChild ==
    /\ forker.at = "child" /\ forker.todo # <<>>
    /\ held' = Released(ToSet(FlattenSeq(forker.todo)))
    /\ threads' = [nthreads |-> [a \in DOMAIN threads.nthreads |-> Recount(threads.nthreads[a])],
                   tcache_ql |-> [a \in DOMAIN threads.tcache_ql |-> threads.tcache_ql[a] \cap {F}],
                   nominal |-> {F}]
    /\ background' = background_thread_postfork_child(background)
    /\ forker' = [forker EXCEPT !.todo = <<>>]
    /\ UNCHANGED <<want, made, total>>

ChildGoesOn == forker.at = "child" /\ forker.todo = <<>> /\ UNCHANGED vars

Next ==
    \/ Decide \/ malloc_mutex_lock \/ malloc_mutex_unlock \/ arena_init \/ background_thread_ctl
    \/ PreforkBegin \/ Prefork \/ PreforkArenas \/ ForkCall \/ PostforkParent \/ PostforkChild \/ ChildGoesOn

Spec == Init /\ [][Next]_vars

-----------------------------------------------------------------------------
\* The forking thread and a thread that takes mutexes by rank never wait for
\* each other, and the handler itself follows the ranks.
NoDeadlock ==
    Taking =>
        /\ \A l \in held[F] : Rank(l) <= Rank(Head(forker.todo))
        /\ ~ (Head(forker.todo) \in held[T] /\ want \in held[F])

\* The parent releases what it holds and nothing else, so that no other
\* thread loses a mutex, and holds nothing when the handler is done.
ReleasedExactly ==
    /\ forker.at = "parent" /\ forker.todo # <<>> => ToSet(Head(forker.todo)) \subseteq held[F]
    /\ forker.at = "run" => held[F] = {}

\* In the child no mutex is held by a thread that is not there, no count
\* includes one, and no background thread is taken to be running.
ChildAlone ==
    forker.at = "child" /\ forker.todo = <<>> =>
        /\ held[F] = {} /\ held[T] = {}
        /\ \A a \in made : threads.nthreads[a] \subseteq {F} /\ threads.tcache_ql[a] \subseteq {F}
        /\ ~background.enabled /\ ~background.running
=============================================================================
