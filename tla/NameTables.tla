------------------------------ MODULE NameTables -----------------------------
(***************************************************************************)
(* The tables of mallctl (jemalloc/src/ctl.c): the tree of names, the steps *)
(* each handler goes through, and what has to be compiled in for it.        *)
(***************************************************************************)
EXTENDS Integers, Sequences, TLC

(* The tables of ctl.c, one sequence of names each. An entry n of table t is
   the table t_n if there is one (CHILD) and otherwise the handler t_n (CTL). *)
ThreadTables ==
  [thread |-> <<"arena", "allocated", "allocatedp", "deallocated",
      "deallocatedp", "tcache", "peak", "prof", "idle">>,
   thread_tcache |-> <<"enabled", "flush">>,
   thread_peak |-> <<"read", "reset">>,
   thread_prof |-> <<"name", "active">>]

ConfigTables ==
  [config |-> <<"cache_oblivious", "debug", "fill", "lazy_lock",
      "malloc_conf", "opt_safety_checks", "prof", "prof_libgcc",
      "prof_libunwind", "stats", "utrace", "xmalloc">>]

OptTables ==
  [opt |-> <<"abort", "abort_conf", "cache_oblivious", "trust_madvise",
      "confirm_conf", "hpa", "hpa_slab_max_alloc",
      "hpa_hugification_threshold", "hpa_hugify_delay_ms",
      "hpa_min_purge_interval_ms", "hpa_dirty_mult", "hpa_sec_nshards",
      "hpa_sec_max_alloc", "hpa_sec_max_bytes", "hpa_sec_bytes_after_flush",
      "hpa_sec_batch_fill_extra", "metadata_thp", "retain", "dss",
      "narenas", "percpu_arena", "oversize_threshold", "mutex_max_spin",
      "background_thread", "max_background_threads", "dirty_decay_ms",
      "muzzy_decay_ms", "stats_print", "stats_print_opts", "stats_interval",
      "stats_interval_opts", "junk", "zero", "utrace", "xmalloc",
      "experimental_infallible_new", "tcache", "tcache_max",
      "tcache_nslots_small_min", "tcache_nslots_small_max",
      "tcache_nslots_large", "lg_tcache_nslots_mul", "tcache_gc_incr_bytes",
      "tcache_gc_delay_bytes", "lg_tcache_flush_small_div",
      "lg_tcache_flush_large_div", "thp", "lg_extent_max_active_fit",
      "prof", "prof_prefix", "prof_active", "prof_thread_active_init",
      "lg_prof_sample", "lg_prof_interval", "prof_gdump", "prof_final",
      "prof_leak", "prof_leak_error", "prof_accum", "prof_recent_alloc_max",
      "prof_stats", "prof_sys_thread_name", "prof_time_resolution",
      "lg_san_uaf_align", "zero_realloc">>]

ArenaTables ==
  [tcache |-> <<"create", "flush", "destroy">>,
   arena_i |-> <<"initialized", "decay", "purge", "reset", "destroy", "dss",
      "oversize_threshold", "dirty_decay_ms", "muzzy_decay_ms",
      "extent_hooks", "retain_grow_limit">>,
   arenas |-> <<"narenas", "dirty_decay_ms", "muzzy_decay_ms", "quantum",
      "page", "tcache_max", "nbins", "nhbins", "bin", "nlextents",
      "lextent", "create", "lookup">>,
   arenas_bin_i |-> <<"size", "nregs", "slab_size", "nshards">>,
   arenas_lextent_i |-> <<"size">>]

ProfTables ==
  [prof |-> <<"thread_active_init", "active", "dump", "gdump", "prefix",
      "reset", "interval", "lg_sample", "log_start", "log_stop", "stats">>,
   prof_stats |-> <<"bins", "lextents">>,
   prof_stats_bins_i |-> <<"live", "accum">>,
   prof_stats_lextents_i |-> <<"live", "accum">>]

StatsArenaTables ==
  [stats_arenas_i |-> <<"nthreads", "uptime", "dss", "dirty_decay_ms",
      "muzzy_decay_ms", "pactive", "pdirty", "pmuzzy", "mapped", "retained",
      "extent_avail", "dirty_npurge", "dirty_nmadvise", "dirty_purged",
      "muzzy_npurge", "muzzy_nmadvise", "muzzy_purged", "base", "internal",
      "metadata_thp", "tcache_bytes", "tcache_stashed_bytes", "resident",
      "abandoned_vm", "hpa_sec_bytes", "small", "large", "bins", "lextents",
      "extents", "mutexes", "hpa_shard">>,
   stats_arenas_i_small |-> <<"allocated", "nmalloc", "ndalloc",
      "nrequests", "nfills", "nflushes">>,
   stats_arenas_i_large |-> <<"allocated", "nmalloc", "ndalloc",
      "nrequests", "nfills", "nflushes">>,
   stats_arenas_i_bins_j |-> <<"nmalloc", "ndalloc", "nrequests", "curregs",
      "nfills", "nflushes", "nslabs", "nreslabs", "curslabs",
      "nonfull_slabs", "mutex">>,
   stats_arenas_i_lextents_j |-> <<"nmalloc", "ndalloc", "nrequests",
      "curlextents">>,
   stats_arenas_i_extents_j |-> <<"ndirty", "nmuzzy", "nretained",
      "dirty_bytes", "muzzy_bytes", "retained_bytes">>]

HpaTables ==
  [stats_arenas_i_hpa_shard |-> <<"full_slabs", "empty_slabs",
      "nonfull_slabs", "npurge_passes", "npurges", "nhugifies",
      "ndehugifies">>,
   stats_arenas_i_hpa_shard_full_slabs |-> <<"npageslabs_nonhuge",
      "npageslabs_huge", "nactive_nonhuge", "nactive_huge",
      "ndirty_nonhuge", "ndirty_huge">>,
   stats_arenas_i_hpa_shard_empty_slabs |-> <<"npageslabs_nonhuge",
      "npageslabs_huge", "nactive_nonhuge", "nactive_huge",
      "ndirty_nonhuge", "ndirty_huge">>,
   stats_arenas_i_hpa_shard_nonfull_slabs_j |-> <<"npageslabs_nonhuge",
      "npageslabs_huge", "nactive_nonhuge", "nactive_huge",
      "ndirty_nonhuge", "ndirty_huge">>]

StatsTables ==
  [stats |-> <<"allocated", "active", "metadata", "metadata_thp",
      "resident", "mapped", "retained", "background_thread", "mutexes",
      "arenas", "zero_reallocs">>,
   stats_background_thread |-> <<"num_threads", "num_runs", "run_interval">>]

ExperimentalTables ==
  [experimental |-> <<"hooks", "utilization", "arenas", "arenas_create_ext",
      "prof_recent", "batch_alloc", "thread">>,
   experimental_hooks |-> <<"install", "remove", "prof_backtrace",
      "prof_dump", "safety_check_abort">>,
   experimental_thread |-> <<"activity_callback">>,
   experimental_utilization |-> <<"query", "batch_query">>,
   experimental_arenas_i |-> <<"pactivep">>,
   experimental_prof_recent |-> <<"alloc_max", "alloc_dump">>]

RootTables ==
  [root |-> <<"version", "epoch", "background_thread",
      "max_background_threads", "thread", "config", "opt", "tcache",
      "arena", "arenas", "prof", "stats", "experimental">>]

MutexCounters ==
  <<"num_ops", "num_wait", "num_spin_acq", "num_owner_switch",
    "total_wait_time", "max_wait_time", "max_num_thds">>

GlobalMutexes ==
  <<"background_thread", "max_per_bg_thd", "ctl", "prof", "prof_thds_data",
    "prof_dump", "prof_recent_alloc", "prof_recent_dump", "prof_stats">>

ArenaMutexes ==
  <<"large", "extent_avail", "extents_dirty", "extents_muzzy",
    "extents_retained", "decay_dirty", "decay_muzzy", "base", "tcache_list",
    "hpa_shard", "hpa_shard_grow", "hpa_sec">>

Elements(s) == {s[k] : k \in DOMAIN s}

(* MUTEX_PROF_DATA_NODE: one table of counters for each mutex. *)
MutexTables ==
  [stats_mutexes |-> GlobalMutexes \o <<"reset">>,
   stats_arenas_i_mutexes |-> ArenaMutexes]
  @@ [t \in {"stats_mutexes_" \o m : m \in Elements(GlobalMutexes)}
            \cup {"stats_arenas_i_mutexes_" \o m : m \in Elements(ArenaMutexes)}
            \cup {"stats_arenas_i_bins_j_mutex"} |-> MutexCounters]

Tables ==
  RootTables @@ ThreadTables @@ ConfigTables @@ OptTables @@ ArenaTables
  @@ ProfTables @@ StatsArenaTables @@ HpaTables @@ MutexTables
  @@ StatsTables @@ ExperimentalTables

(* The tables with an index in place of names, and the node each index has. *)
Indexed ==
  [arena |-> "arena_i", arenas_bin |-> "arenas_bin_i",
   arenas_lextent |-> "arenas_lextent_i",
   prof_stats_bins |-> "prof_stats_bins_i",
   prof_stats_lextents |-> "prof_stats_lextents_i",
   stats_arenas |-> "stats_arenas_i",
   stats_arenas_i_bins |-> "stats_arenas_i_bins_j",
   stats_arenas_i_lextents |-> "stats_arenas_i_lextents_j",
   stats_arenas_i_extents |-> "stats_arenas_i_extents_j",
   stats_arenas_i_hpa_shard_nonfull_slabs |->
     "stats_arenas_i_hpa_shard_nonfull_slabs_j",
   experimental_arenas |-> "experimental_arenas_i"]

ctl_named_node(node) == node \in DOMAIN Tables
ctl_indexed_node(node) == node \in DOMAIN Indexed
Leaf(node) == ~ctl_named_node(node) /\ ~ctl_indexed_node(node)

(* Every name that stands in some table. *)
EntryNames == UNION {Elements(Tables[t]) : t \in DOMAIN Tables}

(* The node of entry n of a named table. *)
ctl_named_children(node, n) == IF node = "root" THEN n ELSE node \o "_" \o n

-----------------------------------------------------------------------------
(* Handlers. Each one is the sequence of its checks and steps: the macros of
   ctl.c, "set" for what it does with a new value, "do" for what it does on
   every call. *)

(* Defect: the caller's buffer is checked only when the index is read. *)
CreateSteps_Unverified == <<"WRITE", "do", "READ">>

CreateSteps == <<"VERIFY_READ", "WRITE", "do", "READ">>

Creating == {"arenas_create", "experimental_arenas_create_ext",
             "tcache_create", "experimental_batch_alloc"}

(* CTL_RO_GEN and its variants *)
ReadOnly == <<"READONLY", "READ">>
SetThenRead == <<"WRITE", "set", "READ">>
ReadThenSet == <<"READ", "WRITE", "set">>
JustDo == <<"NEITHER", "do">>
WriteAndDo == <<"WRITEONLY", "WRITE", "do">>
AssuredWrite == <<"WRITEONLY", "ASSURED_WRITE", "do">>

(* A setting of the profiler that is compiled in but not on *)
ProfSet == <<"OPT_PROF", "WRITE", "set", "READ">>

GlobalSteps ==
  [epoch |-> SetThenRead, background_thread |-> <<"WRITE", "READ", "set">>,
   max_background_threads |-> <<"WRITE", "READ", "set">>]

ThreadSteps ==
  [thread_arena |-> <<"WRITE", "READ", "set">>, thread_tcache_enabled |-> SetThenRead,
   thread_tcache_flush |-> JustDo, thread_peak_reset |-> JustDo]

ThreadProfSteps ==
  [thread_prof_name |-> <<"XOR", "WRITE", "set", "READ">>,
   thread_prof_active |-> ProfSet, thread_idle |-> JustDo]

TcacheSteps ==
  [tcache_create |-> <<"READONLY", "VERIFY_READ", "do", "READ">>,
   tcache_flush |-> AssuredWrite, tcache_destroy |-> AssuredWrite]

ArenaSteps ==
  [arena_i_decay |-> JustDo, arena_i_purge |-> JustDo, arena_i_reset |-> JustDo,
   arena_i_destroy |-> JustDo]

ArenaSettingSteps ==
  [arena_i_dss |-> SetThenRead, arena_i_oversize_threshold |-> ReadThenSet,
   arena_i_dirty_decay_ms |-> ReadThenSet, arena_i_muzzy_decay_ms |-> ReadThenSet]

(* The hooks of an arena that does not exist yet are read before the arena is
   made; those of an arena that does are set before the old ones are read. *)
ArenaHookSteps == [arena_i_retain_grow_limit |-> SetThenRead,
                   arena_i_extent_hooks |-> SetThenRead]
NewArenaHookSteps == [arena_i_extent_hooks |-> ReadThenSet]

ArenasSteps ==
  [arenas_dirty_decay_ms |-> ReadThenSet, arenas_muzzy_decay_ms |-> ReadThenSet,
   arenas_create |-> CreateSteps, experimental_arenas_create_ext |-> CreateSteps,
   arenas_lookup |-> <<"WRITE", "do", "READ">>]

ProfSteps ==
  [prof_thread_active_init |-> ProfSet, prof_dump |-> WriteAndDo,
   prof_active |-> <<"WRITE", "OPT_PROF", "set", "READ">>, prof_gdump |-> ProfSet]

ProfControlSteps ==
  [prof_prefix |-> WriteAndDo, prof_reset |-> WriteAndDo,
   prof_log_start |-> WriteAndDo, prof_log_stop |-> <<"do">>,
   experimental_hooks_prof_backtrace |-> <<"SOME", "READ", "OPT_PROF", "WRITE", "set">>,
   experimental_hooks_prof_dump |-> <<"SOME", "READ", "OPT_PROF", "WRITE", "set">>,
   experimental_hooks_safety_check_abort |-> WriteAndDo]

StatsSteps == [stats_mutexes_reset |-> <<"do">>]

HookSteps ==
  [experimental_hooks_install |-> <<"ALL", "WRITE", "do", "READ">>,
   experimental_hooks_remove |-> WriteAndDo,
   experimental_thread_activity_callback |-> ReadThenSet]

QuerySteps ==
  [experimental_utilization_query |-> <<"ALL", "EXACT", "WRITE", "do">>]

ExperimentalSteps ==
  [experimental_utilization_batch_query |-> <<"ALL", "EXACT", "WRITE", "do">>,
   experimental_arenas_i_pactivep |-> <<"EXACT", "READONLY", "READ">>,
   experimental_prof_recent_alloc_max |-> SetThenRead,
   experimental_prof_recent_alloc_dump |-> AssuredWrite,
   experimental_batch_alloc |-> <<"VERIFY_READ", "ASSURED_WRITE", "do", "READ">>]

Written ==
  {GlobalSteps, ThreadSteps, ThreadProfSteps, TcacheSteps, ArenaSteps,
   ArenaSettingSteps, ArenaHookSteps, NewArenaHookSteps, ArenasSteps,
   ProfSteps, ProfControlSteps, StatsSteps, HookSteps, QuerySteps,
   ExperimentalSteps}

(* The steps a handler may go through; those not written out read a value. *)
Steps(h) ==
  LET own == {f \in Written : h \in DOMAIN f}
  IN IF own = {} THEN {ReadOnly} ELSE {f[h] : f \in own}

-----------------------------------------------------------------------------
(* What is compiled in: the entry is in the tree in any case, and its handler
   answers ENOENT. *)

HasPrefix(p, h) == Len(h) >= Len(p) /\ SubSeq(h, 1, Len(p)) = p

OptGates ==
  [opt_junk |-> "fill", opt_zero |-> "fill", opt_utrace |-> "utrace",
   opt_xmalloc |-> "xmalloc", opt_experimental_infallible_new |-> "enable_cxx",
   opt_lg_prof_sample |-> "prof", opt_lg_prof_interval |-> "prof",
   opt_lg_san_uaf_align |-> "uaf_detection"]

StatsUngated ==
  {"stats_arenas_i_" \o n : n \in {"dss", "dirty_decay_ms", "muzzy_decay_ms",
     "nthreads", "uptime", "pactive", "pdirty", "pmuzzy"}}

StatsGated(h) == HasPrefix("stats_", h) /\ h \notin StatsUngated

SizeStatsGated(h) ==
  \E t \in {"bins_j_", "lextents_j_", "extents_j_", "hpa_shard_"} :
    HasPrefix("stats_arenas_i_" \o t, h)

(* These work without the profiler, or only refuse to be set. *)
OptProfLater == {"prof_active", "prof_thread_active_init", "prof_gdump",
                 "prof_interval", "prof_lg_sample"}

Gate(h) ==
  CASE h \in DOMAIN OptGates -> OptGates[h]
    [] HasPrefix("opt_prof", h) -> "prof"
    [] h \in {"background_thread", "max_background_threads"} -> "background_thread"
    [] HasPrefix("thread_peak_", h) -> "stats"
    [] h \in {"experimental_thread_activity_callback", "experimental_arenas_i_pactivep"}
         -> "stats"
    [] StatsGated(h) \/ SizeStatsGated(h) -> "stats"
    [] h \in OptProfLater \cup {"thread_prof_active"} -> "prof"
    [] HasPrefix("prof_stats_", h) -> "prof_stats"
    [] HasPrefix("prof_", h) \/ HasPrefix("experimental_prof_recent_", h)
         \/ h = "thread_prof_name" -> "opt_prof"
    [] OTHER -> "always"
-----------------------------------------------------------------------------
(* A call: is there a buffer to read into, *oldlenp (-1 without oldlenp), is
   there a new value, newlen. A value has size 2. *)
Calls == {c \in [oldp : BOOLEAN, oldlen : {-1, 1, 2}, newp : BOOLEAN, newlen : {0, 2, 3}] :
            c.newp \/ c.newlen # 3}
Size == 2
=============================================================================
