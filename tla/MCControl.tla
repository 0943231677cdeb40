------------------------------ MODULE MCControl ----------------------------
(***************************************************************************)
(* How jemalloc is started and controlled: malloc_init (Boot), the options *)
(* (Conf), the names of mallctl (Names) and the arenas it creates, resets  *)
(* and destroys (Arenas), each on its own.  A behaviour is one of one      *)
(* component, named by which; the variables of the others keep their       *)
(* initial values.                                                         *)
(***************************************************************************)
EXTENDS Boot, TLC

CONSTANTS t1, t2, Nil

VARIABLES which, x1, x2, x3, x4, x5, x6, x7, x8, x9

Rest7 == <<x7, x8, x9>>
xs == <<x1, x2, x3, x4, x5, x6, Rest7>>
allVars == <<which, vars, xs>>

\* One size class of each kind, and ctl_arenas->narenas up to two.
Tree == INSTANCE Names
    WITH NSizes <- 1, MaxArenas <- 2,
         name <- x1, at <- x2, mib <- x3, arenas <- x4, config <- x5, answer <- x6

\* One option of each kind, from three of the sources, in strings of at most two pairs.
Options == INSTANCE Conf
    WITH Watch <- {"retain", "metadata_thp", "percpu_arena", "narenas", "stats_print_opts", "bin_shards",
                   "narenas_ratio", "tcache_max", "hpa_hugification_threshold", "dirty_decay_ms",
                   "tcache_gc_incr_bytes", "slab_sizes", "prof_prefix", "prof_leak_error", "junk",
                   "lg_san_uaf_align", "oversize_threshold", "hpa_dirty_mult", "san_guard_small"},
         Given <- {1, 3, 4}, MaxPairs <- 2, Config <- {"fill", "prof", "uaf_detection", "dss", "thp"},
         strings <- x1, watched <- x2, val <- x3, flags <- x4, at <- x5, shown <- x6

Ctl == INSTANCE Arenas
    WITH Threads <- {t1, t2}, NAuto <- 1, Limit <- 3, MaxMallocs <- 1, MaxGen <- 2, Unordered <- {},
         arenas <- x1, narenas_total <- x2, gens <- x3, ctl <- x4, ctl_mtx <- x5, tsd <- x6, call <- x7,
         ever <- x8

-----------------------------------------------------------------------------
NoRest7 == x7 = Nil /\ x8 = Nil /\ x9 = Nil
NoRest1 == x1 = Nil /\ x2 = Nil /\ x3 = Nil /\ x4 = Nil /\ x5 = Nil /\ x6 = Nil /\ NoRest7

AllInit ==
    /\ Init
    /\ \/ which = "boot" /\ NoRest1
       \/ which = "conf" /\ Options!Init /\ NoRest7
       \/ which = "names" /\ Tree!Init /\ NoRest7
       \/ which = "arenas" /\ Ctl!Init /\ x9 = Nil

BootNext == which = "boot" /\ Next /\ UNCHANGED <<which, xs>>
ConfNext == which = "conf" /\ Options!Next /\ UNCHANGED <<which, vars, Rest7>>
NamesNext == which = "names" /\ Tree!Next /\ UNCHANGED <<which, vars, Rest7>>
ArenasNext == which = "arenas" /\ Ctl!Next /\ UNCHANGED <<which, vars, x9>>

\* Threads make a bounded number of calls of malloc_init.
Stops == which = "boot" /\ UNCHANGED allVars

AllNext == BootNext \/ ConfNext \/ NamesNext \/ ArenasNext \/ Stops

AllSpec == AllInit /\ [][AllNext]_allVars

Symmetry == Permutations({t1, t2})

-----------------------------------------------------------------------------
(* Properties: that of Boot by its own name, and the others.               *)

\* jemalloc.c malloc_conf_init: the last valid value given wins, an invalid pair
\* ends the process under abort_conf, and confirm_conf prints what was read.
ConfRight == which = "conf" => Options!LastWins /\ Options!InvalidFatal /\ Options!ConfirmShowsAll

\* ctl.c: a name is found exactly if it is in the tree, a mib leads where its
\* name did, and a handler that changes something answers for it.
NamesRight == which = "names" => Tree!Found /\ Tree!LookupAgrees /\ Tree!EffectsAnswered

\* ctl.c, arena.c, tcache.c: threads and caches are counted and linked where
\* they are bound, the merged statistics add up, and no index is in use twice.
ArenasRight ==
    which = "arenas" => Ctl!NthreadsExact /\ Ctl!CachesLinked /\ Ctl!ReportAddsUp /\ Ctl!IndicesOnce
=============================================================================
