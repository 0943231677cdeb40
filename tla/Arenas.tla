------------------------------- MODULE Arenas -------------------------------
(***************************************************************************)
(* The life of arenas in jemalloc: automatic arenas that threads choose     *)
(* (jemalloc.c), the huge arena (arena.c), arenas that mallctl creates,     *)
(* resets and destroys (ctl.c), the threads and thread caches bound to      *)
(* them, and the statistics that are merged when they are read and when an  *)
(* arena goes away.                                                         *)
(*                                                                         *)
(* An arena is known by its index and by gen, the number of the arena among *)
(* those that had the index: a pointer to an arena that was destroyed has   *)
(* a gen that is not there any more. Of the statistics nmalloc, ndalloc and *)
(* nrequests are kept; nrequests is counted in the thread cache first.      *)
(***************************************************************************)
EXTENDS Integers, Sequences, FiniteSets, FiniteSetsExt

CONSTANTS Threads,
          NAuto,        \* narenas_auto
          Limit,        \* MALLOCX_ARENA_LIMIT
          MaxMallocs,   \* bound on allocations
          MaxGen,       \* bound on arenas per index
          Unordered     \* what the application does not order after a destroy

VARIABLES arenas,         \* arenas[], an arena or NoArena for each index
          narenas_total,
          gens,           \* how many arenas each index has had
          ctl,            \* ctl_arenas: narenas, destroyed, the merged statistics
          ctl_mtx,        \* the thread that holds it, or NoThread
          tsd,            \* per thread: arena, iarena, its cache's arena and count
          call,           \* per thread: the call under way
          ever            \* allocations so far

vars == <<arenas, narenas_total, gens, ctl, ctl_mtx, tsd, call, ever>>

Inds == 0 .. Limit - 1
huge_arena_ind == NAuto
manual_arena_base == NAuto + 1
NoArena == [gen |-> 0]
NoPtr == [ind |-> -1, gen |-> 0]
NoThread == "none"
NoCall == [op |-> "none"]
Zero == [nmalloc |-> 0, ndalloc |-> 0, nrequests |-> 0]
NoTsd == [arena |-> NoPtr, iarena |-> NoPtr, cached |-> NoPtr, nrequests |-> 0]

arena_get(i) == arenas[i]
Exists(i) == arena_get(i) # NoArena
arena_is_auto(i) == i < manual_arena_base
Ptr(i) == [ind |-> i, gen |-> arenas[i].gen]
Live(p) == p # NoPtr /\ arenas[p.ind].gen = p.gen

Add(a, b) == [nmalloc |-> a.nmalloc + b.nmalloc, ndalloc |-> a.ndalloc + b.ndalloc,
              nrequests |-> a.nrequests + b.nrequests]
StatsOf(a) == [nmalloc |-> a.nmalloc, ndalloc |-> a.ndalloc, nrequests |-> a.nrequests]

-----------------------------------------------------------------------------
(* Arenas on tables "as" (arenas[]) and "ts" (the threads' tsd) *)

arena_new(g) ==
  [gen |-> g, nthreads |-> [internal \in BOOLEAN |-> 0], tcache_ql |-> {},
   nmalloc |-> 0, ndalloc |-> 0, nrequests |-> 0]

(* Room for one more: the model bounds how often an index is used. *)
CanInit(i) == i < Limit /\ gens[i] < MaxGen

(* Makes the arena unless another thread did. *)
arena_init_locked(as, i) ==
  IF as[i] # NoArena THEN as ELSE [as EXCEPT ![i] = arena_new(gens[i] + 1)]

Counted(as) == [i \in Inds |-> IF as[i] = NoArena THEN gens[i]
                               ELSE as[i].gen]

arena_nthreads_inc(as, i, internal) == [as EXCEPT ![i].nthreads[internal] = @ + 1]

tcache_arena_associate(as, t, i) == [as EXCEPT ![i].tcache_ql = @ \cup {t}]

(* Defect: the arena that a thread leaves keeps counting it. *)
arena_nthreads_dec_None(as, i, internal) == as

arena_nthreads_dec(as, i, internal) == [as EXCEPT ![i].nthreads[internal] = @ - 1]

(* Defect: the cache of t stays on the list of the arena it leaves. *)
tcache_arena_dissociate_Linked(as, t, i) ==
  [as EXCEPT ![i].nrequests = @ + tsd[t].nrequests]

(* Unlinks the cache of t and merges its statistics into the arena it leaves. *)
tcache_arena_dissociate(as, t, i) ==
  [as EXCEPT ![i].tcache_ql = @ \ {t}, ![i].nrequests = @ + tsd[t].nrequests]

(* The first of the automatic arenas with the fewest threads *)
Least(as, internal) ==
  CHOOSE i \in 0 .. NAuto - 1 :
    /\ as[i] # NoArena
    /\ \A k \in 0 .. NAuto - 1 : as[k] # NoArena =>
         \/ as[i].nthreads[internal] < as[k].nthreads[internal]
         \/ as[i].nthreads[internal] = as[k].nthreads[internal] /\ i <= k

first_null == Min({i \in 1 .. NAuto - 1 : ~Exists(i)} \cup {NAuto})

(* Where to bind: an unloaded arena, else one that is not there yet, else the
   least loaded one. *)
Chosen(internal) ==
  LET c == Least(arenas, internal)
  IN IF arenas[c].nthreads[internal] = 0 \/ first_null = NAuto THEN c ELSE first_null

Idle(t) == call[t] = NoCall
Bound(t) == tsd[t].arena # NoPtr

(* arena_choose_hard for both bindings of a thread, and the thread cache is
   linked to the arena. *)
arena_choose_hard(t) ==
  /\ Idle(t) /\ ~Bound(t)
  /\ LET c == Chosen(FALSE)
         ic == Chosen(TRUE)
         as == arena_init_locked(arena_init_locked(arenas, c), ic)
         bound == arena_nthreads_inc(arena_nthreads_inc(as, c, FALSE), ic, TRUE)
     IN /\ arenas' = tcache_arena_associate(bound, t, c)
        /\ gens' = Counted(as)
        /\ tsd' = [tsd EXCEPT ![t] = [arena |-> [ind |-> c, gen |-> as[c].gen],
                                      iarena |-> [ind |-> ic, gen |-> as[ic].gen],
                                      cached |-> [ind |-> c, gen |-> as[c].gen],
                                      nrequests |-> 0]]
  /\ UNCHANGED <<narenas_total, ctl, ctl_mtx, call, ever>>

-----------------------------------------------------------------------------
(* Allocation *)

Allocate(t, i, as) ==
  /\ arenas' = [as EXCEPT ![i].nmalloc = @ + 1]
  /\ tsd' = [tsd EXCEPT ![t].nrequests = @ + 1]
  /\ ever' = ever + 1
  /\ UNCHANGED <<narenas_total, ctl, ctl_mtx, call>>

Malloc(t) ==
  /\ Idle(t) /\ Bound(t) /\ ever < MaxMallocs
  /\ Allocate(t, tsd[t].arena.ind, arenas) /\ UNCHANGED gens

(* An allocation above oversize_threshold goes to the huge arena. *)
arena_choose_huge(t) ==
  /\ Idle(t) /\ Bound(t) /\ ever < MaxMallocs
  /\ LET as == arena_init_locked(arenas, huge_arena_ind)
     IN Allocate(t, huge_arena_ind, as) /\ gens' = Counted(as)

Free(t, i) ==
  /\ Idle(t) /\ Bound(t) /\ Exists(i) /\ arenas[i].ndalloc < arenas[i].nmalloc
  /\ arenas' = [arenas EXCEPT ![i].ndalloc = @ + 1]
  /\ UNCHANGED <<narenas_total, gens, ctl, ctl_mtx, tsd, call, ever>>

-----------------------------------------------------------------------------
(* thread.arena: no lock is held over the three parts. *)

(* The application keeps its threads away from an arena it destroys: nothing
   under way names it. *)
Names(c, i) == c.op \in {"destroy", "migrate", "reassociate", "exit"} /\ c.ind = i
Ordered(i) == \A t \in Threads : ~Names(call[t], i)

thread_arena_ctl(t, i) ==
  /\ Idle(t) /\ Bound(t) /\ i # tsd[t].arena.ind /\ i < narenas_total
  /\ Exists(i) \/ CanInit(i)
  /\ Exists(i) \/ arena_is_auto(i) \/ "revive" \in Unordered
  /\ Ordered(i)
  /\ LET as == arena_init_locked(arenas, i)
     IN arenas' = as /\ gens' = Counted(as)
  /\ call' = [call EXCEPT ![t] = [op |-> "migrate", ind |-> i]]
  /\ UNCHANGED <<narenas_total, ctl, ctl_mtx, tsd, ever>>

arena_migrate(t) ==
  /\ call[t].op = "migrate"
  /\ LET i == call[t].ind
         old == tsd[t].arena.ind
     IN /\ arenas' = arena_nthreads_inc(arena_nthreads_dec(arenas, old, FALSE), i, FALSE)
        /\ tsd' = [tsd EXCEPT ![t].arena = Ptr(i)]
        /\ call' = [call EXCEPT ![t] = [op |-> "reassociate", ind |-> old]]
  /\ UNCHANGED <<narenas_total, gens, ctl, ctl_mtx, ever>>

tcache_arena_reassociate(t) ==
  /\ call[t].op = "reassociate"
  /\ arenas' = tcache_arena_associate(
                 tcache_arena_dissociate(arenas, t, tsd[t].cached.ind), t, tsd[t].arena.ind)
  /\ tsd' = [tsd EXCEPT ![t].cached = tsd[t].arena, ![t].nrequests = 0]
  /\ call' = [call EXCEPT ![t] = NoCall]
  /\ UNCHANGED <<narenas_total, gens, ctl, ctl_mtx, ever>>

(* A thread exits: iarena_cleanup and arena_cleanup come before
   tcache_cleanup. *)
arena_cleanup(t) ==
  /\ Idle(t) /\ Bound(t)
  /\ arenas' = arena_nthreads_dec(
                 arena_nthreads_dec(arenas, tsd[t].iarena.ind, TRUE), tsd[t].arena.ind, FALSE)
  /\ tsd' = [tsd EXCEPT ![t].arena = NoPtr, ![t].iarena = NoPtr]
  /\ call' = [call EXCEPT ![t] = [op |-> "exit", ind |-> tsd[t].arena.ind]]
  /\ UNCHANGED <<narenas_total, gens, ctl, ctl_mtx, ever>>

tcache_cleanup(t) ==
  /\ call[t].op = "exit"
  /\ arenas' = tcache_arena_dissociate(arenas, t, tsd[t].cached.ind)
  /\ tsd' = [tsd EXCEPT ![t] = NoTsd]
  /\ call' = [call EXCEPT ![t] = NoCall]
  /\ UNCHANGED <<narenas_total, gens, ctl, ctl_mtx, ever>>

-----------------------------------------------------------------------------
(* mallctl *)

Free_ctl == ctl_mtx = NoThread

(* Defect: the index stays on the list. *)
Without_Kept(d) == d

(* The list of destroyed arenas without the one that is used again *)
Without(d) == SubSeq(d, 1, Len(d) - 1)

(* arenas.create: the index destroyed last is used again. When no arena can
   be made the index is lost, and narenas_total stays advanced. *)
ctl_arena_init(t) ==
  LET again == ctl.destroyed # <<>>
      i == IF again THEN ctl.destroyed[Len(ctl.destroyed)] ELSE ctl.narenas
      left == IF again THEN Without(ctl.destroyed) ELSE <<>>
  IN /\ Idle(t) /\ Bound(t) /\ Free_ctl /\ i < Limit
     /\ narenas_total' = IF i = narenas_total THEN i + 1 ELSE narenas_total
     /\ \/ /\ Exists(i) \/ CanInit(i)
           /\ LET as == arena_init_locked(arenas, i)
              IN arenas' = as /\ gens' = Counted(as)
           /\ ctl' = [ctl EXCEPT !.destroyed = left, !.reused = Exists(i),
                                 !.narenas = IF i = @ THEN i + 1 ELSE @]
        \/ /\ ~Exists(i)
           /\ ctl' = [ctl EXCEPT !.destroyed = left]
           /\ UNCHANGED <<arenas, gens>>
     /\ UNCHANGED <<ctl_mtx, tsd, call, ever>>

(* arena.<i>.destroy, as far as the check that no thread is bound *)
arena_i_destroy_ctl(t, i) ==
  /\ Idle(t) /\ Bound(t) /\ Free_ctl
  /\ Ordered(i)
  /\ "decay" \in Unordered \/ \A u \in Threads : call[u].op # "decay"
  /\ Exists(i) /\ ~arena_is_auto(i)
  /\ \A internal \in BOOLEAN : arenas[i].nthreads[internal] = 0
  /\ ctl_mtx' = t
  /\ call' = [call EXCEPT ![t] = [op |-> "destroy", ind |-> i]]
  /\ UNCHANGED <<arenas, narenas_total, gens, ctl, tsd, ever>>

(* arena_reset frees whatever is allocated. *)
arena_reset(a) == [a EXCEPT !.ndalloc = a.nmalloc]

(* Defect: the statistics are merged before the arena is reset. *)
DestroyedStats_Early(a) == StatsOf(a)

(* What is merged into the statistics of destroyed arenas *)
DestroyedStats(a) == StatsOf(arena_reset(a))

arena_destroy(t) ==
  /\ call[t].op = "destroy"
  /\ LET i == call[t].ind
     IN /\ ctl' = [ctl EXCEPT !.dstats = Add(@, DestroyedStats(arenas[i])),
                              !.destroyed = Append(@, i)]
        /\ arenas' = [arenas EXCEPT ![i] = NoArena]
  /\ ctl_mtx' = NoThread
  /\ call' = [call EXCEPT ![t] = NoCall]
  /\ UNCHANGED <<narenas_total, gens, tsd, ever>>

(* arena.<i>.reset: the application uses nothing of the arena meanwhile. *)
arena_i_reset_ctl(t, i) ==
  /\ Idle(t) /\ Bound(t) /\ Ordered(i)
  /\ Exists(i) /\ ~arena_is_auto(i)
  /\ arenas' = [arenas EXCEPT ![i] = arena_reset(@)]
  /\ UNCHANGED <<narenas_total, gens, ctl, ctl_mtx, tsd, call, ever>>

(* epoch: the arenas are noted and then read one by one, under ctl_mtx. *)
ctl_refresh(t) ==
  /\ Idle(t) /\ Bound(t) /\ Free_ctl
  /\ ctl_mtx' = t
  /\ call' = [call EXCEPT ![t] = [op |-> "refresh", sum |-> Zero, since |-> ever,
                                  left |-> {Ptr(i) : i \in {k \in 0 .. ctl.narenas - 1 : Exists(k)}}]]
  /\ UNCHANGED <<arenas, narenas_total, gens, ctl, tsd, ever>>

(* The report at exit: what the caches have counted is merged first. *)
stats_print_atexit(t) ==
  /\ Idle(t) /\ Bound(t) /\ Free_ctl
  /\ arenas' = [i \in Inds |-> IF ~Exists(i) THEN NoArena ELSE
                 [arenas[i] EXCEPT !.nrequests = @ + MapThenSumSet(LAMBDA u : tsd[u].nrequests,
                                                                   arenas[i].tcache_ql)]]
  /\ tsd' = [u \in Threads |-> [tsd[u] EXCEPT !.nrequests = 0]]
  /\ UNCHANGED <<narenas_total, gens, ctl, ctl_mtx, call, ever>>

ctl_arena_refresh(t) ==
  /\ call[t].op = "refresh"
  /\ LET p == CHOOSE q \in call[t].left : \A r \in call[t].left : q.ind <= r.ind
         sum == Add(call[t].sum, StatsOf(arenas[p.ind]))
     IN call' = [call EXCEPT ![t] =
                   IF @.left = {p} THEN [op |-> "report", live |-> sum, since |-> @.since]
                   ELSE [@ EXCEPT !.left = @ \ {p}, !.sum = sum]]
  /\ UNCHANGED <<arenas, narenas_total, gens, ctl, ctl_mtx, tsd, ever>>

(* The handlers of stats.* read what was merged under the same lock. *)
Report(t) ==
  /\ call[t].op = "report"
  /\ ctl_mtx' = NoThread
  /\ call' = [call EXCEPT ![t] = NoCall]
  /\ UNCHANGED <<arenas, narenas_total, gens, ctl, tsd, ever>>

(* arena.<MALLCTL_ARENAS_ALL>.decay and .purge: ctl_mtx is released before the
   arenas are purged. *)
arena_i_decay(t) ==
  /\ Idle(t) /\ Bound(t) /\ Free_ctl
  /\ call' = [call EXCEPT ![t] = [op |-> "decay",
                left |-> {Ptr(i) : i \in {k \in 0 .. ctl.narenas - 1 : Exists(k)}}]]
  /\ UNCHANGED <<arenas, narenas_total, gens, ctl, ctl_mtx, tsd, ever>>

arena_decay(t) ==
  /\ call[t].op = "decay"
  /\ call' = [call EXCEPT ![t] = NoCall]
  /\ UNCHANGED <<arenas, narenas_total, gens, ctl, ctl_mtx, tsd, ever>>

-----------------------------------------------------------------------------

(* After malloc_init_narenas and ctl_init: arena 0 is there. *)
ctl_init(n) == [narenas |-> n, destroyed |-> <<>>, dstats |-> Zero, reused |-> FALSE]

Init ==
  /\ arenas = [i \in Inds |-> IF i = 0 THEN arena_new(1) ELSE NoArena]
  /\ gens = [i \in Inds |-> IF i = 0 THEN 1 ELSE 0]
  /\ narenas_total = manual_arena_base
  /\ ctl = ctl_init(manual_arena_base)
  /\ ctl_mtx = NoThread
  /\ tsd = [t \in Threads |-> NoTsd]
  /\ call = [t \in Threads |-> NoCall]
  /\ ever = 0

Next ==
  \E t \in Threads :
    \/ arena_choose_hard(t) \/ Malloc(t) \/ arena_choose_huge(t)
    \/ \E i \in Inds : Free(t, i) \/ thread_arena_ctl(t, i)
                       \/ arena_i_destroy_ctl(t, i) \/ arena_i_reset_ctl(t, i)
    \/ arena_migrate(t) \/ tcache_arena_reassociate(t)
    \/ arena_cleanup(t) \/ tcache_cleanup(t)
    \/ ctl_arena_init(t) \/ arena_destroy(t)
    \/ ctl_refresh(t) \/ stats_print_atexit(t) \/ ctl_arena_refresh(t)
    \/ Report(t)
    \/ arena_i_decay(t) \/ arena_decay(t)

Spec == Init /\ [][Next]_vars

-----------------------------------------------------------------------------
(* Properties *)

(* An arena counts exactly the threads that are bound to it, and what a thread
   is bound to has not been destroyed: a count that is too low lets
   arena.<i>.destroy free an arena in use, one too high keeps it for ever. *)
NthreadsExact ==
  /\ \A i \in Inds : Exists(i) =>
       /\ arenas[i].nthreads[FALSE] = Cardinality({t \in Threads : tsd[t].arena = Ptr(i)})
       /\ arenas[i].nthreads[TRUE] = Cardinality({t \in Threads : tsd[t].iarena = Ptr(i)})
  /\ \A t \in Threads : \A p \in {tsd[t].arena, tsd[t].iarena} \ {NoPtr} : Live(p)

(* Each thread cache is on the list of one arena, the one it remembers, and
   that arena exists: it is flushed and its counts are merged there. *)
CachesLinked ==
  /\ \A t \in Threads : tsd[t].cached # NoPtr => Live(tsd[t].cached)
  /\ \A i \in Inds : Exists(i) =>
       arenas[i].tcache_ql = {t \in Threads : tsd[t].cached = Ptr(i)}

(* Statistics survive their arena: what a report shows for the live and for
   the destroyed arenas together is what was allocated, give or take what
   happened while it was read, nothing of a destroyed arena is still
   allocated, and no request is counted twice. *)
ReportAddsUp ==
  \A t \in Threads : call[t].op = "report" =>
    LET all == Add(call[t].live, ctl.dstats)
    IN /\ all.nmalloc \in call[t].since .. ever
       /\ ctl.dstats.nmalloc = ctl.dstats.ndalloc
       /\ all.nrequests <= ever

(* An index that arenas.create may hand out again belongs to no arena and is
   kept once. *)
IndicesOnce ==
  /\ \A k \in DOMAIN ctl.destroyed :
       ~Exists(ctl.destroyed[k])
       /\ \A m \in DOMAIN ctl.destroyed : ctl.destroyed[k] = ctl.destroyed[m] => k = m

(* arenas.create returns the index of "a new arena": nobody has been using the
   arena it names. *)
CreateIsNew == ~ctl.reused

(* What a decay of all arenas still has to purge exists: "No further need to
   hold ctl_mtx, since narenas and tarenas contain everything needed below." *)
DecayLive ==
  \A t \in Threads : call[t].op = "decay" => \A p \in call[t].left : Live(p)
=============================================================================
