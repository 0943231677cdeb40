-------------------------------- MODULE Prof --------------------------------
(***************************************************************************)
(* The bookkeeping of the heap profiler: jemalloc/src/prof_data.c with the *)
(* sampling entry points of prof.c.  A sampled object is counted in a tctx *)
(* (one per thread and backtrace).  A tctx hangs in two places: in the     *)
(* table bt2tctx of the tdata of the thread that allocated, and in the     *)
(* tree of the gctx of its backtrace.  Objects may be freed by any thread, *)
(* threads exit, a dump walks everything, a reset expires the tdatas, and  *)
(* each structure is destroyed by whoever takes its last reference.        *)
(*                                                                         *)
(* A step is a region under one leaf lock (tdata->lock or gctx->lock); the *)
(* three locks that are held across regions are variables.  What a thread  *)
(* still has to do is the sequence call[t].steps.  The dump and log files,       *)
(* prof_accum, prof_recent, prof_gdump and prof_interval are off, as by    *)
(* default, so a tctx counts the current objects only.                     *)
(***************************************************************************)
EXTENDS Naturals, Sequences, FiniteSets, FiniteSetsExt

CONSTANTS
    Threads, NoThread,
    Bts,                    \* backtraces
    NGctx, NTctx, NTdata,   \* structures that can exist at a time
    MaxObjs,                \* sampled objects that can be live at a time
    QuietReset              \* no sampled object is freed while prof.reset runs

VARIABLES
    bt2gctx,    \* backtrace -> gctx
    gctx, tctx, tdata,
    tsd,        \* thread -> its tdata
    call,       \* thread -> steps left of the call it is in, and its locals
    mtx,        \* owner of prof_dump_mtx, tdatas_mtx, bt2gctx_mtx
    dump,       \* progress of the dump or reset under prof_dump_mtx
    lost        \* history: gctxs whose limbo count was never given back

vars == <<bt2gctx, gctx, tctx, tdata, tsd, call, mtx, dump, lost>>

Null == 0
NoGctx == [nlimbo |-> 0, tctxs |-> {}, sum |-> 0, live |-> FALSE]
NoTctx == [tdata |-> Null, gctx |-> Null, cur |-> 0, prepared |-> FALSE,
           state |-> "freed", dumped |-> 0]
NoTdata == [live |-> FALSE, attached |-> FALSE, expired |-> FALSE,
            bt2tctx |-> [b \in Bts |-> Null]]
NoCall == [steps |-> <<>>, bt |-> CHOOSE b \in Bts : TRUE, g |-> Null, c |-> Null, d |-> Null,
           fresh |-> FALSE]
NoDump == [left |-> {}, gctxs |-> {}, all |-> 0]

LiveGctx == {g \in 1..NGctx : gctx[g].live}
LiveTctx == {c \in 1..NTctx : tctx[c].state # "freed"}
LiveTdata == {d \in 1..NTdata : tdata[d].live}
Fresh(S) == {x \in S : \A y \in S : x <= y}
Tctxs(d) == {tdata[d].bt2tctx[b] : b \in Bts} \ {Null}
Objects == MapThenSumSet(LAMBDA c : tctx[c].cur, 1..NTctx)

Free(mutex) == mtx[mutex] = NoThread
At(t, step) == call[t].steps # <<>> /\ Head(call[t].steps) = step
Idle(t) == call[t].steps = <<>>
\* Thread t has these steps to do, with locals l; they end with the call.
Do(t, steps, l) ==
    call' = [call EXCEPT ![t] = IF steps = <<>> THEN NoCall
                                ELSE [l EXCEPT !.steps = steps]]
\* The call of t goes on with the given steps, then with what was left of it.
Go(t, steps, l) == Do(t, steps \o Tail(call[t].steps), l)
Then(t, steps) == Go(t, steps, call[t])
Return(t) == Do(t, <<>>, NoCall)

Init ==
    /\ bt2gctx = [b \in Bts |-> Null]
    /\ gctx = [g \in 1..NGctx |-> NoGctx]
    /\ tctx = [c \in 1..NTctx |-> NoTctx]
    /\ tdata = [d \in 1..NTdata |-> NoTdata]
    /\ tsd = [t \in Threads |-> Null]
    /\ call = [t \in Threads |-> NoCall]
    /\ mtx = [m \in {"dump", "tdatas", "bt2gctx"} |-> NoThread]
    /\ dump = NoDump
    /\ lost = {}

-----------------------------------------------------------------------------
(* The tdata of a thread.                                                  *)

\* prof_tdata_get(tsd, true), then the call that asked for it.
prof_tdata_get(t, steps, l) ==
    Do(t, (CASE tsd[t] = Null -> <<"tdata_init">>
             [] tsd[t] # Null /\ tdata[tsd[t]].expired -> <<"detach", "tdata_init">>
             [] OTHER -> <<>>) \o steps, l)

prof_tdata_init_impl(t) ==
    /\ At(t, "tdata_init") /\ Free("tdatas")
    /\ \/ \E d \in Fresh(1..NTdata \ LiveTdata) :
            /\ tdata' = [tdata EXCEPT ![d] = [NoTdata EXCEPT !.live = TRUE,
                                                             !.attached = TRUE]]
            /\ tsd' = [tsd EXCEPT ![t] = d]
            /\ Then(t, <<>>)
       \/ Return(t) /\ UNCHANGED <<tdata, tsd>>        \* out of memory
    /\ UNCHANGED <<bt2gctx, gctx, tctx, mtx, dump, lost>>

\* Thread exit, and the first half of prof_tdata_reinit.
prof_tdata_detach(t) ==
    LET d == tsd[t]
        destroy == Tctxs(d) = {}
    IN  /\ At(t, "detach")
        /\ tdata' = [tdata EXCEPT ![d].attached = destroy]
        /\ tsd' = [tsd EXCEPT ![t] = Null]
        /\ Go(t, IF destroy THEN <<"tdata_destroy">> ELSE <<>>, [call[t] EXCEPT !.d = d])
        /\ UNCHANGED <<bt2gctx, gctx, tctx, mtx, dump, lost>>

prof_tdata_destroy(t) ==
    /\ At(t, "tdata_destroy") /\ Free("tdatas")
    /\ tdata' = [tdata EXCEPT ![call[t].d] = NoTdata]
    /\ Then(t, <<>>)
    /\ UNCHANGED <<bt2gctx, gctx, tctx, tsd, mtx, dump, lost>>

prof_tdata_cleanup(t) ==
    /\ Idle(t) /\ tsd[t] # Null
    /\ Do(t, <<"detach">>, NoCall)
    /\ UNCHANGED <<bt2gctx, gctx, tctx, tdata, tsd, mtx, dump, lost>>

-----------------------------------------------------------------------------
(* Destruction of tctxs and gctxs.                                         *)

\* Defect: a gctx only the caller refers to is not recognised.
prof_gctx_should_destroy_Limbo(g) == g.tctxs = {} /\ g.nlimbo = 1
prof_gctx_should_destroy(g) == g.tctxs = {} /\ g.nlimbo = 0

\* Defect: a tctx a thread is about to count in is destroyed.
prof_tctx_should_destroy_Prepared(c) == c.cur = 0
prof_tctx_should_destroy(c) == c.cur = 0 /\ ~c.prepared

\* prof_tctx_try_destroy on the updated tctx x, with its tdata->lock held; when
\* it goes, this is prof_tctx_destroy up to the release of that lock.
prof_tctx_try_destroy(t, c, x) ==
    LET d == x.tdata
        table == [b \in Bts |-> IF tdata[d].bt2tctx[b] = c THEN Null
                                ELSE tdata[d].bt2tctx[b]]
        last == ~tdata[d].attached /\ \A b \in Bts : table[b] = Null
    IN  IF prof_tctx_should_destroy(x)
        THEN /\ tctx' = [tctx EXCEPT ![c] = [x EXCEPT !.tdata = Null]]
             /\ tdata' = [tdata EXCEPT ![d].bt2tctx = table]
             /\ Do(t, (IF last THEN <<"tdata_destroy">> ELSE <<>>) \o <<"unlink">>,
                   [call[t] EXCEPT !.c = c, !.g = x.gctx, !.d = d])
        ELSE /\ tctx' = [tctx EXCEPT ![c] = x]
             /\ Return(t)
             /\ UNCHANGED tdata

\* The second half of prof_tctx_destroy, under gctx->lock.
prof_tctx_destroy(t) ==
    LET c == call[t].c
        g == call[t].g
        rest == [gctx[g] EXCEPT !.tctxs = @ \ {c}]
        last == prof_gctx_should_destroy(rest)
    IN  /\ At(t, "unlink")
        /\ IF tctx[c].state = "dumping"
           THEN /\ tctx' = [tctx EXCEPT ![c].state = "purgatory"]
                /\ Then(t, <<>>)
                /\ UNCHANGED gctx
           ELSE /\ tctx' = [tctx EXCEPT ![c] = NoTctx]
                /\ gctx' = [gctx EXCEPT ![g] =
                       IF last THEN [rest EXCEPT !.nlimbo = @ + 1] ELSE rest]
                /\ Then(t, IF last THEN <<"gctx_destroy">> ELSE <<>>)
        /\ UNCHANGED <<bt2gctx, tdata, tsd, mtx, dump, lost>>

prof_gctx_try_destroy(t) ==
    LET g == call[t].g
    IN  /\ At(t, "gctx_destroy") /\ Free("bt2gctx")
        /\ IF gctx[g].tctxs = {} /\ gctx[g].nlimbo = 1
           THEN /\ bt2gctx' = [b \in Bts |-> IF bt2gctx[b] = g THEN Null
                                             ELSE bt2gctx[b]]
                /\ gctx' = [gctx EXCEPT ![g] = NoGctx]
           ELSE /\ gctx' = [gctx EXCEPT ![g].nlimbo = @ - 1]
                /\ UNCHANGED bt2gctx
        /\ Then(t, <<>>)
        /\ UNCHANGED <<tctx, tdata, tsd, mtx, dump, lost>>

-----------------------------------------------------------------------------
(* Sampling an allocation and freeing a sampled object.                    *)

prof_tctx_create(t) ==
    /\ Idle(t)
    /\ \E b \in Bts : prof_tdata_get(t, <<"lookup">>, [NoCall EXCEPT !.bt = b])
    /\ UNCHANGED <<bt2gctx, gctx, tctx, tdata, tsd, mtx, dump, lost>>

\* prof_lookup in the cache of the thread.
prof_lookup(t) ==
    LET c == tdata[tsd[t]].bt2tctx[call[t].bt]
    IN  /\ At(t, "lookup")
        /\ IF c # Null
           THEN /\ tctx' = [tctx EXCEPT ![c].prepared = TRUE]
                /\ Go(t, <<"prepared">>, [call[t] EXCEPT !.c = c])
           ELSE Then(t, <<"global">>) /\ UNCHANGED tctx
        /\ UNCHANGED <<bt2gctx, gctx, tdata, tsd, mtx, dump, lost>>

\* prof_lookup_global: the first search under bt2gctx_mtx.
prof_lookup_global(t) ==
    LET g == bt2gctx[call[t].bt]
    IN  /\ At(t, "global") /\ Free("bt2gctx")
        /\ IF g # Null
           THEN /\ gctx' = [gctx EXCEPT ![g].nlimbo = @ + 1]
                /\ Go(t, <<"link">>, [call[t] EXCEPT !.g = g, !.fresh = FALSE])
           ELSE Then(t, <<"create">>) /\ UNCHANGED gctx
        /\ UNCHANGED <<bt2gctx, tctx, tdata, tsd, mtx, dump, lost>>

prof_gctx_create(t) ==
    /\ At(t, "create")
    /\ \/ \E g \in Fresh(1..NGctx \ LiveGctx) :
            /\ gctx' = [gctx EXCEPT ![g] = [NoGctx EXCEPT !.live = TRUE, !.nlimbo = 1]]
            /\ Go(t, <<"insert">>, [call[t] EXCEPT !.g = g])
       \/ Return(t) /\ UNCHANGED gctx        \* out of memory
    /\ UNCHANGED <<bt2gctx, tctx, tdata, tsd, mtx, dump, lost>>

\* prof_lookup_global: the second search, which may lose the race to insert.
prof_gctx_insert(t) ==
    LET b == call[t].bt
        mine == call[t].g
        g == bt2gctx[b]
    IN  /\ At(t, "insert") /\ Free("bt2gctx")
        /\ \/ /\ g = Null
              /\ bt2gctx' = [bt2gctx EXCEPT ![b] = mine]
              /\ Go(t, <<"link">>, [call[t] EXCEPT !.fresh = TRUE])
              /\ UNCHANGED gctx
           \/ /\ g = Null                               \* out of memory
              /\ gctx' = [gctx EXCEPT ![mine] = NoGctx]
              /\ Return(t)
              /\ UNCHANGED bt2gctx
           \/ /\ g # Null
              /\ gctx' = [gctx EXCEPT ![mine] = NoGctx, ![g].nlimbo = @ + 1]
              /\ Go(t, <<"link">>, [call[t] EXCEPT !.g = g, !.fresh = FALSE])
              /\ UNCHANGED bt2gctx
        /\ UNCHANGED <<tctx, tdata, tsd, mtx, dump, lost>>

\* prof_lookup: a new tctx enters bt2tctx under tdata->lock.
prof_tctx_link(t) ==
    /\ At(t, "link")
    /\ \/ \E c \in Fresh(1..NTctx \ LiveTctx) :
            /\ tctx' = [tctx EXCEPT ![c] = [NoTctx EXCEPT
                   !.tdata = tsd[t], !.gctx = call[t].g,
                   !.prepared = TRUE, !.state = "initializing"]]
            /\ tdata' = [tdata EXCEPT ![tsd[t]].bt2tctx[call[t].bt] = c]
            /\ Go(t, <<"nominal">>, [call[t] EXCEPT !.c = c])
            /\ UNCHANGED <<gctx, lost>>
       \/ \* Out of memory.  The leak of nlimbo is bounded to one per gctx.
          /\ lost' = IF call[t].fresh THEN lost ELSE lost \cup {call[t].g}
          /\ gctx' = [gctx EXCEPT ![call[t].g].nlimbo =
                         IF ~call[t].fresh /\ call[t].g \in lost THEN @ - 1 ELSE @]
          /\ Then(t, IF call[t].fresh THEN <<"gctx_destroy">> ELSE <<>>)
          /\ UNCHANGED <<tctx, tdata>>
    /\ UNCHANGED <<bt2gctx, tsd, mtx, dump>>

\* prof_lookup: the tctx enters the tree of its gctx under gctx->lock.
prof_tctx_nominal(t) ==
    LET c == call[t].c
        g == call[t].g
    IN  /\ At(t, "nominal")
        /\ tctx' = [tctx EXCEPT ![c].state = "nominal"]
        /\ gctx' = [gctx EXCEPT ![g].tctxs = @ \cup {c}, ![g].nlimbo = @ - 1]
        /\ Then(t, <<"prepared">>)
        /\ UNCHANGED <<bt2gctx, tdata, tsd, mtx, dump, lost>>

prof_malloc_sample_object(t) ==
    /\ At(t, "prepared") /\ Objects < MaxObjs
    /\ tctx' = [tctx EXCEPT ![call[t].c].cur = @ + 1, ![call[t].c].prepared = FALSE]
    /\ Then(t, <<>>)
    /\ UNCHANGED <<bt2gctx, gctx, tdata, tsd, mtx, dump, lost>>

prof_alloc_rollback(t) ==
    /\ At(t, "prepared")
    /\ prof_tctx_try_destroy(t, call[t].c, [tctx[call[t].c] EXCEPT !.prepared = FALSE])
    /\ UNCHANGED <<bt2gctx, gctx, tsd, mtx, dump, lost>>

\* Any thread frees an object counted in tctx c.
prof_free_sampled_object(t, c) ==
    /\ Idle(t) /\ tctx[c].cur > 0
    /\ QuietReset => \A u \in Threads : ~At(u, "reset")
    /\ prof_tctx_try_destroy(t, c, [tctx[c] EXCEPT !.cur = @ - 1])
    /\ UNCHANGED <<bt2gctx, gctx, tsd, mtx, dump, lost>>

-----------------------------------------------------------------------------
(* A dump, under prof_dump_mtx.                                            *)

prof_dump(t) ==
    /\ Idle(t)
    /\ prof_tdata_get(t, <<"dump">>, NoCall)
    /\ UNCHANGED <<bt2gctx, gctx, tctx, tdata, tsd, mtx, dump, lost>>

prof_dump_lock(t) ==
    /\ At(t, "dump") /\ Free("dump")
    /\ mtx' = [mtx EXCEPT !["dump"] = t]
    /\ Then(t, <<"dump_prep">>)
    /\ UNCHANGED <<bt2gctx, gctx, tctx, tdata, tsd, dump, lost>>

prof_dump_prep(t) ==
    /\ At(t, "dump_prep") /\ Free("bt2gctx")
    /\ mtx' = [mtx EXCEPT !["bt2gctx"] = t]
    /\ dump' = [NoDump EXCEPT !.left = {bt2gctx[b] : b \in Bts} \ {Null}]
    /\ Then(t, <<"gctx_prep">>)
    /\ UNCHANGED <<bt2gctx, gctx, tctx, tdata, tsd, lost>>

prof_dump_gctx_prep(t) ==
    /\ At(t, "gctx_prep")
    /\ \E g \in dump.left :
        /\ gctx' = [gctx EXCEPT ![g].nlimbo = @ + 1, ![g].sum = 0]
        /\ dump' = [dump EXCEPT !.left = @ \ {g}, !.gctxs = @ \cup {g}]
    /\ UNCHANGED <<bt2gctx, tctx, tdata, tsd, call, mtx, lost>>

\* All gctxs are in limbo: on to the tdatas, under tdatas_mtx.
prof_dump_tdatas(t) ==
    /\ At(t, "gctx_prep") /\ dump.left = {} /\ Free("tdatas")
    /\ mtx' = [mtx EXCEPT !["tdatas"] = t]
    /\ dump' = [dump EXCEPT !.left = LiveTdata]
    /\ Then(t, <<"tdata_merge">>)
    /\ UNCHANGED <<bt2gctx, gctx, tctx, tdata, tsd, lost>>

\* What a dump captures of tctx c.
prof_tctx_merge_tdata(c) == [tctx[c] EXCEPT !.state = "dumping", !.dumped = tctx[c].cur]

prof_tdata_merge_iter(t) ==
    /\ At(t, "tdata_merge")
    /\ \E d \in dump.left :
        LET taken == IF tdata[d].expired THEN {}
                     ELSE {c \in Tctxs(d) : tctx[c].state = "nominal"}
        IN  /\ tctx' = [c \in 1..NTctx |->
                    IF c \in taken THEN prof_tctx_merge_tdata(c) ELSE tctx[c]]
            /\ dump' = [dump EXCEPT !.left = @ \ {d},
                    !.all = @ + MapThenSumSet(LAMBDA c : tctx[c].cur, taken)]
    /\ UNCHANGED <<bt2gctx, gctx, tdata, tsd, call, mtx, lost>>

prof_dump_gctxs(t) ==
    /\ At(t, "tdata_merge") /\ dump.left = {}
    /\ mtx' = [mtx EXCEPT !["tdatas"] = NoThread]
    /\ dump' = [dump EXCEPT !.left = dump.gctxs]
    /\ Then(t, <<"gctx_merge">>)
    /\ UNCHANGED <<bt2gctx, gctx, tctx, tdata, tsd, lost>>

\* Defect: a tctx destroyed since it was captured is left out.
Captured_Live(c) == tctx[c].state = "dumping"
Captured(c) == tctx[c].state \in {"dumping", "purgatory"}

\* prof_gctx_merge_iter with prof_tctx_merge_iter.
prof_gctx_merge_iter(t) ==
    /\ At(t, "gctx_merge")
    /\ \E g \in dump.left :
        /\ gctx' = [gctx EXCEPT ![g].sum = @ + MapThenSumSet(LAMBDA c : tctx[c].dumped,
               {c \in gctx[g].tctxs : Captured(c)})]
        /\ dump' = [dump EXCEPT !.left = @ \ {g}]
    /\ UNCHANGED <<bt2gctx, tctx, tdata, tsd, call, mtx, lost>>

\* prof_dump_prep is over: the header and the gctxs are printed.
prof_dump_print(t) ==
    /\ At(t, "gctx_merge") /\ dump.left = {}
    /\ mtx' = [mtx EXCEPT !["bt2gctx"] = NoThread]
    /\ Then(t, <<"print">>)
    /\ UNCHANGED <<bt2gctx, gctx, tctx, tdata, tsd, dump, lost>>

prof_dump_printed(t) ==
    /\ At(t, "print")
    /\ dump' = [dump EXCEPT !.left = dump.gctxs]
    /\ Then(t, <<"finish">>)
    /\ UNCHANGED <<bt2gctx, gctx, tctx, tdata, tsd, mtx, lost>>

\* What becomes of tctx c when its gctx g is finished.
prof_tctx_finish_iter(c, g) ==
    CASE c \notin gctx[g].tctxs -> tctx[c]
      [] tctx[c].state = "purgatory" -> NoTctx
      [] tctx[c].state = "dumping" -> [tctx[c] EXCEPT !.state = "nominal", !.dumped = 0]
      [] OTHER -> tctx[c]

prof_gctx_finish(t) ==
    /\ At(t, "finish")
    /\ \E g \in dump.left :
        LET dead == {c \in gctx[g].tctxs : tctx[c].state = "purgatory"}
            rest == [gctx[g] EXCEPT !.tctxs = @ \ dead, !.nlimbo = @ - 1, !.sum = 0]
            last == prof_gctx_should_destroy(rest)
        IN  /\ tctx' = [c \in 1..NTctx |-> prof_tctx_finish_iter(c, g)]
            /\ gctx' = [gctx EXCEPT ![g] =
                   IF last THEN [rest EXCEPT !.nlimbo = @ + 1] ELSE rest]
            /\ dump' = [dump EXCEPT !.left = @ \ {g}, !.gctxs = @ \ {g}]
            /\ Go(t, (IF last THEN <<"gctx_destroy">> ELSE <<>>) \o <<"finish">>,
                  [call[t] EXCEPT !.g = g])
    /\ UNCHANGED <<bt2gctx, tdata, tsd, mtx, lost>>

prof_dump_unlock(t) ==
    /\ At(t, "finish") /\ dump.left = {}
    /\ mtx' = [mtx EXCEPT !["dump"] = NoThread]
    /\ dump' = NoDump
    /\ Then(t, <<>>)
    /\ UNCHANGED <<bt2gctx, gctx, tctx, tdata, tsd, lost>>

-----------------------------------------------------------------------------
(* prof.reset: every tdata expires.                                        *)

prof_reset(t) ==
    /\ Idle(t) /\ Free("dump") /\ Free("tdatas")
    /\ QuietReset => \A u \in Threads : ~At(u, "tdata_destroy")
    /\ mtx' = [mtx EXCEPT !["dump"] = t, !["tdatas"] = t]
    /\ dump' = [NoDump EXCEPT !.left = LiveTdata]
    /\ Do(t, <<"reset">>, NoCall)
    /\ UNCHANGED <<bt2gctx, gctx, tctx, tdata, tsd, lost>>

\* prof_tdata_expire, and prof_tdata_destroy_locked for one nobody needs.
prof_tdata_expire(t) ==
    /\ At(t, "reset")
    /\ \E d \in dump.left :
        /\ tdata' = [tdata EXCEPT ![d] =
               IF ~@.expired /\ ~@.attached /\ Tctxs(d) = {} THEN NoTdata
               ELSE [@ EXCEPT !.expired = TRUE]]
        /\ dump' = [dump EXCEPT !.left = @ \ {d}]
    /\ UNCHANGED <<bt2gctx, gctx, tctx, tsd, call, mtx, lost>>

prof_reset_unlock(t) ==
    /\ At(t, "reset") /\ dump.left = {}
    /\ mtx' = [mtx EXCEPT !["dump"] = NoThread, !["tdatas"] = NoThread]
    /\ Then(t, <<>>)
    /\ UNCHANGED <<bt2gctx, gctx, tctx, tdata, tsd, dump, lost>>

-----------------------------------------------------------------------------
Sampling(t) ==
    \/ prof_tctx_create(t) \/ prof_lookup(t) \/ prof_lookup_global(t)
    \/ prof_gctx_create(t) \/ prof_gctx_insert(t) \/ prof_tctx_link(t)
    \/ prof_tctx_nominal(t) \/ prof_malloc_sample_object(t) \/ prof_alloc_rollback(t)
    \/ \E c \in 1..NTctx : prof_free_sampled_object(t, c)

Destroying(t) ==
    \/ prof_tctx_destroy(t) \/ prof_gctx_try_destroy(t)
    \/ prof_tdata_destroy(t) \/ prof_tdata_detach(t)

Dumping(t) ==
    \/ prof_dump(t) \/ prof_dump_lock(t) \/ prof_dump_prep(t) \/ prof_dump_gctx_prep(t)
    \/ prof_dump_tdatas(t) \/ prof_tdata_merge_iter(t) \/ prof_dump_gctxs(t)
    \/ prof_gctx_merge_iter(t) \/ prof_dump_print(t) \/ prof_dump_printed(t)
    \/ prof_gctx_finish(t) \/ prof_dump_unlock(t)

Resetting(t) == prof_reset(t) \/ prof_tdata_expire(t) \/ prof_reset_unlock(t)

Next == \E t \in Threads :
    \/ Sampling(t) \/ Destroying(t) \/ Dumping(t) \/ Resetting(t)
    \/ prof_tdata_init_impl(t) \/ prof_tdata_cleanup(t)

Spec == Init /\ [][Next]_vars

-----------------------------------------------------------------------------
Pending(t, step) == \E i \in DOMAIN call[t].steps : call[t].steps[i] = step

\* Everything a thread is going to touch exists: the tctx it will count in or
\* unlink, the gctx it holds in limbo, the tdata it will destroy, the gctxs and
\* tdatas a dump or a reset still has to visit.  These are the races the nlimbo,
\* prepared, purgatory and even_if_attached rules of prof_data.c are there for.
HeldAlive ==
    /\ \A t \in Threads :
        /\ tsd[t] # Null => tdata[tsd[t]].live
        /\ Pending(t, "tdata_destroy") =>
            tdata[call[t].d].live /\ Tctxs(call[t].d) = {}
        /\ At(t, "unlink") \/ (Pending(t, "unlink") /\ ~At(t, "gctx_destroy")) =>
            tctx[call[t].c].state \in {"nominal", "dumping"}
        /\ At(t, "nominal") => tctx[call[t].c].state = "initializing"
        /\ At(t, "prepared") => tctx[call[t].c].prepared /\ tctx[call[t].c].tdata # Null
        /\ \A s \in {"link", "nominal", "insert", "gctx_destroy"} :
            At(t, s) => gctx[call[t].g].live /\ gctx[call[t].g].nlimbo > 0
        /\ Pending(t, "unlink") => gctx[call[t].g].live
    /\ dump.gctxs \subseteq LiveGctx
    /\ \A t \in Threads : At(t, "tdata_merge") \/ At(t, "reset") => dump.left \subseteq LiveTdata
    /\ \A c \in LiveTctx : tctx[c].gctx \in LiveGctx
    /\ \A c \in 1..NTctx : tctx[c].cur > 0 => tctx[c].tdata \in LiveTdata

\* Nothing outlives its last user: with no call in progress every gctx has a
\* tctx in its tree and is found by its backtrace, every tctx counts a live object
\* and every tdata belongs to a thread or still has tctxs.  The exception is a gctx
\* in `lost`: when the allocation of a tctx for an existing gctx fails,
\* prof_lookup returns without taking nlimbo back.
NoLeak ==
    (\A t \in Threads : Idle(t)) =>
        /\ \A g \in LiveGctx \ lost : gctx[g].tctxs # {} /\ gctx[g].nlimbo = 0
        /\ \A g \in LiveGctx : \E b \in Bts : bt2gctx[b] = g
        /\ \A c \in LiveTctx : tctx[c].cur > 0 /\ c \in gctx[tctx[c].gctx].tctxs
        /\ \A d \in LiveTdata : Tctxs(d) # {} \/ \E t \in Threads : tsd[t] = d

\* A dump is consistent although threads sample, free and exit while it runs: the
\* total of its header, summed over threads, is the total of the lines it prints,
\* summed over backtraces.
DumpAddsUp ==
    \A t \in Threads : At(t, "print") =>
        dump.all = MapThenSumSet(LAMBDA g : gctx[g].sum, dump.gctxs)
=============================================================================
