------------------------------- MODULE Hpa --------------------------------
(* The hugepage allocator of one jemalloc arena: src/hpa.c, the metadata of a *)
(* hugepage in src/hpdata.c and the index over the hugepages in src/psset.c.  *)
(*                                                                            *)
(* A hugepage ("pageslab") has P pages; a bitmap (internal/fb.h) is the set   *)
(* of its set bits.  Up to eight pages every page count is a size class, so   *)
(* the bin of a slab is the length of its longest free range.  Everything is  *)
(* done under the shard's mtx, which is dropped while the operating system    *)
(* purges or hugifies: one step here is what a thread does between two locks  *)
(* or unlocks.  The metadata allocator, the emap and time are external.       *)
EXTENDS Integers, Sequences, FiniteSets, SequencesExt

CONSTANTS
    Threads,
    P,           \* HUGEPAGE_PAGES
    NSlabs,      \* hugepages the operating system grants
    Sizes,       \* page counts asked for
    Batch,       \* the largest nallocs of hpa_alloc_batch
    HugifyAt,    \* hugification_threshold, in pages
    DirtyNum,    \* dirty_mult is DirtyNum / DirtyDen
    DirtyDen,
    MaxAge,      \* bound on the shard's age_counter
    MaxOps,      \* the 16 operations of hpa_shard_maybe_do_deferred_work
    Oom          \* metadata allocations may fail

VARIABLES
    hp,          \* [slab |-> the hpdata_t of each hugepage, set |-> the psset]
    grown,       \* hugepages taken from the central allocator
    age,         \* the shard's age_counter
    pending,     \* npending_purge
    deferral,    \* opts.deferral_allowed
    mtx,         \* holder of the shard's mtx: a thread or ""
    grow,        \* holder of its grow_mtx
    ext,         \* the extents handed out: [slab, at, n]
    call,        \* what each thread is doing
    up           \* the shard has not been destroyed

vars == <<hp, grown, age, pending, deferral, mtx, grow, ext, call, up>>

Slabs == 1 .. NSlabs
Pages == 0 .. P - 1

(* fb_ffs: the first set bit from i on, P when there is none; fb_fls: the     *)
(* last one up to i, -1 when there is none.                                   *)
fb_ffs(fb, i) == Min({b \in fb : b >= i} \cup {P})

fb_fls(fb, i) == Max({b \in fb : b <= i} \cup {-1})

(* fb_urange_iter: the maximal ranges of unset bits, from start on.           *)
fb_urange_iter(fb, start) ==
    {<<b, fb_ffs(fb, b) - b>> :
        b \in {c \in Pages \ fb : c >= start /\ (c = start \/ c - 1 \in fb)}}

(* The length of the longest of them.                                         *)
Longest(ranges) == Max({r[2] : r \in ranges} \cup {0})

-----------------------------------------------------------------------------
(* hpdata.c                                                                   *)

hpdata_init(a) ==
    [age |-> a, huge |-> FALSE, alloc |-> TRUE, purge |-> FALSE,
     hugify |-> FALSE, midpurge |-> FALSE, midhugify |-> FALSE, longest |-> P,
     nactive |-> 0, active |-> {}, ntouched |-> 0, touched |-> {}]

ndirty(h) == h.ntouched - h.nactive

changing(h) == h.midpurge \/ h.midhugify

(* Defect: the ranges before the chosen one are forgotten.                    *)
LongestLeft_After(h, at, n) ==
    Longest(fb_urange_iter(h.active \cup (at .. at + n - 1), at + n))

(* The longest free range once n pages at at are taken out of the longest:    *)
(* the largest range passed over, or one after it.                            *)
LongestLeft(h, at, n) ==
    Max({Longest({r \in fb_urange_iter(h.active, 0) : r[1] < at}),
         Longest(fb_urange_iter(h.active \cup (at .. at + n - 1), at + n))})

(* First fit.                                                                 *)
FirstFit(h, n) == Min({r[1] : r \in {q \in fb_urange_iter(h.active, 0) : q[2] >= n}})

hpdata_reserve_alloc(h, n) ==
    LET at    == FirstFit(h, n)
        pages == at .. at + n - 1 IN
    [h EXCEPT !.active = @ \cup pages,
              !.nactive = @ + n,
              !.ntouched = @ + Cardinality(pages \ h.touched),
              !.touched = @ \cup pages,
              !.longest = IF fb_ffs(h.active, at) - at = @
                          THEN LongestLeft(h, at, n) ELSE @]

hpdata_unreserve(h, at, n) ==
    LET active == h.active \ (at .. at + n - 1)
        range  == fb_ffs(active, at + n - 1) - (fb_fls(active, at) + 1) IN
    [h EXCEPT !.active = active, !.nactive = @ - n, !.longest = Max({@, range})]

(* Defect: gaps are filled without regard to the active pages.                *)
ToPurge_Across(h) ==
    LET dirty == h.touched \ h.active IN
    {p \in Pages : \E a, b \in dirty : a <= p /\ p <= b}

(* hpdata_purge_begin: the dirty pages, and the retained pages between two    *)
(* dirty ones with no active page between them.                               *)
ToPurge(h) ==
    LET dirty == h.touched \ h.active IN
    {p \in Pages : \E a, b \in dirty :
        a <= p /\ p <= b /\ (a .. b) \cap h.active = {}}

hpdata_purge_end(h, pages, nd) ==
    [h EXCEPT !.touched = @ \ pages, !.ntouched = @ - nd]

hpdata_hugify(h) == [h EXCEPT !.huge = TRUE, !.touched = Pages, !.ntouched = P]

(* hpdata_consistent, but for the container flag, which the psset's lists are.*)
hpdata_consistent(h) ==
    /\ h.longest = Longest(fb_urange_iter(h.active, 0))
    /\ h.nactive = Cardinality(h.active)
    /\ h.ntouched = Cardinality(h.touched)
    /\ h.ntouched >= h.nactive
    /\ h.huge => h.ntouched = P
    /\ changing(h) => ~h.purge /\ ~h.hugify

-----------------------------------------------------------------------------
(* psset.c                                                                    *)

NoStats == [n |-> 0, active |-> 0, dirty |-> 0]

Bins == 0 .. P   \* the longest free range; 0 full, P empty

psset_init ==
    [heap |-> [b \in 1 .. P - 1 |-> {}], empty |-> <<>>,
     purge |-> [i \in 0 .. 2 * P + 1 |-> <<>>], hugify |-> <<>>,
     stats |-> [b \in Bins |-> [g \in BOOLEAN |-> NoStats]], merged |-> NoStats]

(* The bin psset_stats_insert and the alloc containers choose: empty and full *)
(* slabs have their own.                                                      *)
Bin(h) == IF h.nactive = 0 THEN P ELSE IF h.nactive = P THEN 0 ELSE h.longest

psset_bin_stats_insert_remove(st, h, mul) ==
    [n |-> st.n + mul, active |-> st.active + mul * h.nactive,
     dirty |-> st.dirty + mul * ndirty(h)]

psset_stats_update(set, h, mul) ==
    [set EXCEPT !.stats[Bin(h)][h.huge] = psset_bin_stats_insert_remove(@, h, mul),
                !.merged = psset_bin_stats_insert_remove(@, h, mul)]

psset_alloc_container_insert(set, h, s) ==
    CASE Bin(h) = P -> [set EXCEPT !.empty = <<s>> \o @]
      [] Bin(h) = 0 -> set
      [] OTHER -> [set EXCEPT !.heap[Bin(h)] = @ \cup {s}]

psset_alloc_container_remove(set, h, s) ==
    CASE Bin(h) = P -> [set EXCEPT !.empty = Remove(@, s)]
      [] Bin(h) = 0 -> set
      [] OTHER -> [set EXCEPT !.heap[Bin(h)] = @ \ {s}]

(* Higher lists are purged first: the empty slabs, huge ones before others;   *)
(* then by dirtiness, huge ones after others.                                 *)
psset_purge_list_ind(h) ==
    IF h.nactive = 0 THEN 2 * P + (IF h.huge THEN 1 ELSE 0)
                     ELSE 2 * (ndirty(h) - 1) + (IF h.huge THEN 0 ELSE 1)

psset_maybe_remove_purge_list(set, h, s) ==
    IF h.purge THEN [set EXCEPT !.purge[psset_purge_list_ind(h)] = Remove(@, s)]
               ELSE set

psset_maybe_insert_purge_list(set, h, s) ==
    IF h.purge THEN [set EXCEPT !.purge[psset_purge_list_ind(h)] = Append(@, s)]
               ELSE set

psset_update_begin(set, h, s) ==
    LET unstat == psset_stats_update(set, h, -1)
        unfound == IF h.alloc THEN psset_alloc_container_remove(unstat, h, s) ELSE unstat IN
    psset_maybe_remove_purge_list(unfound, h, s)

(* Defect: the hugify list is left alone.                                     *)
HugifyList_Kept(list, h, s) == IF h.hugify /\ ~Contains(list, s) THEN Append(list, s) ELSE list

(* The hugify list stays first in, first out over the updates of a slab.      *)
HugifyList(list, h, s) ==
    IF h.hugify THEN IF Contains(list, s) THEN list ELSE Append(list, s)
                ELSE Remove(list, s)

psset_update_end(set, h, s) ==
    LET stat  == psset_stats_update(set, h, 1)
        found == IF h.alloc THEN psset_alloc_container_insert(stat, h, s) ELSE stat
        dirty == psset_maybe_insert_purge_list(found, h, s) IN
    [dirty EXCEPT !.hugify = HugifyList(@, h, s)]

(* Defect: the totals still count the slab.                                   *)
psset_remove_Counted(set, h, s) ==
    [psset_maybe_remove_purge_list(psset_alloc_container_remove(set, h, s), h, s)
        EXCEPT !.hugify = Remove(@, s)]

psset_remove(set, h, s) ==
    [psset_update_begin(set, h, s) EXCEPT !.hugify = Remove(@, s)]

(* The whole of an update of slab s to h: update_begin on the old metadata,   *)
(* update_end on the new.                                                     *)
Updated(st, s, h) ==
    [slab |-> [st.slab EXCEPT ![s] = h],
     set  |-> psset_update_end(psset_update_begin(st.set, st.slab[s], s), h, s)]

Oldest(st, ss) == CHOOSE s \in ss : \A r \in ss : st.slab[s].age <= st.slab[r].age

(* psset_pick_alloc: the oldest slab of the smallest bin that fits, else the  *)
(* last slab to become empty; 0 for NULL.                                     *)
psset_pick_alloc(st, n) ==
    LET fits == {b \in n .. P - 1 : st.set.heap[b] # {}} IN
    IF fits # {} THEN Oldest(st, st.set.heap[Min(fits)])
    ELSE IF st.set.empty # <<>> THEN Head(st.set.empty) ELSE 0

psset_pick_purge(st) ==
    LET lists == {i \in DOMAIN st.set.purge : st.set.purge[i] # <<>>} IN
    IF lists = {} THEN 0 ELSE Head(st.set.purge[Max(lists)])

psset_pick_hugify(st) == IF st.set.hugify = <<>> THEN 0 ELSE Head(st.set.hugify)

-----------------------------------------------------------------------------
(* hpa.c: policy                                                              *)

hpa_adjusted_ndirty == hp.set.merged.dirty - pending

hpa_ndirty_max == (hp.set.merged.active * DirtyNum) \div DirtyDen

hpa_hugify_blocked_by_ndirty ==
    LET s == psset_pick_hugify(hp) IN
    s # 0 /\ hpa_adjusted_ndirty + (P - hp.slab[s].ntouched) > hpa_ndirty_max

hpa_should_purge ==
    hpa_adjusted_ndirty > hpa_ndirty_max \/ hpa_hugify_blocked_by_ndirty

(* Defect: a slab that is being purged or hugified is not special.            *)
Eligible_Always(h) ==
    [h EXCEPT !.purge = ndirty(h) > 0,
              !.hugify = h.nactive # 0 /\ (@ \/ (h.nactive >= HugifyAt /\ ~h.huge))]

(* hpa_update_purge_hugify_eligibility.  A candidate for hugification stays   *)
(* one until it is purged or empty.                                           *)
Eligible(h) ==
    IF changing(h) THEN [h EXCEPT !.purge = FALSE, !.hugify = FALSE]
    ELSE [h EXCEPT !.purge = ndirty(h) > 0,
                   !.hugify = h.nactive # 0 /\ (@ \/ (h.nactive >= HugifyAt /\ ~h.huge))]

-----------------------------------------------------------------------------
Idle == [pc |-> "idle", n |-> 0, want |-> 0, stage |-> 0, forced |-> FALSE,
         ops |-> 0, purged |-> FALSE, slab |-> 0, pages |-> {}, nd |-> 0, left |-> {}]

Init ==
    /\ hp = [slab |-> [s \in Slabs |-> hpdata_init(s - 1)], set |-> psset_init]
    /\ grown = 0 /\ age = 0 /\ pending = 0
    /\ deferral \in BOOLEAN
    /\ mtx = "" /\ grow = ""
    /\ ext = {}
    /\ call = [t \in Threads |-> Idle]
    /\ up = TRUE

(* hpa_shard_maybe_do_deferred_work begins, or returns at once.               *)
Deferred(c, forced) ==
    IF ~forced /\ deferral THEN [c EXCEPT !.pc = "worked"]
    ELSE [c EXCEPT !.pc = "work", !.forced = forced, !.ops = 0, !.purged = FALSE]

hpa_alloc_batch(t, n, k) ==
    /\ up /\ call[t].pc = "idle" /\ age < MaxAge
    /\ call' = [call EXCEPT ![t] = [Idle EXCEPT !.pc = "try", !.n = n, !.want = k, !.stage = 1]]
    /\ UNCHANGED <<hp, grown, age, pending, deferral, mtx, grow, ext, up>>

(* Defect: a slab used for the first time keeps the central allocator's age.  *)
Aged_Reused(h) == IF h.nactive = 0 /\ h.ntouched > 0 THEN [h EXCEPT !.age = age] ELSE h

(* A slab that was empty is as young as the extents it will hold.             *)
Aged(h) == IF h.nactive = 0 THEN [h EXCEPT !.age = age] ELSE h

(* hpa_try_alloc_one_no_grow, in the loop of hpa_try_alloc_batch_no_grow.     *)
AllocOne(t) ==
    LET c == call[t]
        s == psset_pick_alloc(hp, c.n)
        h == Aged(hp.slab[s]) IN
    /\ c.pc = "try" /\ c.want > 0 /\ mtx \in {"", t} /\ s # 0
    /\ hp' = Updated(hp, s, Eligible(hpdata_reserve_alloc(h, c.n)))
    /\ age' = IF hp.slab[s].nactive = 0 THEN age + 1 ELSE age
    /\ ext' = ext \cup {[slab |-> s, at |-> FirstFit(h, c.n), n |-> c.n]}
    /\ call' = [call EXCEPT ![t].want = @ - 1]
    /\ mtx' = t
    /\ UNCHANGED <<grown, pending, deferral, grow, up>>

(* No metadata, or no rtree node to register the extent: the pages are given  *)
(* back but stay touched, and the slab's eligibility is not reconsidered.     *)
AllocFails(t) ==
    LET c == call[t]
        s == psset_pick_alloc(hp, c.n)
        h == Aged(hp.slab[s]) IN
    /\ Oom /\ c.pc = "try" /\ c.want > 0 /\ mtx \in {"", t}
    /\ \/ UNCHANGED <<hp, age>>
       \/ /\ s # 0
          /\ hp' = Updated(hp, s, hpdata_unreserve(hpdata_reserve_alloc(h, c.n),
                                                   FirstFit(h, c.n), c.n))
          /\ age' = IF hp.slab[s].nactive = 0 THEN age + 1 ELSE age
    /\ call' = [call EXCEPT ![t] = Deferred([c EXCEPT !.stage = 3], FALSE)]
    /\ mtx' = t
    /\ UNCHANGED <<grown, pending, deferral, grow, ext, up>>

(* The loop ends: all served, or no slab has room.                            *)
AllocEnds(t) ==
    /\ call[t].pc = "try" /\ mtx \in {"", t}
    /\ call[t].want = 0 \/ psset_pick_alloc(hp, call[t].n) = 0
    /\ call' = [call EXCEPT ![t] = Deferred(@, FALSE)]
    /\ mtx' = t
    /\ UNCHANGED <<hp, grown, age, pending, deferral, grow, ext, up>>

(* The deferred work is done: the mtx is released, and an allocation that is  *)
(* not complete goes on to grow the shard.  Stage 3 is the last try, or oom.  *)
Worked(t) ==
    /\ call[t].pc = "worked"
    /\ mtx' = ""
    /\ IF call[t].want > 0 /\ call[t].stage < 3
       THEN /\ call' = [call EXCEPT ![t] =
                   [@ EXCEPT !.pc = IF call[t].stage = 1 THEN "grow" ELSE "extract",
                             !.forced = FALSE, !.ops = 0, !.purged = FALSE]]
            /\ UNCHANGED grow
       ELSE /\ call' = [call EXCEPT ![t] = Idle]
            /\ grow' = IF grow = t THEN "" ELSE grow
    /\ UNCHANGED <<hp, grown, age, pending, deferral, ext, up>>

(* grow_mtx taken: try again, in case someone else has grown the shard.       *)
GrowLock(t) ==
    /\ call[t].pc = "grow" /\ grow = ""
    /\ grow' = t
    /\ call' = [call EXCEPT ![t].pc = "try", ![t].stage = 2]
    /\ UNCHANGED <<hp, grown, age, pending, deferral, mtx, ext, up>>

(* hpa_central_extract: the next hugepage of eden, its age from the central   *)
(* allocator's counter, or none, and the call ends.                           *)
hpa_central_extract(t) ==
    /\ call[t].pc = "extract"
    /\ \/ /\ grown < NSlabs
          /\ grown' = grown + 1
          /\ call' = [call EXCEPT ![t].pc = "insert", ![t].slab = grown + 1]
          /\ UNCHANGED grow
       \/ /\ grown = NSlabs \/ Oom
          /\ call' = [call EXCEPT ![t] = Idle]
          /\ grow' = ""
          /\ UNCHANGED grown
    /\ UNCHANGED <<hp, age, pending, deferral, mtx, ext, up>>

psset_insert(t) ==
    /\ call[t].pc = "insert" /\ mtx = ""
    /\ hp' = [hp EXCEPT !.set = psset_update_end(@, hp.slab[call[t].slab], call[t].slab)]
    /\ call' = [call EXCEPT ![t].pc = "try", ![t].stage = 3, ![t].slab = 0]
    /\ UNCHANGED <<grown, age, pending, deferral, mtx, grow, ext, up>>

(* hpa_dalloc_batch of one extent.                                            *)
hpa_dalloc(t, e) ==
    /\ up /\ call[t].pc = "idle" /\ mtx = ""
    /\ hp' = Updated(hp, e.slab, Eligible(hpdata_unreserve(hp.slab[e.slab], e.at, e.n)))
    /\ ext' = ext \ {e}
    /\ call' = [call EXCEPT ![t] = Deferred(@, FALSE)]
    /\ mtx' = t
    /\ UNCHANGED <<grown, age, pending, deferral, grow, up>>

(* hpa_shard_do_deferred_work, by a background thread or a decay of the arena.*)
hpa_shard_do_deferred_work(t) ==
    /\ up /\ call[t].pc = "idle" /\ mtx = ""
    /\ call' = [call EXCEPT ![t] = Deferred(@, TRUE)]
    /\ mtx' = t
    /\ UNCHANGED <<hp, grown, age, pending, deferral, grow, ext, up>>

hpa_shard_set_deferral_allowed(t, allowed) ==
    /\ up /\ call[t].pc = "idle" /\ mtx = ""
    /\ deferral' = allowed
    /\ IF deferral /\ ~allowed
       THEN mtx' = t /\ call' = [call EXCEPT ![t] = Deferred(@, TRUE)]
       ELSE UNCHANGED <<mtx, call>>
    /\ UNCHANGED <<hp, grown, age, pending, grow, ext, up>>

-----------------------------------------------------------------------------
(* hpa_shard_maybe_do_deferred_work                                           *)

OpsLeft(t) == call[t].forced \/ call[t].ops < MaxOps

(* The inner loop goes on.  When it does and there is nothing to purge, the   *)
(* thread turns in it for ever, with the mtx: no step of it is enabled.       *)
Purging(t) == hpa_should_purge /\ OpsLeft(t)

(* Defect: the slab can still serve allocations while it is purged.           *)
MidPurge_Served(h) == [h EXCEPT !.midpurge = TRUE, !.purge = FALSE, !.hugify = FALSE]

(* Nobody may purge, hugify or allocate from a slab that is being purged.     *)
MidPurge(h) == [h EXCEPT !.midpurge = TRUE, !.purge = FALSE, !.hugify = FALSE, !.alloc = FALSE]

(* hpa_try_purge up to its unlock.                                            *)
PurgeBegin(t) ==
    LET s == psset_pick_purge(hp)
        h == hp.slab[s] IN
    /\ call[t].pc = "work" /\ Purging(t) /\ s # 0
    /\ hp' = Updated(hp, s, MidPurge(h))
    /\ pending' = pending + ndirty(h)
    /\ call' = [call EXCEPT ![t].pc = "purge", ![t].slab = s, ![t].nd = ndirty(h),
                            ![t].pages = ToPurge(h), ![t].left = ToPurge(h)]
    /\ mtx' = ""
    /\ UNCHANGED <<grown, age, deferral, grow, ext, up>>

(* hpdata_purge_next, and the purge of that range, without the mtx.           *)
hpdata_purge_next(t) ==
    LET from == Min(call[t].left)
        to   == fb_ffs(Pages \ call[t].left, from) - 1 IN
    /\ call[t].pc = "purge" /\ call[t].left # {}
    /\ call' = [call EXCEPT ![t].left = @ \ (from .. to)]
    /\ UNCHANGED <<hp, grown, age, pending, deferral, mtx, grow, ext, up>>

(* Defect: the pages counted are those purged.                                *)
Purged_Pages(c) == Cardinality(c.pages)

(* The dirty pages found when the purge began, not the retained ones between. *)
Purged(c) == c.nd

(* hpa_try_purge from its relock on; huge slabs have been split.              *)
PurgeEnd(t) ==
    LET c == call[t]
        h == [hp.slab[c.slab] EXCEPT !.huge = FALSE, !.midpurge = FALSE, !.alloc = TRUE] IN
    /\ c.pc = "purge" /\ c.left = {} /\ mtx = ""
    /\ hp' = Updated(hp, c.slab, Eligible(hpdata_purge_end(h, c.pages, Purged(c))))
    /\ pending' = pending - c.nd
    /\ call' = [call EXCEPT ![t].pc = "work", ![t].slab = 0, ![t].nd = 0, ![t].pages = {},
                            ![t].purged = TRUE, ![t].ops = IF c.forced THEN @ ELSE @ + 1]
    /\ mtx' = t
    /\ UNCHANGED <<grown, age, deferral, grow, ext, up>>

(* hpa_try_hugify up to its unlock, when the slab has been hugifiable for     *)
(* hugify_delay_ms.                                                           *)
HugifyBegin(t) ==
    LET s == psset_pick_hugify(hp) IN
    /\ call[t].pc = "work" /\ ~Purging(t)
    /\ s # 0 /\ ~hpa_hugify_blocked_by_ndirty
    /\ hp' = Updated(hp, s, [hp.slab[s] EXCEPT !.midhugify = TRUE, !.purge = FALSE,
                                               !.hugify = FALSE])
    /\ call' = [call EXCEPT ![t].pc = "hugify", ![t].slab = s]
    /\ mtx' = ""
    /\ UNCHANGED <<grown, age, pending, deferral, grow, ext, up>>

(* The outer loop goes round when something was done and operations are left. *)
Round(c, done) ==
    IF done /\ (c.forced \/ c.ops < MaxOps)
    THEN [c EXCEPT !.pc = "work", !.purged = FALSE, !.slab = 0]
    ELSE [c EXCEPT !.pc = "worked", !.slab = 0]

HugifyEnd(t) ==
    LET c == call[t] IN
    /\ c.pc = "hugify" /\ mtx = ""
    /\ hp' = Updated(hp, c.slab,
                Eligible([hpdata_hugify(hp.slab[c.slab]) EXCEPT !.midhugify = FALSE]))
    /\ call' = [call EXCEPT ![t] =
                   Round([c EXCEPT !.ops = IF c.forced THEN @ ELSE @ + 1], TRUE)]
    /\ mtx' = t
    /\ UNCHANGED <<grown, age, pending, deferral, grow, ext, up>>

(* Nothing is hugified: no candidate, blocked, or too early.                  *)
NoHugify(t) ==
    /\ call[t].pc = "work" /\ ~Purging(t)
    /\ call' = [call EXCEPT ![t] = Round(@, @.purged)]
    /\ UNCHANGED <<hp, grown, age, pending, deferral, mtx, grow, ext, up>>

-----------------------------------------------------------------------------
(* hpa_shard_destroy, once the arena has freed every extent and no thread     *)
(* uses it: the slabs that could still serve a page are removed one by one.   *)
hpa_shard_destroy ==
    LET s == psset_pick_alloc(hp, 1) IN
    /\ ext = {} /\ \A t \in Threads : call[t].pc = "idle"
    /\ up' = FALSE
    /\ s # 0
    /\ hp' = [slab |-> [hp.slab EXCEPT ![s] = hpdata_init(0)],
              set  |-> psset_remove(hp.set, hp.slab[s], s)]
    /\ UNCHANGED <<grown, age, pending, deferral, mtx, grow, ext, call>>

Next ==
    \/ \E t \in Threads :
        \/ \E n \in Sizes, k \in 1 .. Batch : hpa_alloc_batch(t, n, k)
        \/ AllocOne(t) \/ AllocFails(t) \/ AllocEnds(t) \/ Worked(t)
        \/ GrowLock(t) \/ hpa_central_extract(t) \/ psset_insert(t)
        \/ \E e \in ext : hpa_dalloc(t, e)
        \/ hpa_shard_do_deferred_work(t)
        \/ \E b \in BOOLEAN : hpa_shard_set_deferral_allowed(t, b)
        \/ PurgeBegin(t) \/ hpdata_purge_next(t) \/ PurgeEnd(t)
        \/ HugifyBegin(t) \/ HugifyEnd(t) \/ NoHugify(t)
    \/ hpa_shard_destroy

Spec == Init /\ [][Next]_vars

-----------------------------------------------------------------------------
Inserted == {s \in 1 .. grown : \A t \in Threads : ~(call[t].pc = "insert" /\ call[t].slab = s)}

ExtPages(e) == e.at .. e.at + e.n - 1

(* The incremental updates of a slab's metadata agree with its bitmaps        *)
(* (hpdata_consistent), whatever happened to it while the mtx was dropped in  *)
(* a purge or a hugification; its active pages are those of the extents       *)
(* handed out, which do not overlap.                                          *)
SlabsConsistent ==
    \A s \in Slabs :
        /\ hpdata_consistent(hp.slab[s])
        /\ hp.slab[s].active = UNION {ExtPages(e) : e \in {x \in ext : x.slab = s}}
        /\ \A e, f \in ext : e.slab = s /\ f.slab = s /\ e # f
                                => ExtPages(e) \cap ExtPages(f) = {}

(* Every slab of a live shard is in the containers its metadata calls for and *)
(* in no other: hpa_destroy, psset_pick_alloc, psset_pick_purge and           *)
(* psset_pick_hugify would miss it, or find it where it must not be.          *)
ContainersMatch ==
    LET set == hp.set IN
    up => /\ \A b \in 1 .. P - 1 :
                set.heap[b] = {s \in Inserted : hp.slab[s].alloc /\ Bin(hp.slab[s]) = b}
          /\ ToSet(set.empty) = {s \in Inserted : hp.slab[s].alloc /\ hp.slab[s].nactive = 0}
          /\ \A i \in DOMAIN set.purge :
                ToSet(set.purge[i]) = {s \in Inserted :
                    hp.slab[s].purge /\ psset_purge_list_ind(hp.slab[s]) = i}
          /\ ToSet(set.hugify) = {s \in Inserted : hp.slab[s].hugify}

(* psset's totals, from which the purging policy decides, are those of its    *)
(* slabs, bin by bin; and a shard that was destroyed has nothing left.        *)
CountsExact ==
    LET Total(ss) == [n |-> Cardinality(ss),
                      active |-> MapThenSumSet(LAMBDA s : hp.slab[s].nactive, ss),
                      dirty |-> MapThenSumSet(LAMBDA s : ndirty(hp.slab[s]), ss)] IN
    IF up THEN /\ hp.set.merged = Total(Inserted)
               /\ \A b \in Bins, g \in BOOLEAN : hp.set.stats[b][g] =
                    Total({s \in Inserted : Bin(hp.slab[s]) = b /\ hp.slab[s].huge = g})
          ELSE psset_pick_alloc(hp, 1) = 0 => hp.set = psset_init

(* A purge, which the kernel does while the mtx is free, never takes a page   *)
(* that somebody was given meanwhile (the comment at hpa.c:404), and two      *)
(* operations never work on one slab; the dirty pages promised to purges are  *)
(* part of the total, so that the difference of two size_t is one.            *)
PurgeSafe ==
    /\ \A t \in Threads : call[t].pc = "purge" =>
            call[t].left \cap hp.slab[call[t].slab].active = {}
    /\ \A t, u \in Threads : t # u /\ call[t].pc \in {"purge", "hugify"}
            /\ call[u].pc \in {"purge", "hugify"} => call[t].slab # call[u].slab
    /\ pending <= hp.set.merged.dirty

(* Slabs in one heap never have the same age (the assertion of                *)
(* hpdata_age_comp), although ages come from the counters of the central      *)
(* allocator and of the shard.                                                *)
AgesDiffer ==
    \A b \in 1 .. P - 1 : \A r, s \in hp.set.heap[b] : r # s => hp.slab[r].age # hp.slab[s].age

(* Metadata, containers, totals and ages agree with each other.               *)
Consistent == SlabsConsistent /\ ContainersMatch /\ CountsExact /\ AgesDiffer

(* "bound latency to not be *too* bad by doing at most a small fixed number   *)
(* of operations" (hpa.c:528): each turn of the loop in                       *)
(* hpa_shard_maybe_do_deferred_work does one.                                 *)
WorkBounded ==
    \A t \in Threads : call[t].pc = "work" /\ Purging(t) => psset_pick_purge(hp) # 0
=============================================================================
