------------------------------ MODULE Classes ------------------------------
(***************************************************************************)
(* The size classes of jemalloc: sc.c lists them group by group, sz.c      *)
(* fills the lookup tables from the list, sz.h computes class and index of *)
(* a size by shifts and masks, and bin_info.c divides slabs into regions.  *)
(* The list is built one class a step, for several builds; slab sizes may  *)
(* then be changed by an option (slab_sizes); and then each size is asked  *)
(* for, one after the other.                                               *)
(***************************************************************************)
EXTENDS Integers, Sequences, FiniteSetsExt

CONSTANTS
    Builds,                 \* records lg_quantum, lg_tiny_min, lg_max_lookup, lg_page, lg_ngroup, ptr_bits, pad
    Guesses                 \* slab sizes in pages the option may give

VARIABLES
    build,
    stage,                  \* the loop of size_classes, then "boot" and "ask"
    sc,                     \* the classes so far
    lg_base, lg_delta, ndelta,
    size                    \* the size asked for

vars == <<build, stage, sc, lg_base, lg_delta, ndelta, size>>

lg_floor(n) == Max({k \in 0 .. 20 : 2 ^ k <= n})
lg_ceil(n) == Min({k \in 0 .. 20 : 2 ^ k >= n})
Shr(n, k) == n \div 2 ^ k
RoundUp(n, k) == Shr(n + 2 ^ k - 1, k) * 2 ^ k

\* The macros of sc.h, for the build.
PAGE == 2 ^ build.lg_page
SC_NGROUP == 2 ^ build.lg_ngroup
SC_NTINY == build.lg_quantum - build.lg_tiny_min
SC_LG_BASE_MAX == build.ptr_bits - 2
SC_LG_FIRST_REGULAR_BASE == build.lg_quantum + build.lg_ngroup
SC_NSIZES == SC_NTINY + SC_NGROUP + SC_NGROUP * (SC_LG_BASE_MAX - SC_LG_FIRST_REGULAR_BASE + 1) - 1
SC_NPSIZES == SC_NGROUP + (SC_LG_BASE_MAX - (build.lg_page + build.lg_ngroup)) * SC_NGROUP + SC_NGROUP - 1
SC_NBINS ==
    SC_NTINY + SC_NGROUP + SC_NGROUP * (build.lg_page + build.lg_ngroup - SC_LG_FIRST_REGULAR_BASE) - 1
SC_LOOKUP_MAXCLASS == 2 ^ build.lg_max_lookup
SC_SMALL_MAXCLASS == 2 ^ (build.lg_page + build.lg_ngroup - 1) + (SC_NGROUP - 1) * 2 ^ (build.lg_page - 1)
SC_LARGE_MINCLASS == 2 ^ (build.lg_page + build.lg_ngroup)
SC_LARGE_MAXCLASS == 2 ^ SC_LG_BASE_MAX + (SC_NGROUP - 1) * 2 ^ (SC_LG_BASE_MAX - build.lg_ngroup)
SC_SLAB_MAXREGS == 2 ^ (build.lg_page - build.lg_tiny_min)
BITMAP_MAXBITS == 2 ^ Max({build.lg_page - build.lg_tiny_min, lg_ceil(SC_NSIZES)})
sz_large_pad == IF build.pad THEN PAGE ELSE 0

-----------------------------------------------------------------------------
reg_size_compute(base, delta, nd) == 2 ^ base + nd * 2 ^ delta

\* The least number of pages that regions fill without a rest.
slab_size(reg_size) == Min({n \in 1 .. 2 * SC_NGROUP : (n * PAGE) % reg_size = 0})

size_class(base, delta, nd) ==
    LET reg_size == reg_size_compute(base, delta, nd)
        bin == reg_size < SC_LARGE_MINCLASS IN
    [size |-> reg_size, psz |-> reg_size % PAGE = 0, bin |-> bin,
     pgs |-> IF bin THEN slab_size(reg_size) ELSE 0,
     lookup |-> reg_size <= SC_LOOKUP_MAXCLASS]

Init ==
    /\ build \in Builds
    /\ stage = "tiny"
    /\ sc = <<>>
    /\ lg_base = build.lg_tiny_min /\ lg_delta = build.lg_tiny_min /\ ndelta = 0
    /\ size = 0

Tiny ==
    /\ stage = "tiny"
    /\ IF lg_base < build.lg_quantum
       THEN /\ sc' = Append(sc, size_class(lg_base, lg_delta, ndelta))
            /\ lg_delta' = lg_base /\ lg_base' = lg_base + 1
            /\ UNCHANGED stage
       ELSE /\ stage' = IF sc # <<>> THEN "first" ELSE "pseudo"
            /\ UNCHANGED <<sc, lg_base, lg_delta>>
    /\ UNCHANGED <<build, ndelta, size>>

\* The first class that is not tiny is written as a step from the last tiny one.
First ==
    /\ stage = "first"
    /\ sc' = Append(sc, size_class(lg_base - 1, lg_delta, 1))
    /\ ndelta' = 1 /\ lg_delta' = lg_delta + 1
    /\ stage' = "pseudo"
    /\ UNCHANGED <<build, lg_base, size>>

\* Defect: a group ends one class early.
PseudoEnds_Early(n) == n >= SC_NGROUP - 1

PseudoEnds(n) == n >= SC_NGROUP

Pseudo ==
    /\ stage = "pseudo"
    /\ IF PseudoEnds(ndelta)
       THEN /\ stage' = "regular"
            /\ lg_base' = lg_base + build.lg_ngroup /\ ndelta' = 1
            /\ UNCHANGED sc
       ELSE /\ sc' = Append(sc, size_class(lg_base, lg_delta, ndelta))
            /\ ndelta' = ndelta + 1
            /\ UNCHANGED <<stage, lg_base>>
    /\ UNCHANGED <<build, lg_delta, size>>

\* All remaining groups; the last one is a class short.
Regular ==
    LET limit == IF lg_base = SC_LG_BASE_MAX THEN SC_NGROUP - 1 ELSE SC_NGROUP IN
    /\ stage = "regular"
    /\ \/ /\ lg_base = SC_LG_BASE_MAX + 1
          /\ stage' = "boot"
          /\ UNCHANGED <<sc, lg_base, lg_delta, ndelta>>
       \/ /\ lg_base <= SC_LG_BASE_MAX /\ ndelta <= limit
          /\ sc' = Append(sc, size_class(lg_base, lg_delta, ndelta))
          /\ ndelta' = ndelta + 1
          /\ UNCHANGED <<stage, lg_base, lg_delta>>
       \/ /\ lg_base <= SC_LG_BASE_MAX /\ ndelta > limit
          /\ lg_base' = lg_base + 1 /\ lg_delta' = lg_delta + 1 /\ ndelta' = 1
          /\ UNCHANGED <<stage, sc>>
    /\ UNCHANGED <<build, size>>

\* Defect: a slab may be too short for one region.
sc_data_update_sc_slab_size_Short(reg_size, guess) == Min({guess, (BITMAP_MAXBITS * reg_size) \div PAGE})

sc_data_update_sc_slab_size(reg_size, guess) ==
    LET min_pgs == Shr(reg_size + PAGE - 1, build.lg_page)
        max_pgs == (BITMAP_MAXBITS * reg_size) \div PAGE IN
    IF guess < min_pgs THEN min_pgs ELSE IF guess > max_pgs THEN max_pgs ELSE guess

\* The option slab_sizes, for the classes from begin to end; then the tables
\* are filled and sizes are asked for.
sc_data_update_slab_size ==
    /\ stage = "boot"
    /\ \/ UNCHANGED sc
       \/ \E begin, end \in {sc[i].size : i \in {1, SC_NBINS \div 2, SC_NBINS}}, guess \in Guesses :
             sc' = [i \in DOMAIN sc |->
                      IF sc[i].bin /\ begin <= sc[i].size /\ sc[i].size <= end
                      THEN [sc[i] EXCEPT !.pgs = sc_data_update_sc_slab_size(sc[i].size, guess)]
                      ELSE sc[i]]
    /\ stage' = "ask"
    /\ UNCHANGED <<build, lg_base, lg_delta, ndelta, size>>

Ask ==
    /\ stage = "ask" /\ size <= SC_LARGE_MAXCLASS + 1
    /\ size' = size + 1
    /\ UNCHANGED <<build, stage, sc, lg_base, lg_delta, ndelta>>

Done == stage = "ask" /\ size > SC_LARGE_MAXCLASS + 1 /\ UNCHANGED vars

Next == Tiny \/ First \/ Pseudo \/ Regular \/ sc_data_update_slab_size \/ Ask \/ Done

Spec == Init /\ [][Next]_vars

-----------------------------------------------------------------------------
\* Indices count from 0.
sz_index2size(index) == sc[index + 1].size

\* The table of small sizes has an entry for every 2^lg_tiny_min bytes.
sz_size2index_tab(d) ==
    Min({i \in 0 .. Len(sc) - 1 : d <= Shr(sz_index2size(i) + 2 ^ build.lg_tiny_min - 1, build.lg_tiny_min)})

sz_size2index_lookup(n) == sz_size2index_tab(Shr(n + 2 ^ build.lg_tiny_min - 1, build.lg_tiny_min))

\* Defect: the last sizes of the linear groups are taken for the next group.
LgDelta_Early(n, unit) ==
    LET x == lg_floor(2 * n - 1) IN
    IF x < build.lg_ngroup + unit THEN unit ELSE x - build.lg_ngroup

\* The distance of the classes around a size.
LgDelta(n, unit) ==
    LET x == lg_floor(2 * n - 1) IN
    IF x < build.lg_ngroup + unit + 1 THEN unit ELSE x - build.lg_ngroup - 1

sz_size2index_compute(n) ==
    LET x == lg_floor(2 * n - 1)
        first == build.lg_ngroup + build.lg_quantum
        grp == (IF x < first THEN 0 ELSE x - first) * SC_NGROUP
        mod == Shr(n - 1, LgDelta(n, build.lg_quantum)) % SC_NGROUP IN
    IF n > SC_LARGE_MAXCLASS THEN SC_NSIZES
    ELSE IF n = 0 THEN 0
    ELSE IF SC_NTINY > 0 /\ n <= 2 ^ (build.lg_quantum - 1)
    THEN Max({lg_ceil(n) - build.lg_tiny_min, 0})
    ELSE SC_NTINY + grp + mod

\* The class at an index, with unit the quantum for sizes and a page for
\* page sizes.
GroupSize(index, unit) ==
    LET grp == index \div SC_NGROUP
        mod == index % SC_NGROUP IN
    (IF grp = 0 THEN 0 ELSE 2 ^ (unit + build.lg_ngroup - 1 + grp))
        + (mod + 1) * 2 ^ (unit - 1 + (IF grp = 0 THEN 1 ELSE grp))

sz_index2size_compute(index) ==
    IF index < SC_NTINY THEN 2 ^ (build.lg_tiny_min + index) ELSE GroupSize(index - SC_NTINY, build.lg_quantum)

sz_s2u_compute(n) ==
    LET m == Max({n, 1}) IN
    IF n > SC_LARGE_MAXCLASS THEN 0
    ELSE IF SC_NTINY > 0 /\ m <= 2 ^ (build.lg_quantum - 1) THEN 2 ^ Max({lg_ceil(m), build.lg_tiny_min})
    ELSE RoundUp(m, LgDelta(m, build.lg_quantum))

-----------------------------------------------------------------------------
\* Page sizes: the classes that are whole pages, and past them one more.
sz_pind2sz_tab == SelectSeq(sc, LAMBDA c : c.psz)

sz_pind2sz(pind) == IF pind = SC_NPSIZES THEN SC_LARGE_MAXCLASS + PAGE ELSE sz_pind2sz_tab[pind + 1].size

sz_pind2sz_compute(pind) ==
    IF pind = SC_NPSIZES THEN SC_LARGE_MAXCLASS + PAGE ELSE GroupSize(pind, build.lg_page)

sz_psz2ind(psz) ==
    LET first == build.lg_ngroup + build.lg_page
        off == Max({lg_ceil(psz) - first, 0})
        delta == build.lg_page + Max({off - 1, 0}) IN
    IF psz > SC_LARGE_MAXCLASS THEN SC_NPSIZES ELSE off * SC_NGROUP + (Shr(psz - 1, delta) % SC_NGROUP)

sz_psz2u(psz) ==
    IF psz > SC_LARGE_MAXCLASS THEN SC_LARGE_MAXCLASS + PAGE ELSE RoundUp(psz, LgDelta(psz, build.lg_page))

\* Defect: a size that is a class is taken for the one below it.
sz_psz_quantize_floor_Below(n) ==
    LET pind == sz_psz2ind(n - sz_large_pad) IN
    IF pind = 0 THEN n ELSE sz_pind2sz(pind - 1) + sz_large_pad

sz_psz_quantize_floor(n) ==
    LET pind == sz_psz2ind(n - sz_large_pad + 1) IN
    IF pind = 0 THEN n ELSE sz_pind2sz(pind - 1) + sz_large_pad

sz_psz_quantize_ceil(n) ==
    LET ret == sz_psz_quantize_floor(n) IN
    IF ret < n THEN sz_pind2sz(sz_psz2ind(ret - sz_large_pad + 1)) + sz_large_pad ELSE ret

bin_infos(i) == [reg_size |-> sc[i].size, slab_size |-> sc[i].pgs * PAGE,
                 nregs |-> (sc[i].pgs * PAGE) \div sc[i].size]

-----------------------------------------------------------------------------
Asked == stage = "ask"

\* The list the loops of size_classes make has the numbers and limits the
\* macros of sc.h give the rest of the allocator, and it grows: the two ways
\* of computing them agree.
MacrosAgree ==
    Asked /\ size = 0 =>
        /\ Len(sc) = SC_NSIZES
        /\ Len(sz_pind2sz_tab) = SC_NPSIZES
        /\ {i \in DOMAIN sc : sc[i].bin} = 1 .. SC_NBINS
        /\ sc[SC_NBINS].size = SC_SMALL_MAXCLASS
        /\ Max({sc[i].size : i \in {j \in DOMAIN sc : sc[j].lookup}}) = SC_LOOKUP_MAXCLASS
        /\ sc[SC_NBINS + 1].size = SC_LARGE_MINCLASS
        /\ sc[SC_NSIZES].size = SC_LARGE_MAXCLASS
        /\ \A i \in 1 .. SC_NSIZES - 1 : sc[i].size < sc[i + 1].size

\* For each size, table, shifts and masks give the least class that holds it,
\* and beyond four quanta less than a fifth of the class is wasted.
ClassRight ==
    Asked /\ size <= SC_LARGE_MAXCLASS =>
        LET index == Min({i \in 0 .. SC_NSIZES - 1 : sz_index2size(i) >= size})
            class == sz_index2size(index) IN
        /\ sz_size2index_compute(size) = index
        /\ size <= SC_LOOKUP_MAXCLASS => sz_size2index_lookup(size) = index
        /\ sz_index2size_compute(index) = class
        /\ sz_s2u_compute(size) = class
        /\ size > SC_NGROUP * 2 ^ build.lg_quantum => (class - size) * (SC_NGROUP + 1) < class

\* For page sizes the same; and an extent is filed under a size it has room
\* for and looked for from a size on at which every extent is large enough.
PageClassRight ==
    Asked /\ size >= 1 /\ size <= SC_LARGE_MAXCLASS =>
        LET pind == Min({i \in 0 .. SC_NPSIZES - 1 : sz_pind2sz(i) >= size})
            extent == size + sz_large_pad
            filed == {sz_pind2sz(i) + sz_large_pad : i \in 0 .. SC_NPSIZES - 1} IN
        /\ sz_psz2ind(size) = pind
        /\ sz_psz2u(size) = sz_pind2sz(pind)
        /\ sz_pind2sz_compute(pind) = sz_pind2sz(pind)
        /\ size % PAGE = 0 =>
             /\ sz_psz_quantize_floor(extent) = Max({s \in filed : s <= extent})
             /\ sz_psz_quantize_ceil(extent) = Min({s \in filed : s >= extent})

\* Every slab has a region, has no more regions than its bitmap has bits, and
\* with the sizes the allocator chooses itself no byte is left over and no
\* slab is longer than 2 * ngroup - 1 pages.
SlabsDivide ==
    /\ Asked /\ size = 0 => \A i \in 1 .. SC_NBINS :
           bin_infos(i).nregs >= 1 /\ bin_infos(i).nregs <= BITMAP_MAXBITS
    /\ stage = "boot" => \A i \in 1 .. SC_NBINS :
           /\ bin_infos(i).nregs * bin_infos(i).reg_size = bin_infos(i).slab_size
           /\ bin_infos(i).nregs <= SC_SLAB_MAXREGS
           /\ sc[i].pgs <= 2 * SC_NGROUP - 1
=============================================================================
