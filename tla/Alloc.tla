------------------------------- MODULE Alloc -------------------------------
(***************************************************************************)
(* The allocation functions of jemalloc, with the calls SHAMBLES adds      *)
(* (jemalloc/src/jemalloc.c, arena_ralloc of arena.c, large_ralloc of      *)
(* large.c): what each makes of sizes, alignments, flags and failures.     *)
(* One action is one call of the program, except batch_alloc, whose loop   *)
(* takes a step per round.  Where memory comes from, and whether there is  *)
(* more behind a block, is left open.  Sizes are scaled down.              *)
(* A live block has its class (usize), the largest power of two that       *)
(* divides its address (al), whether it is in a slab, and the size and     *)
(* alignment the program asked for (req, align).  The bytes of the block a *)
(* call returns are marked "u" if the program wrote them before, "z" if    *)
(* zero, "j" if junk and "x" if they may hold anything.                    *)
(***************************************************************************)
EXTENDS Integers, Sequences, FiniteSetsExt

CONSTANTS
    W,                      \* bits of a size_t
    PAGE, CACHELINE,
    Small, Large,           \* size classes
    NRegs,                  \* regions of a slab
    sizeThresshold,         \* size from which blocks are aligned for SHAMBLES
    Powers,                 \* alignments an address can have
    Sizes, Counts, Extras, Aligns,   \* what the program passes
    EmptyAligned,           \* memalign, valloc and pvalloc are called with size 0
    Opts,                   \* settings of the options
    PartialExpand,          \* memory behind a block may do for size, not for size + extra
    MaxBatch                \* bound on what is asked of batch_alloc

VARIABLES
    opt,
    heap,                   \* sequence of the live blocks
    net,                    \* the thread's allocated less its deallocated bytes
    batch,                  \* the batch_alloc call in progress
    last                    \* the call that has just returned

vars == <<opt, heap, net, batch, last>>

SMALL_MAXCLASS == Max(Small)
LARGE_MINCLASS == Min(Large)
LARGE_MAXCLASS == Max(Large)
Word(n) == n % (2 ^ W)
Ceil(n, a) == ((n + a - 1) \div a) * a
PowerOf2(n) == n \in {2 ^ i : i \in 0 .. W - 1}
LowBit(n) == Max({p \in {2 ^ i : i \in 0 .. W - 1} : n % p = 0})
MaxOf(a, b) == IF a > b THEN a ELSE b
MinOf(a, b) == IF a < b THEN a ELSE b
NoBlock == [usize |-> 0, al |-> 0, slab |-> FALSE, req |-> 0, align |-> 0]

-----------------------------------------------------------------------------
\* The class of a size; 0 if there is none.
sz_s2u(size) == IF size > LARGE_MAXCLASS THEN 0 ELSE Min({c \in Small \cup Large : c >= size})

sz_sa2u(size, alignment) ==
    LET usize == sz_s2u(Ceil(size, alignment))
        big == IF size <= LARGE_MINCLASS THEN LARGE_MINCLASS ELSE sz_s2u(size) IN
    IF size <= SMALL_MAXCLASS /\ alignment <= PAGE /\ usize < LARGE_MINCLASS THEN usize
    ELSE IF alignment > LARGE_MAXCLASS \/ big < size THEN 0
    ELSE IF Word(big + PAGE + Ceil(alignment, PAGE) - PAGE) < big THEN 0
    ELSE big

\* 0 stands for a size that is out of range.
aligned_usize_get(size, alignment, bump) ==
    IF alignment = 0 THEN sz_s2u(size)
    ELSE sz_sa2u(IF bump THEN MaxOf(size, 1) ELSE size, alignment)

zero_get(guarantee, slow) == guarantee \/ (slow /\ opt.zero)

\* num * item does not fit; with factors of half a word no division is needed.
compute_size_with_overflow(num, item) ==
    LET size == Word(num * item)
        half == 2 ^ (W \div 2) IN
    IF size = 0 THEN num # 0 /\ item # 0
    ELSE ~(num < half /\ item < half) /\ size \div item # num

SHAMBLES_REALIGN(align) ==
    IF align = 0 THEN PAGE ELSE align * MaxOf(PAGE \div LowBit(align), 1)

\* Defect: only an alignment that was not given is raised.
Realigned_Zero(size, align) == IF size >= sizeThresshold /\ align = 0 THEN PAGE ELSE align

\* The alignment asked of the allocator, for a block SHAMBLES may handle.
Realigned(size, align) == IF size >= sizeThresshold THEN SHAMBLES_REALIGN(align) ELSE align

-----------------------------------------------------------------------------
\* Blocks the arena or the thread's cache may return (arena_malloc,
\* arena_palloc): a region of a slab is aligned as its class is, a large block
\* starts at a random cache line unless more was asked.
arena_palloc(usize, alignment) ==
    LET small == usize <= SMALL_MAXCLASS
        least == IF small THEN MinOf(LowBit(usize), PAGE)
                 ELSE IF alignment <= CACHELINE THEN CACHELINE ELSE alignment IN
    {[NoBlock EXCEPT !.usize = usize, !.al = a, !.slab = small] : a \in {p \in Powers : p >= least}}

\* Sampled blocks are on a page boundary.
prof_sample_align(alignment) == MaxOf(alignment, PAGE)

\* Small ones get an extent of their own, and arena_prof_promote writes down
\* the class they stand for.
imalloc_sample(usize, alignment) ==
    {[b EXCEPT !.usize = usize]
        : b \in arena_palloc(MaxOf(usize, LARGE_MINCLASS), prof_sample_align(alignment))}

Fresh(usize, alignment) ==
    arena_palloc(usize, alignment) \cup (IF opt.prof THEN imalloc_sample(usize, alignment) ELSE {})

Mark(zero) == IF zero THEN "z" ELSE "x"
Fill(n, mark) == [i \in 1 .. n |-> mark]

Failed(err) == [err |-> err, blk |-> NoBlock, data |-> <<>>, moved |-> FALSE]
Got(b, data, moved) == [err |-> "ok", blk |-> b, data |-> data, moved |-> moved]

\* What imalloc may return, for static options so and dynamic options do.
imalloc_body(so, do, slow) ==
    LET size == IF so.may_overflow THEN Word(do.num * do.item) ELSE do.item
        usize == aligned_usize_get(size, do.alignment, so.bump)
        zero == zero_get(do.zero, slow)
        mark == IF slow /\ opt.junk_alloc /\ ~zero THEN "j" ELSE Mark(zero) IN
    IF so.may_overflow /\ compute_size_with_overflow(do.num, do.item) THEN {Failed("ENOMEM")}
    ELSE IF do.alignment < so.min_alignment \/ (do.alignment # 0 /\ ~PowerOf2(do.alignment))
    THEN {Failed("EINVAL")}
    ELSE IF usize = 0 THEN {Failed("ENOMEM")}
    ELSE {Failed("ENOMEM")} \cup {Got(b, Fill(usize, mark), TRUE) : b \in Fresh(usize, do.alignment)}

\* These options keep threads off the fast path.
SlowPaths == IF opt.zero \/ opt.junk_alloc \/ opt.junk_free \/ opt.xmalloc THEN {TRUE} ELSE BOOLEAN

Aborts(err, slow) == opt.xmalloc /\ (err = "EINVAL" \/ (err = "ENOMEM" /\ slow))

-----------------------------------------------------------------------------
Static == [may_overflow |-> FALSE, bump |-> FALSE, nulls |-> FALSE, errno |-> FALSE, min_alignment |-> 0]
Dynamic == [num |-> 1, item |-> 0, alignment |-> 0, zero |-> FALSE]
NoReport == [type |-> "none", ptr |-> NoBlock, size |-> 0]
NoFree == [blk |-> NoBlock, szind |-> 0, slab |-> FALSE]
NoBatch == [on |-> FALSE, left |-> 0, size |-> 0, alignment |-> 0, zero |-> FALSE]
Quiet == [op |-> "none", size |-> 0, align |-> 0, zero |-> FALSE, err |-> "ok", errno |-> FALSE,
          result |-> "none", blk |-> NoBlock, data |-> <<>>, old |-> NoBlock, told |-> NoReport,
          freed |-> NoFree, ret |-> 0, alignment |-> 0]

\* MALLOCX_ALIGN takes powers of two.
Flags == {a \in Aligns : a = 0 \/ PowerOf2(a)}

Init ==
    /\ opt \in Opts
    /\ heap = <<>>
    /\ net = 0
    /\ batch = NoBatch
    /\ last = Quiet

\* A call that allocates: its result, what it leaves in errno and in the
\* caller's variable, and what the plugin is told.
Allocate(op, so, do, size, align, told) ==
    /\ heap = <<>>
    /\ \E slow \in SlowPaths : \E out \in imalloc_body(so, do, slow) :
        LET ok == out.err = "ok"
            blk == IF ok THEN [out.blk EXCEPT !.req = size, !.align = align] ELSE NoBlock IN
        /\ heap' = IF ok THEN <<blk>> ELSE heap
        /\ net' = net + blk.usize
        /\ last' = [Quiet EXCEPT
             !.op = op, !.size = size, !.align = align, !.zero = do.zero, !.err = out.err,
             !.errno = ~ok /\ so.errno, !.alignment = do.alignment, !.blk = blk, !.data = out.data,
             !.result = IF ok THEN "block" ELSE IF Aborts(out.err, slow) THEN "abort"
                        ELSE IF so.nulls THEN "null" ELSE "unset",
             !.told = [told EXCEPT !.ptr = IF told.type = "none" THEN @ ELSE blk]]
    /\ UNCHANGED <<opt, batch>>

Tell(type, size) == [NoReport EXCEPT !.type = type, !.size = size]

je_malloc(size) ==
    Allocate("malloc", [Static EXCEPT !.nulls = TRUE, !.errno = TRUE],
             [Dynamic EXCEPT !.item = size, !.alignment = Realigned(size, 0)], size, 0, Tell("ALLOC", size))

je_posix_memalign(alignment, size) ==
    Allocate("posix_memalign", [Static EXCEPT !.bump = TRUE, !.min_alignment = 2],
             [Dynamic EXCEPT !.item = size, !.alignment = Realigned(size, alignment)],
             size, alignment, Tell("ALLOC", size))

je_aligned_alloc(alignment, size) ==
    Allocate("aligned_alloc", [Static EXCEPT !.bump = TRUE, !.nulls = TRUE, !.errno = TRUE, !.min_alignment = 1],
             [Dynamic EXCEPT !.item = size, !.alignment = Realigned(size, alignment)],
             size, alignment, Tell("ALLOC", size))

je_calloc(num, size) ==
    Allocate("calloc", [Static EXCEPT !.may_overflow = TRUE, !.nulls = TRUE, !.errno = TRUE],
             [Dynamic EXCEPT !.num = num, !.item = size, !.zero = TRUE, !.alignment = Realigned(size, 0)],
             num * size, 0, Tell("ALLOC", size))

je_memalign(alignment, size) ==
    /\ size # 0 \/ EmptyAligned
    /\ Allocate("memalign", [Static EXCEPT !.nulls = TRUE, !.min_alignment = 1],
                [Dynamic EXCEPT !.item = size, !.alignment = alignment], size, alignment, NoReport)

je_valloc(size) ==
    /\ size # 0 \/ EmptyAligned
    /\ Allocate("valloc", [Static EXCEPT !.nulls = TRUE, !.min_alignment = PAGE],
                [Dynamic EXCEPT !.item = size, !.alignment = PAGE], size, PAGE, NoReport)

je_pvalloc(size) ==
    /\ size # 0 \/ EmptyAligned
    /\ Allocate("pvalloc", [Static EXCEPT !.nulls = TRUE, !.min_alignment = PAGE],
                [Dynamic EXCEPT !.item = Word(Ceil(size, PAGE)), !.alignment = PAGE], size, PAGE, NoReport)

je_mallocx(size, alignment, zero) ==
    /\ size # 0
    /\ Allocate("mallocx", [Static EXCEPT !.nulls = TRUE],
                [Dynamic EXCEPT !.item = size, !.alignment = alignment, !.zero = zero], size, alignment, NoReport)

\* realloc(NULL, size): as malloc, but reported as a reallocation.
ReallocNull(size) ==
    Allocate("malloc", [Static EXCEPT !.nulls = TRUE, !.errno = TRUE],
             [Dynamic EXCEPT !.item = size, !.alignment = Realigned(size, 0)], size, 0, Tell("REALLOC", size))

-----------------------------------------------------------------------------
\* The bytes of a block of class usize that holds the first n bytes of b.
Copied(b, n, usize, mark) ==
    [i \in 1 .. usize |-> IF i > n THEN mark ELSE IF i <= b.req THEN "u" ELSE "x"]

\* Defect: the tail of the last page is left as it is.
Expanded_Pages(b, usize, zero) == [Copied(b, b.usize, usize, Mark(zero)) EXCEPT ![b.usize + 1] = "x"]

\* The bytes of b grown in place: the tail of its last page and the new pages
\* are zero if that was asked (large_ralloc_no_move_expand).
Expanded(b, usize, zero) == Copied(b, b.usize, usize, Mark(zero))

\* Whether resizing in place fails, and the class the block then has.
large_ralloc_no_move(b, usize_min, usize_max) ==
    LET rest == IF usize_min <= b.usize /\ b.usize <= usize_max THEN {[err |-> FALSE, usize |-> b.usize]}
                ELSE IF b.usize > usize_max
                THEN {[err |-> FALSE, usize |-> usize_max], [err |-> TRUE, usize |-> b.usize]}
                ELSE {[err |-> TRUE, usize |-> b.usize]}
        again == usize_min < usize_max /\ usize_min > b.usize IN
    IF usize_max <= b.usize THEN rest
    ELSE {[err |-> FALSE, usize |-> usize_max]} \cup
         (IF ~again THEN rest
          ELSE {[err |-> FALSE, usize |-> b.usize]} \cup
               (IF PartialExpand THEN {[err |-> TRUE, usize |-> usize_min]} ELSE {}))

arena_ralloc_no_move(b, size, extra) ==
    LET usize_min == sz_s2u(size)
        usize_max == sz_s2u(size + extra)
        same == [err |-> FALSE, usize |-> b.usize]
        differs == usize_max # b.usize /\ (size > b.usize \/ usize_max < b.usize) IN
    IF size > LARGE_MAXCLASS THEN {[same EXCEPT !.err = TRUE]}
    ELSE IF b.usize <= SMALL_MAXCLASS /\ usize_min <= SMALL_MAXCLASS THEN {[same EXCEPT !.err = differs]}
    ELSE IF b.usize >= LARGE_MINCLASS /\ usize_max >= LARGE_MINCLASS
    THEN large_ralloc_no_move(b, usize_min, usize_max)
    ELSE {[same EXCEPT !.err = TRUE]}

CopySize(b, size) == MinOf(size, b.usize)

\* A new block with the contents of b; b is then freed.
Moved(b, size, usize, alignment, zero) ==
    {Failed("ENOMEM")} \cup
    {Got(n, Copied(b, CopySize(b, size), usize, Mark(zero)), TRUE) : n \in arena_palloc(usize, alignment)}

InPlace(b, r, zero) ==
    Got([b EXCEPT !.usize = r.usize],
        IF r.usize > b.usize THEN Expanded(b, r.usize, zero) ELSE Copied(b, r.usize, r.usize, "x"), FALSE)

\* In place if that can be done, else moved.
large_ralloc(b, usize, alignment, zero) ==
    UNION {IF r.err THEN Moved(b, usize, usize, alignment, zero) ELSE {InPlace(b, r, zero)}
              : r \in large_ralloc_no_move(b, usize, usize)}

arena_ralloc(b, size, alignment, zero) ==
    LET usize == IF alignment = 0 THEN sz_s2u(size) ELSE sz_sa2u(size, alignment)
        stays == {r \in arena_ralloc_no_move(b, usize, 0) : ~r.err} IN
    IF usize = 0 \/ size > LARGE_MAXCLASS THEN {Failed("ENOMEM")}
    ELSE IF usize <= SMALL_MAXCLASS /\ stays # {} THEN {InPlace(b, r, zero) : r \in stays}
    ELSE IF b.usize >= LARGE_MINCLASS /\ usize >= LARGE_MINCLASS THEN large_ralloc(b, usize, alignment, zero)
    ELSE Moved(b, usize, usize, alignment, zero)

\* A block that is not aligned as asked is always moved.
iralloct(b, size, alignment, zero) ==
    IF alignment = 0 \/ b.al >= alignment THEN arena_ralloc(b, size, alignment, zero)
    ELSE IF sz_sa2u(size, alignment) = 0 THEN {Failed("ENOMEM")}
    ELSE Moved(b, size, sz_sa2u(size, alignment), alignment, zero)

\* A sampled reallocation: to at least the smallest large class, then promoted.
irallocx_prof_sample(b, usize, alignment, zero) ==
    {IF out.err = "ok" THEN [out EXCEPT !.blk.usize = usize, !.data = SubSeq(@, 1, usize)] ELSE out
        : out \in iralloct(b, MaxOf(usize, LARGE_MINCLASS), prof_sample_align(alignment), zero)}

\* The class and slab bit a block is given back with, by its size
\* (isdalloct) or, when blocks may be promoted ones, by the extent map.
arena_sdalloc(b, usize) ==
    IF opt.prof THEN [blk |-> b, szind |-> b.usize, slab |-> b.slab]
    ELSE [blk |-> b, szind |-> usize, slab |-> usize <= SMALL_MAXCLASS]

Without(i) == SubSeq(heap, 1, i - 1) \o SubSeq(heap, i + 1, Len(heap))

do_rallocx(op, i, size, alignment, guarantee, told) ==
    LET b == heap[i]
        zero == zero_get(guarantee, TRUE)
        usize == aligned_usize_get(size, alignment, FALSE)
        outs == IF usize = 0 THEN {Failed("ENOMEM")}
                ELSE iralloct(b, size, alignment, zero) \cup
                     (IF opt.prof THEN irallocx_prof_sample(b, usize, alignment, zero) ELSE {}) IN
    \E out \in outs :
        LET ok == out.err = "ok"
            new == IF ok THEN [out.blk EXCEPT !.req = size, !.align = alignment] ELSE NoBlock
            junk == opt.junk_alloc /\ ~zero IN
        /\ heap' = IF ok THEN [heap EXCEPT ![i] = new] ELSE heap
        /\ net' = IF ok THEN net + usize - b.usize ELSE net
        /\ last' = [Quiet EXCEPT
             !.op = op, !.size = size, !.align = alignment, !.zero = guarantee, !.err = out.err,
             !.result = IF ok THEN "block" ELSE IF Aborts("ENOMEM", TRUE) THEN "abort" ELSE "null",
             !.blk = new, !.old = b,
             !.data = [k \in DOMAIN out.data |-> IF junk /\ k > b.usize THEN "j" ELSE out.data[k]],
             !.told = [told EXCEPT !.ptr = IF told.type = "none" THEN @ ELSE new],
             !.freed = IF out.moved THEN arena_sdalloc(b, b.usize) ELSE NoFree]
        /\ UNCHANGED <<opt, batch>>

je_rallocx(i, size, alignment, zero) ==
    size # 0 /\ do_rallocx("rallocx", i, size, alignment, zero, NoReport)

\* The block leaves the program's hands.
Release(op, i, ctx, usize, told, result) ==
    /\ heap' = Without(i)
    /\ net' = net - usize
    /\ last' = [Quiet EXCEPT !.op = op, !.old = heap[i], !.freed = ctx, !.told = told, !.result = result]
    /\ UNCHANGED <<opt, batch>>

ifree(i) == [blk |-> heap[i], szind |-> heap[i].usize, slab |-> heap[i].slab]

do_realloc_nonnull_zero(i) ==
    \/ /\ opt.zero_realloc = "alloc"
       /\ do_rallocx("realloc0", i, 1, 0, FALSE, Tell("REALLOC", 0))
    \/ /\ opt.zero_realloc = "free"
       /\ Release("realloc0", i, ifree(i), heap[i].usize, Tell("REALLOC", 0), "null")
    \/ /\ opt.zero_realloc = "abort"
       /\ last' = [Quiet EXCEPT !.op = "realloc0", !.result = "abort"]
       /\ UNCHANGED <<opt, heap, net, batch>>

je_realloc(i, size) ==
    IF size # 0 THEN do_rallocx("realloc", i, size, 0, FALSE, Tell("REALLOC", size))
    ELSE do_realloc_nonnull_zero(i)

\* Unless it is aligned as asked a block stays as it is, and so does one the
\* profiler would sample off a page boundary.
ixallocx_prof(b, size, extra, alignment) ==
    LET stays == {[err |-> TRUE, usize |-> b.usize]} IN
    IF b.al < alignment THEN stays
    ELSE arena_ralloc_no_move(b, size, extra) \cup (IF opt.prof /\ b.al < PAGE THEN stays ELSE {})

\* Resized in place or not at all; what is returned is the class.
je_xallocx(i, size, extra, alignment, guarantee) ==
    LET b == heap[i]
        zero == zero_get(guarantee, TRUE)
        clamped == MinOf(extra, LARGE_MAXCLASS - size)
        outs == IF size > LARGE_MAXCLASS THEN {[err |-> TRUE, usize |-> b.usize]}
                ELSE ixallocx_prof(b, size, clamped, alignment) IN
    /\ size # 0
    /\ \E r \in outs :
        LET ret == IF r.err THEN b.usize ELSE r.usize
            new == [b EXCEPT !.usize = r.usize, !.req = ret]
            data == InPlace(b, r, zero).data IN
        /\ heap' = [heap EXCEPT ![i] = new]
        /\ net' = net + ret - b.usize
        /\ last' = [Quiet EXCEPT
             !.op = "xallocx", !.size = size, !.zero = guarantee, !.result = "block", !.ret = ret,
             !.blk = new, !.old = b,
             !.data = [k \in DOMAIN data |-> IF opt.junk_alloc /\ ~zero /\ k > b.usize THEN "j" ELSE data[k]]]
    /\ UNCHANGED <<opt, batch>>

-----------------------------------------------------------------------------
je_free(i) == Release("free", i, ifree(i), heap[i].usize, [Tell("FREE", 0) EXCEPT !.ptr = heap[i]], "none")

je_dallocx(i) == Release("dallocx", i, ifree(i), heap[i].usize, NoReport, "none")

BySize(b, usize) == [blk |-> b, szind |-> usize, slab |-> usize <= SMALL_MAXCLASS]

\* Defect: the size is trusted even for a block on a page boundary.
isfree_Trust(b, usize) == BySize(b, usize)

\* A block on a page boundary may be a sampled one: its class is looked up.
isfree(b, usize) ==
    IF b.al >= PAGE /\ opt.prof THEN [blk |-> b, szind |-> b.usize, slab |-> b.slab] ELSE BySize(b, usize)

\* The fast path takes sizes up to a page off a page boundary, without flags.
free_fastpath(b, size) == FALSE \in SlowPaths /\ b.align = 0 /\ size <= PAGE /\ b.al < PAGE

\* The program may give any size from the one it asked for to the class.
je_sdallocx(i, size) ==
    LET b == heap[i]
        usize == aligned_usize_get(size, b.align, FALSE) IN
    /\ b.req <= size /\ size <= b.usize
    /\ \/ /\ free_fastpath(b, size)
          /\ Release("sdallocx", i, [BySize(b, sz_s2u(size)) EXCEPT !.slab = TRUE], sz_s2u(size), NoReport, "none")
       \/ Release("sdallocx", i, isfree(b, usize), usize, NoReport, "none")

-----------------------------------------------------------------------------
batch_alloc(num, size, alignment, zero) ==
    /\ heap = <<>> /\ size # 0
    /\ batch' = [NoBatch EXCEPT !.on = aligned_usize_get(size, alignment, FALSE) # 0,
                    !.left = num, !.size = size, !.alignment = alignment, !.zero = zero]
    /\ last' = Quiet
    /\ UNCHANGED <<opt, heap, net>>

\* Defect: regions the cache gave are not counted.
Progress_Arena(fresh, cached) == fresh

Progress(fresh, cached) == fresh + cached

\* A round: whole slabs from the arena, the rest from the cache, and one
\* block by mallocx when that was not enough or when the profiler wants it.
BatchRound ==
    LET usize == aligned_usize_get(batch.size, batch.alignment, FALSE)
        zero == zero_get(batch.zero, TRUE)
        small == usize <= SMALL_MAXCLASS
        Kept(b) == [b EXCEPT !.req = batch.size, !.align = batch.alignment] IN
    /\ batch.on /\ batch.left > 0
    /\ \E event \in IF opt.prof THEN BOOLEAN ELSE {FALSE} :
       \E ask \in IF event THEN 0 .. batch.left - 1 ELSE {batch.left} :
       \E fresh \in 0 .. (IF small /\ ask >= NRegs THEN ask - (ask % NRegs) ELSE 0) :
       \E cached \in 0 .. ask - fresh :
       \E b \in arena_palloc(usize, 0) :
       \E slow \in SlowPaths :
       \E out \in IF event THEN {Failed("ENOMEM")} \cup {Got(s, Fill(usize, Mark(zero)), TRUE) : s \in imalloc_sample(usize, batch.alignment)}
                  ELSE imalloc_body([Static EXCEPT !.nulls = TRUE],
                                    [Dynamic EXCEPT !.item = batch.size, !.alignment = batch.alignment, !.zero = batch.zero], slow) :
            LET n == fresh + cached
                more == n < ask \/ event
                ok == out.err = "ok" IN
            /\ more \/ ~ok                   \* no mallocx, no outcome of it
            /\ heap' = heap \o [k \in 1 .. n |-> Kept(b)] \o (IF more /\ ok THEN <<Kept(out.blk)>> ELSE <<>>)
            /\ net' = net + Progress(fresh, cached) * usize + (IF more THEN out.blk.usize ELSE 0)
            /\ batch' = IF more /\ ~ok THEN NoBatch
                        ELSE [batch EXCEPT !.left = @ - n - (IF more THEN 1 ELSE 0)]
            /\ last' = [Quiet EXCEPT
                 !.op = "batch_alloc", !.size = batch.size, !.align = batch.alignment, !.zero = batch.zero,
                 !.result = IF more /\ Aborts(out.err, slow) THEN "abort" ELSE IF n > 0 THEN "block" ELSE "none", !.blk = IF n > 0 THEN Kept(b) ELSE NoBlock,
                 !.data = IF n > 0 THEN Fill(usize, Mark(zero)) ELSE <<>>]
    /\ UNCHANGED opt

BatchDone ==
    /\ batch.on /\ batch.left = 0
    /\ batch' = NoBatch
    /\ UNCHANGED <<opt, heap, net, last>>

-----------------------------------------------------------------------------
Allocations ==
    \/ \E size \in Sizes : je_malloc(size) \/ ReallocNull(size) \/ je_valloc(size) \/ je_pvalloc(size)
    \/ \E size \in Sizes, alignment \in Aligns :
           je_posix_memalign(alignment, size) \/ je_aligned_alloc(alignment, size) \/ je_memalign(alignment, size)
    \/ \E num \in Counts, size \in Sizes : je_calloc(num, size)
    \/ \E size \in Sizes, alignment \in Flags, zero \in BOOLEAN :
           \/ je_mallocx(size, alignment, zero)
           \/ \E num \in 1 .. MaxBatch : batch_alloc(num, size, alignment, zero)

\* Bound: blocks of a batch are only freed.
Resizes ==
    /\ Len(heap) = 1
    /\ \E size \in Sizes :
           \/ je_realloc(1, size)
           \/ \E alignment \in Flags, zero \in BOOLEAN :
                  \/ je_rallocx(1, size, alignment, zero)
                  \/ \E extra \in Extras : je_xallocx(1, size, extra, alignment, zero)

Frees ==
    \E i \in DOMAIN heap :
        \/ je_free(i) \/ je_dallocx(i)
        \/ \E size \in (Sizes \cup Small \cup Large) \ {0} : je_sdallocx(i, size)

\* The program has looked at the result.
Return ==
    /\ batch = NoBatch /\ last # Quiet /\ last.result # "abort"
    /\ last' = Quiet
    /\ UNCHANGED <<opt, heap, net, batch>>

Next ==
    \/ batch = NoBatch /\ last = Quiet /\ (Allocations \/ Resizes \/ Frees)
    \/ BatchRound
    \/ BatchDone
    \/ Return

Spec == Init /\ [][Next]_vars

-----------------------------------------------------------------------------
Bytes == last.data

\* A block a call returns has room for all that was asked (num * size of
\* calloc as a number, not as a word), is of the class nallocx announces, is
\* aligned as asked, holds what the block it replaces held, and is zero where
\* that was asked: all of it, or from the old block's real size on.  (What
\* batch_alloc takes from a cache is aligned as its class only.)
ResultRight ==
    last.result = "block" =>
        /\ last.op # "xallocx" =>
               /\ last.blk.usize >= last.size
               /\ last.op \in {"mallocx", "rallocx", "batch_alloc"} =>
                      last.blk.usize = aligned_usize_get(last.size, last.align, FALSE)
        /\ (last.op = "batch_alloc" /\ ~last.blk.slab) \/ last.blk.al >= last.align
        /\ Len(Bytes) = last.blk.usize
        /\ \A i \in DOMAIN Bytes :
               /\ i <= last.old.req /\ (i <= last.size \/ last.op = "xallocx") => Bytes[i] = "u"
               /\ last.zero /\ i > last.old.usize => Bytes[i] = "z"

\* thread.allocated less thread.deallocated is the size of what is live, on
\* every path: fast or slow, sampled, moved, grown in place, or in a batch.
AccountExact == net = MapThenSumSet(LAMBDA i : heap[i].usize, DOMAIN heap)

\* A block goes back with the class and slab bit it was handed out with,
\* although sized calls work them out from the size the program gives and
\* although the profiler puts small blocks outside slabs.
FreedAsAllocated ==
    last.freed # NoFree =>
        last.freed.szind = last.freed.blk.usize /\ last.freed.slab = last.freed.blk.slab

\* What malloc, calloc, posix_memalign, aligned_alloc and realloc(NULL, n)
\* report as new, of the threshold size or more, starts on a page boundary:
\* plugins hand these addresses to mbind.
ReportsAligned ==
    last.told.type # "none" /\ last.result = "block" /\ last.old = NoBlock
        /\ last.told.size >= sizeThresshold => last.told.ptr.al >= PAGE

\* The assertion in imalloc_body: what it returns has the alignment it was
\* told to give.
AllocationAligned == last.result = "block" => last.blk.al >= last.alignment

\* xallocx returns the real size of the block.
RealSize == last.op = "xallocx" => last.ret = last.blk.usize

\* posix_memalign refuses an alignment that is not a power of two at least as
\* large as a pointer.
InvalidRefused ==
    last.op = "posix_memalign" /\ (last.align < 2 \/ ~PowerOf2(last.align)) => last.err = "EINVAL"

\* A failed realloc sets errno.
ReallocSetsErrno == last.op = "realloc" /\ last.result = "null" => last.errno
=============================================================================
