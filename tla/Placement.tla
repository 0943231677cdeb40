----------------------------- MODULE Placement -----------------------------
(***************************************************************************)
(* The plugins' configuration (plugins/config.c) and the two plugins that  *)
(* place blocks once and for all, by the order of their allocation:        *)
(* static.c by a bitmap and static-fractional.c by a list of fractions.    *)
(* Sizes are in bytes, scaled down: a page has 2^PAGE_SHIFT bytes, a       *)
(* fraction is a multiple of 2^-FRACTION_SHIFT, a size_t has W bits and an *)
(* int IntBits.  An environment variable is a number, or Unset; FRACTIONS  *)
(* is the list of fractions, empty if neither of its variables is set, and *)
(* INVERT tells that it is the list of slow ones.                          *)
(***************************************************************************)
EXTENDS Integers, Sequences, FiniteSets

CONSTANTS
    PAGE_SHIFT, FRACTION_SHIFT, W, IntBits,
    DefaultThreshold,   \* 0x10000 in both places
    Envs,               \* environments the process may start with
    MaxNodes,           \* numbers numa_max_node may return
    Threads,
    NPages,             \* bound: pages of memory that blocks are taken from
    Sizes,              \* sizes the program asks for
    Offsets,            \* where in its first page a block below jemalloc's threshold may start
    MaxOrder            \* bound on the number of reports at or above the threshold

VARIABLES
    env, node,     \* the environment, and what numa_max_node returns
    threshold,     \* jemalloc's sizeThresshold
    config, current,
    call,          \* the report each thread is in
    blocks,        \* live blocks: start, size, and their number in the order of reports
    policy,        \* NUMA policy of each page, as the kernel has it
    order          \* history: reports at or above the plugin's threshold so far

vars == <<env, node, threshold, config, current, call, blocks, policy, order>>

Unset == -1
Page == 2 ^ PAGE_SHIFT
SizeMax == 2 ^ W - 1
Given(name) == env[name] # Unset
Word(n) == n % (2 ^ W)
Ones(n) == {i \in 0 .. W - 1 : (n \div 2 ^ i) % 2 = 1}    \* a mask as a set of bits
CeilPage(n) == (n + Page - 1) \div Page
Idle == [at |-> "idle"]

-----------------------------------------------------------------------------
\* strtol of a variable, with what stands for an unset one and for zero.
OrElse(name, dflt) == IF Given(name) /\ env[name] # 0 THEN env[name] ELSE dflt

\* Defect: a chunk size that is not given is not deduced.
ChunkSize_Default ==
    IF Given("CHUNK_SIZE") THEN OrElse("CHUNK_SIZE", SizeMax) ELSE SizeMax

ChunkSize ==
    IF Given("CHUNK_SIZE") THEN OrElse("CHUNK_SIZE", SizeMax)
    ELSE IF OrElse("FAST_MEM_SIZE", 0) # 0 /\ OrElse("FAST_MEM_CHUNKS", 0) # 0
         THEN env["FAST_MEM_SIZE"] \div env["FAST_MEM_CHUNKS"]
         ELSE SizeMax

FastLimit ==
    IF Given("FAST_MEM_CHUNKS") THEN OrElse("FAST_MEM_CHUNKS", SizeMax)
    ELSE IF OrElse("FAST_MEM_SIZE", 0) # 0 THEN env["FAST_MEM_SIZE"] \div ChunkSize
    ELSE SizeMax

AllNodes == 0 .. node + 2                      \* (1LU << (maxnode + 1)) - 1

FastMask == IF OrElse("FAST_NODEMASK", 0) = 0 THEN AllNodes
            ELSE Ones(env["FAST_NODEMASK"]) \cap AllNodes

SlowMask == IF Given("SLOW_NODEMASK") THEN (Ones(env["SLOW_NODEMASK"]) \cap AllNodes) \ FastMask
            ELSE {}

ShamblesPluginConfigInit ==
    [fastmask |-> FastMask, slowmask |-> SlowMask, sizeThresshold |-> OrElse("SIZE_THRESHOLD", DefaultThreshold),
     chunkSize |-> ChunkSize, fastChunks |-> FastLimit]

\* jemalloc reads a variable of another name for the threshold above which it
\* aligns blocks to pages.
ReadThreshold == OrElse("SHMBLES_SIZE_THRESHOLD", DefaultThreshold)

-----------------------------------------------------------------------------
\* A fraction given as v / 2^(FRACTION_SHIFT + 2), rounded and cut off at 1.
fraction(v) ==
    LET out == v \div 2 IN
    LET half == IF out % 2 = 1 THEN out \div 2 + 1 ELSE out \div 2 IN
    IF half < 2 ^ FRACTION_SHIFT THEN half ELSE 2 ^ FRACTION_SHIFT

\* Defect: the size is cut to whole pages before it is multiplied.
fastSize_Pages(size, fract) ==
    LET s == ((size \div Page) * Page * fract) \div 2 ^ (FRACTION_SHIFT - 1) IN
    (s \div 2) + (s % 2)

fastSize(size, fract) ==
    LET s == Word(Word(size * 2 ^ PAGE_SHIFT) * fract) \div 2 ^ (FRACTION_SHIFT + PAGE_SHIFT - 1) IN
    (s \div 2) + (s % 2)

\* 1 << loc is an int: the last bit extends its sign, and beyond it the
\* processor shifts by loc modulo the width.
Shifted(loc) == LET b == loc % IntBits IN IF b = IntBits - 1 THEN b .. W - 1 ELSE {b}

\* The parts a block is bound in, first to last.
StaticParts(loc, size) ==
    <<[len |-> size, to |-> IF Ones(OrElse("SLOW_BITMASK", 0)) \cap Shifted(loc) # {} THEN "slow" ELSE "fast"]>>

FractionalParts(loc, size) ==
    LET fractions == env["FRACTIONS"]
        here == IF env["INVERT"] THEN "slow" ELSE "fast"
        rest == IF env["INVERT"] THEN "fast" ELSE "slow"
        fract == IF loc >= Len(fractions) THEN 0 ELSE fraction(fractions[loc + 1]) IN
    IF fract = 0 THEN <<[len |-> size, to |-> rest]>>
    ELSE IF fract >= 2 ^ FRACTION_SHIFT THEN <<[len |-> size, to |-> here]>>
    ELSE <<[len |-> fastSize(size, fract), to |-> here],
           [len |-> size - fastSize(size, fract), to |-> rest]>>

Parts(loc, size) == IF env["PLUGIN"] = "static" THEN StaticParts(loc, size) ELSE FractionalParts(loc, size)

-----------------------------------------------------------------------------
\* The nodes of a mask that exist.
Mask(to) == (IF to = "fast" THEN config.fastmask ELSE config.slowmask) \cap (0 .. node)

\* mbind fails, and the plugins do not look, unless the start is on a page
\* boundary and a node of the mask exists; the length is rounded up to pages.
mbind(start, len, to) ==
    policy' = IF start % Page # 0 \/ Mask(to) = {} THEN policy
              ELSE [p \in DOMAIN policy |->
                    IF p >= start \div Page /\ p < start \div Page + CeilPage(len) THEN to ELSE policy[p]]

Init ==
    /\ env \in Envs /\ node \in MaxNodes
    /\ threshold = ReadThreshold
    /\ config = ShamblesPluginConfigInit
    /\ current = 0 /\ order = 0
    /\ call = [t \in Threads |-> Idle]
    /\ blocks = {}
    /\ policy = [p \in 0 .. NPages - 1 |-> "default"]

PagesOf(b) == (b.start \div Page) .. CeilPage(b.start + b.size) - 1

\* The allocator returns memory of its own pages, on a page boundary if the
\* size reaches jemalloc's threshold, else anywhere in a page.
Alloc(t, size, start) ==
    LET b == [start |-> start, size |-> size, nth |-> Unset, loc |-> Unset] IN
    /\ call[t] = Idle
    /\ size >= threshold => start % Page = 0
    /\ PagesOf(b) \subseteq 0 .. NPages - 1
    /\ \A o \in blocks : PagesOf(o) \cap PagesOf(b) = {}
    /\ blocks' = blocks \cup {b}
    /\ call' = [call EXCEPT ![t] = [at |-> "report", b |-> b]]
    /\ UNCHANGED <<env, node, threshold, config, current, policy, order>>

\* bindAlloc of an ALLOC report, up to the first call of mbind.
bindAlloc(t) ==
    LET b == call[t].b IN
    /\ call[t].at = "report"
    /\ IF b.size >= config.sizeThresshold
       THEN /\ order < MaxOrder
            /\ current' = current + 1             \* __atomic_fetch_add
            /\ order' = order + 1
            /\ blocks' = (blocks \ {b}) \cup {[b EXCEPT !.nth = order, !.loc = current]}
            /\ call' = [call EXCEPT ![t] = [at |-> "bind", b |-> [b EXCEPT !.nth = order, !.loc = current],
                                            start |-> b.start, parts |-> Parts(current, b.size)]]
       ELSE /\ call' = [call EXCEPT ![t] = Idle]
            /\ UNCHANGED <<current, order, blocks>>
    /\ UNCHANGED <<env, node, threshold, config, policy>>

\* Defect: the second part is bound where the first is.
NextStart_Same(start, part) == start

\* chunk.start = out + chunk.size
NextStart(start, part) == start + part.len

\* bindFastAlloc or bindSlowAlloc of the next part.
Bind(t) ==
    LET c == call[t]
        part == Head(c.parts) IN
    /\ c.at = "bind"
    /\ mbind(c.start, part.len, part.to)
    /\ call' = [call EXCEPT ![t] = IF Len(c.parts) = 1 THEN Idle
                                   ELSE [c EXCEPT !.start = NextStart(@, part), !.parts = Tail(@)]]
    /\ UNCHANGED <<env, node, threshold, config, current, blocks, order>>

\* A free is reported and ignored: the pages keep their policy.
Free(t, b) ==
    /\ call[t] = Idle /\ b \in blocks
    /\ \A u \in Threads : call[u] # Idle => call[u].b # b
    /\ blocks' = blocks \ {b}
    /\ UNCHANGED <<env, node, threshold, config, current, call, policy, order>>

Next ==
    \E t \in Threads :
        \/ \E size \in Sizes, page \in 0 .. NPages - 1, off \in Offsets : Alloc(t, size, page * Page + off)
        \/ bindAlloc(t) \/ Bind(t)
        \/ \E b \in blocks : Free(t, b)

Spec == Init /\ [][Next]_vars

-----------------------------------------------------------------------------
Settled(b) == b.nth # Unset /\ \A t \in Threads : call[t] # Idle => call[t].b # b
Total(s) == IF s = <<>> THEN 0 ELSE IF Len(s) = 1 THEN s[1].len ELSE s[1].len + s[2].len
HasNodes == Mask("fast") # {} /\ Mask("slow") # {}
WholePages(b, from, upto) == {p \in PagesOf(b) : p * Page >= b.start + from /\ (p + 1) * Page <= b.start + upto}

\* Bytes of the n-th block that its variable sends to fast memory, scaled by
\* 2^(FRACTION_SHIFT + 2): a reference that knows nothing of shifts and words.
WantedFast(b) ==
    LET one == 2 ^ (FRACTION_SHIFT + 2)
        v == IF b.nth >= Len(env["FRACTIONS"]) THEN 0 ELSE env["FRACTIONS"][b.nth + 1]
        cut == IF v > one THEN one ELSE v IN
    b.size * (IF env["INVERT"] THEN one - cut ELSE cut)

\* The parts a reported block is cut in add up to the block, and what goes to
\* fast memory differs from size times fraction by no more than the rounding
\* of the fraction and of the product: with blocks numbered by the order of
\* their reports whatever the threads do, and as long as size times fraction
\* does not overflow (static-fractional.c fraction, fastSize; the order comes
\* from __atomic_fetch_add).
FractionKept ==
    \A b \in blocks :
        (b.nth # Unset /\ env["PLUGIN"] = "static-fractional" /\ b.size < 2 ^ (W - PAGE_SHIFT - FRACTION_SHIFT)) =>
            LET parts == Parts(b.loc, b.size)
                fast == IF parts[1].to = "fast" THEN parts[1].len ELSE Total(parts) - parts[1].len
                off == fast * 2 ^ (FRACTION_SHIFT + 2) - WantedFast(b) IN
            /\ Total(parts) = b.size
            /\ (IF off < 0 THEN -off ELSE off) <= 2 * b.size + 2 ^ (FRACTION_SHIFT + 1)

\* When the reports of all live blocks are done, a block on a page boundary
\* has the policy its variable asks for on every page, whatever policies the
\* freed blocks have left behind: by bit n of the bitmap for the n-th block of
\* the static plugin, as far as an int has bits; for a fractional block on the
\* pages of its first part, and on the others if the parts meet on a boundary
\* (static.c bindAlloc, static-fractional.c bindAlloc, migration.c).
PlacedAsAsked ==
    HasNodes => \A b \in blocks :
        (Settled(b) /\ b.start % Page = 0) =>
            IF env["PLUGIN"] = "static"
            THEN b.nth < IntBits - 1 =>
                     \A p \in PagesOf(b) : policy[p] = IF b.nth \in Ones(OrElse("SLOW_BITMASK", 0)) THEN "slow" ELSE "fast"
            ELSE LET parts == Parts(b.nth, b.size) IN
                 /\ \A p \in WholePages(b, 0, parts[1].len) : policy[p] = parts[1].to
                 /\ (Len(parts) = 2 /\ parts[1].len % Page = 0) =>
                        \A p \in WholePages(b, parts[1].len, b.size) : policy[p] = parts[2].to

\* No node is both fast and slow; and when two of the three size variables are
\* given, the third is what they imply: chunks of that size and number fill
\* fast memory, to within one chunk or one byte per chunk (config.c).
ConfigDeduced ==
    LET size == env["FAST_MEM_SIZE"]
        two == {n \in {"CHUNK_SIZE", "FAST_MEM_CHUNKS"} : Given(n)} IN
    /\ config.fastmask \cap config.slowmask = {}
    /\ (Given("FAST_MEM_SIZE") /\ size # 0 /\ Cardinality(two) = 1 /\ \A n \in two : env[n] # 0) =>
        LET made == config.chunkSize * config.fastChunks IN
        /\ made <= size
        /\ size - made < (IF two = {"CHUNK_SIZE"} THEN config.chunkSize ELSE config.fastChunks)

\* What the README says of static-fractional ("we can place parts of an array
\* to different tiers"): the pages of the second part get its policy too.
PartsPlaced ==
    HasNodes => \A b \in blocks :
        (Settled(b) /\ b.start % Page = 0 /\ env["PLUGIN"] = "static-fractional") =>
            LET parts == Parts(b.nth, b.size) IN
            Len(parts) = 2 => \A p \in WholePages(b, parts[1].len, b.size) : policy[p] = parts[2].to

\* What the README says of the threshold ("Allocations of this size (in bytes)
\* and above, are handled by SHAMBLES"): a block of that size has a policy.
ThresholdAgrees ==
    HasNodes => \A b \in blocks : Settled(b) => \E p \in PagesOf(b) : policy[p] # "default"
=============================================================================
