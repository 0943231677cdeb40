------------------------------- MODULE Hooks -------------------------------
(***************************************************************************)
(* The calls SHAMBLES adds to jemalloc (jemalloc/src/jemalloc.c): logAlloc *)
(* loads the plugin on its first call and afterwards reports every         *)
(* allocation and free to it.  logAlloc is re-entered: malloc calls itself *)
(* during its own initialisation, and dlopen and the plugin's start call   *)
(* malloc.  Each thread has a stack of the calls it is in; the first entry *)
(* belongs to the program's call op[t], the others to nested ones.         *)
(***************************************************************************)
EXTENDS Naturals, Sequences

CONSTANTS
    Threads,
    Main,        \* the thread that calls malloc first
    None,
    Blocks,      \* memory blocks at or above the threshold
    InitNests,   \* bound: calls of malloc by malloc's initialisation
    MaxDepth,    \* bound on nested calls
    MayMove      \* realloc may move a block

ASSUME HooksAssumption ==
    /\ Main \in Threads
    /\ InitNests \in Nat /\ MaxDepth \in Nat
    /\ MayMove \in BOOLEAN

VARIABLES
    malloc_init_state,
    shambles_inited_n,
    reportAllocFunc,  \* "nop", or "plugin" once the plugin has registered
    stack, op,
    heap,             \* state of each block
    known,            \* blocks the plugin has a region for
    moved,            \* history: blocks that realloc moved away since their last free
    inits, nests      \* plugin starts, and calls nested in malloc's initialisation, so far

vars == <<malloc_init_state, shambles_inited_n, reportAllocFunc, stack, op, heap, known, moved, inits, nests>>

Top(t) == stack[t][Len(stack[t])]
At(t, pc) == stack[t] # <<>> /\ Top(t) = pc
Goto(t, pc) == stack' = [stack EXCEPT ![t][Len(stack[t])] = pc]
Push(t) == stack' = [stack EXCEPT ![t] = Append(@, "load")]

\* logAlloc returns; with it the program's call, and free gives the block back.
Return(t) ==
    LET outer == Len(stack[t]) = 1 IN
    /\ stack' = [stack EXCEPT ![t] = SubSeq(@, 1, Len(@) - 1)]
    /\ op' = IF outer THEN [op EXCEPT ![t].ev = "none", ![t].blk = None] ELSE op
    /\ heap' = IF outer /\ op[t].ev = "free" THEN [heap EXCEPT ![op[t].blk] = "free"] ELSE heap

Init ==
    /\ malloc_init_state = "uninitialized"
    /\ shambles_inited_n = 1
    /\ reportAllocFunc = "nop"
    /\ stack = [t \in Threads |-> <<>>]
    /\ op = [t \in Threads |-> [ev |-> "none", blk |-> None]]
    /\ heap = [p \in Blocks |-> "free"]
    /\ known = {} /\ moved = {}
    /\ inits = 0 /\ nests = 0

-----------------------------------------------------------------------------
\* Threads are made by pthread_create, which calls malloc: the first call of
\* logAlloc is over by then.  The plugin's sampler thread is made earlier but
\* does not allocate.
Spawned(t) ==
    \/ t = Main
    \/ /\ malloc_init_state = "initialized" /\ shambles_inited_n # 1
       /\ \A i \in DOMAIN stack[Main] : stack[Main][i] \notin {"mallocinit", "init", "store"}

Begin(t, ev, p) ==
    /\ Spawned(t) /\ stack[t] = <<>>
    /\ op' = [op EXCEPT ![t].ev = ev, ![t].blk = p]

\* malloc and its kin: the block is allocated, then reported.
je_malloc(t, p) ==
    LET ready == malloc_init_state = "initialized" IN
    /\ Begin(t, "alloc", p)
    /\ heap[p] = "free"
    /\ heap' = [heap EXCEPT ![p] = "used"]
    /\ malloc_init_state' = IF ready THEN malloc_init_state ELSE "recursible"
    /\ stack' = [stack EXCEPT ![t] = <<IF ready THEN "load" ELSE "mallocinit">>]
    /\ UNCHANGED <<shambles_inited_n, reportAllocFunc, known, moved, inits, nests>>

InCall(p) == \E t \in Threads : op[t].blk = p

\* Defect: the block is given back before its free is reported.
Freed_Early == "free"
\* What a block is while its free is being reported.
Freed == "freeing"

\* free: reported, then given back (Return).
je_free(t, p) ==
    /\ Begin(t, "free", p)
    /\ heap[p] = "used" /\ ~InCall(p)
    /\ heap' = [heap EXCEPT ![p] = Freed]
    /\ stack' = [stack EXCEPT ![t] = <<"load">>]
    /\ UNCHANGED <<malloc_init_state, shambles_inited_n, reportAllocFunc, known, moved, inits, nests>>

\* realloc that moves p to r: done, then reported.
je_realloc(t, p, r) ==
    /\ MayMove
    /\ Begin(t, "realloc", r)
    /\ heap[p] = "used" /\ ~InCall(p) /\ heap[r] = "free"
    /\ heap' = [heap EXCEPT ![p] = "free", ![r] = "used"]
    /\ moved' = moved \cup {p}
    /\ stack' = [stack EXCEPT ![t] = <<"load">>]
    /\ UNCHANGED <<malloc_init_state, shambles_inited_n, reportAllocFunc, known, inits, nests>>

\* malloc's initialisation calls malloc.
NestedMallocInit(t) ==
    /\ At(t, "mallocinit") /\ nests < InitNests
    /\ nests' = nests + 1
    /\ Push(t)
    /\ UNCHANGED <<malloc_init_state, shambles_inited_n, reportAllocFunc, op, heap, known, moved, inits>>

\* dlopen or the plugin's start calls malloc.
NestedInit(t) ==
    /\ At(t, "init") /\ Len(stack[t]) < MaxDepth
    /\ Push(t)
    /\ UNCHANGED <<malloc_init_state, shambles_inited_n, reportAllocFunc, op, heap, known, moved, inits, nests>>

MallocInitDone(t) ==
    /\ At(t, "mallocinit")
    /\ malloc_init_state' = "initialized"
    /\ Goto(t, "load")
    /\ UNCHANGED <<shambles_inited_n, reportAllocFunc, op, heap, known, moved, inits, nests>>

-----------------------------------------------------------------------------
(* logAlloc.                                                               *)

LogAllocLoad(t) ==
    /\ At(t, "load")
    /\ Goto(t, IF malloc_init_state # "initialized" \/ shambles_inited_n # 0
               THEN "exchange" ELSE "report")
    /\ UNCHANGED <<malloc_init_state, shambles_inited_n, reportAllocFunc, op, heap, known, moved, inits, nests>>

\* Defect: whoever comes before the start is over starts the plugin.
Claims_NotDone == shambles_inited_n # 0
Claims == shambles_inited_n = 1

\* Defect: the start counts as over when it begins.
Claimed_Done == 0
Claimed == 2

LogAllocExchange(t) ==
    /\ At(t, "exchange")
    /\ shambles_inited_n' = Claimed
    /\ IF Claims
       THEN Goto(t, "init") /\ inits' = inits + 1 /\ UNCHANGED <<op, heap>>
       ELSE Return(t) /\ UNCHANGED inits
    /\ UNCHANGED <<malloc_init_state, reportAllocFunc, known, moved, nests>>

\* shambles_init: no plugin is found, or it registers its callback.
shambles_init(t) ==
    /\ At(t, "init")
    /\ reportAllocFunc' \in {"nop", "plugin"}
    /\ Goto(t, "store")
    /\ UNCHANGED <<malloc_init_state, shambles_inited_n, op, heap, known, moved, inits, nests>>

\* Defect: the start is not marked as over.
Started_Never == 2
Started == 0

LogAllocStore(t) ==
    /\ At(t, "store")
    /\ shambles_inited_n' = Started
    /\ Return(t)
    /\ UNCHANGED <<malloc_init_state, reportAllocFunc, known, moved, inits, nests>>

\* The callback: a region is added, or deleted if there is one; realloc is ignored.
LogAllocReport(t) ==
    /\ At(t, "report")
    /\ known' = IF reportAllocFunc = "nop" THEN known
                ELSE IF op[t].ev = "alloc" THEN known \cup {op[t].blk}
                ELSE IF op[t].ev = "free" THEN known \ {op[t].blk}
                ELSE known
    /\ moved' = IF op[t].ev = "free" THEN moved \ {op[t].blk} ELSE moved
    /\ Return(t)
    /\ UNCHANGED <<malloc_init_state, shambles_inited_n, reportAllocFunc, inits, nests>>

Next ==
    \E t \in Threads :
        \/ \E p \in Blocks : je_malloc(t, p) \/ je_free(t, p) \/ \E r \in Blocks : je_realloc(t, p, r)
        \/ NestedMallocInit(t) \/ NestedInit(t) \/ MallocInitDone(t)
        \/ LogAllocLoad(t) \/ LogAllocExchange(t) \/ shambles_init(t)
        \/ LogAllocStore(t) \/ LogAllocReport(t)

Spec == Init /\ [][Next]_vars

-----------------------------------------------------------------------------
(* Properties.                                                             *)

Pcs == {"mallocinit", "load", "exchange", "init", "store", "report"}

\* Every variable has its type.
TypeOK ==
    /\ malloc_init_state \in {"uninitialized", "recursible", "initialized"}
    /\ shambles_inited_n \in 0..2
    /\ reportAllocFunc \in {"nop", "plugin"}
    /\ stack \in [Threads -> Seq(Pcs)]
    /\ op \in [Threads -> [ev : {"none", "alloc", "free", "realloc"}, blk : Blocks \cup {None}]]
    /\ heap \in [Blocks -> {"free", "used", "freeing"}]
    /\ known \subseteq Blocks /\ moved \subseteq Blocks
    /\ inits \in Nat /\ nests \in 0..InitNests

\* The plugin is loaded and started at most once, also when dlopen and the
\* plugin's start call malloc and so logAlloc.
InitOnce == inits <= 1

\* The plugin's callback is never entered from the plugin's own start, which
\* holds the lock the callback takes.
NoReentry ==
    \A t \in Threads : \A i, j \in DOMAIN stack[t] :
        i < j => ~(stack[t][i] = "init" /\ stack[t][j] = "report")

\* "Allocations of this size (in bytes) and above, are handled by SHAMBLES":
\* once the plugin has started and no call is under way, events reach it.
Ready ==
    (inits > 0 /\ \A t \in Threads : stack[t] = <<>>) => shambles_inited_n = 0

\* The plugin has a region for memory that malloc may hand out again only where
\* realloc moved the block away, whatever the order in which threads allocate,
\* free and report.
NoStaleRegion == \A p \in Blocks \ moved : heap[p] = "free" => p \notin known

\* What the hooks promise the plugin: the four properties above.
PluginSafe == InitOnce /\ NoReentry /\ Ready /\ NoStaleRegion

\* With the same exception, an allocation is reported only for a block the plugin
\* has no region for.
NoDoubleAlloc ==
    \A t \in Threads :
        At(t, "report") /\ op[t].ev = "alloc" /\ op[t].blk \notin moved => op[t].blk \notin known
=============================================================================
