---------------------------- MODULE HooksProofs ----------------------------
(***************************************************************************)
(* Proofs about Hooks, for any threads, blocks and depth of nesting.       *)
(*                                                                         *)
(* Three facts carry the argument.  A call that the plugin's start or      *)
(* malloc's initialisation makes lies above its frame (FramesInv), and     *)
(* while such a frame is there shambles_inited_n keeps the call away from  *)
(* the plugin.  Only the main thread can be in them, and alone (AloneInv). *)
(* A block in a call belongs to that call (OpInv).                         *)
(***************************************************************************)
EXTENDS Hooks, SequenceTheorems, TLAPS

Ended == malloc_init_state = "initialized"
Starting == {"init", "store"}

\* What the frames of a stack tell about the shared state.
Frame(t, i) ==
    /\ i < Len(stack[t]) => stack[t][i] \in {"mallocinit", "init"}
    /\ stack[t][i] = "mallocinit" => i = 1 /\ malloc_init_state = "recursible"
    /\ stack[t][i] \in {"mallocinit", "init", "store"} => t = Main
    /\ stack[t][i] \in Starting => shambles_inited_n = 2
    /\ stack[t][i] = "exchange" /\ shambles_inited_n = 0 => ~Ended
    /\ stack[t][i] = "report" => i = 1 /\ shambles_inited_n = 0 /\ Ended

FramesInv == \A t \in Threads : \A i \in DOMAIN stack[t] : Frame(t, i)

\* The plugin is started by one call, which no other thread can overlap; what
\* the main thread does before malloc is initialised lies above that frame.
AloneInv ==
    /\ \A i, j \in DOMAIN stack[Main] :
          stack[Main][i] \in Starting /\ stack[Main][j] \in Starting => i = j
    /\ \A t \in Threads \ {Main} : stack[t] # <<>> =>
          /\ Ended /\ shambles_inited_n # 1
          /\ \A i \in DOMAIN stack[Main] : stack[Main][i] \notin {"mallocinit", "init", "store"}
    /\ ~Ended /\ stack[Main] # <<>> => stack[Main][1] = "mallocinit"
    /\ malloc_init_state = "recursible" => stack[Main] # <<>>
    /\ malloc_init_state = "uninitialized" => \A p \in Blocks : heap[p] = "free"
    /\ ~Ended /\ Len(stack[Main]) >= 2 => nests >= 1

\* Starts are counted by shambles_inited_n; nothing is reported before the end.
StartInv ==
    /\ inits = IF shambles_inited_n = 1 THEN 0 ELSE 1
    /\ known # {} => shambles_inited_n = 0 /\ Ended /\ reportAllocFunc = "plugin"

\* A block in a call is in that state, and in no other call.
OpInv ==
    /\ \A t \in Threads :
          /\ stack[t] # <<>> <=> op[t].ev # "none"
          /\ op[t].ev # "none" =>
                /\ op[t].blk \in Blocks
                /\ heap[op[t].blk] = IF op[t].ev = "free" THEN "freeing" ELSE "used"
    /\ \A t, u \in Threads :
          op[t].ev # "none" /\ op[u].ev # "none" /\ op[t].blk = op[u].blk => t = u

\* A block being allocated is new to the plugin.
NewInv ==
    \A t \in Threads : op[t].ev = "alloc" /\ op[t].blk \notin moved => op[t].blk \notin known

\* When malloc's initialisation nests at most one call, a start under way can be
\* seen in the main thread's stack, and no call is nested after it.
ReadyInv ==
    InitNests <= 1 =>
        /\ shambles_inited_n = 2 => \E i \in DOMAIN stack[Main] : stack[Main][i] \in Starting
        /\ shambles_inited_n = 0 /\ ~Ended => Len(stack[Main]) = 1 /\ nests >= 1

IInv ==
    TypeOK /\ FramesInv /\ AloneInv /\ StartInv /\ OpInv /\ NoStaleRegion /\ NewInv /\ ReadyInv

-----------------------------------------------------------------------------
(* What the steps do to a stack.                                           *)

\* The program calls in.
LEMMA EnterFacts ==
  ASSUME TypeOK, NEW t \in Threads, NEW pc \in Pcs, stack' = [stack EXCEPT ![t] = <<pc>>]
  PROVE  /\ stack' \in [Threads -> Seq(Pcs)]
         /\ \A u \in Threads : u # t => stack'[u] = stack[u]
         /\ stack'[t] = <<pc>> /\ Len(stack'[t]) = 1 /\ stack'[t][1] = pc
         /\ \A u \in Threads : DOMAIN stack[u] = 1 .. Len(stack[u]) /\ DOMAIN stack'[u] = 1 .. Len(stack'[u])
  <1>1. <<pc>> \in Seq(Pcs)
    OBVIOUS
  <1>2. stack' \in [Threads -> Seq(Pcs)] /\ stack'[t] = <<pc>>
        /\ \A u \in Threads : u # t => stack'[u] = stack[u]
    BY <1>1 DEF TypeOK
  <1>3. Len(<<pc>>) = 1 /\ <<pc>>[1] = pc
    OBVIOUS
  <1>4. \A u \in Threads : stack[u] \in Seq(Pcs) /\ stack'[u] \in Seq(Pcs)
    BY <1>2 DEF TypeOK
  <1>5. \A u \in Threads : DOMAIN stack[u] = 1 .. Len(stack[u]) /\ DOMAIN stack'[u] = 1 .. Len(stack'[u])
    BY <1>4, LenProperties, Zenon
  <1>6. QED
    BY <1>2, <1>3, <1>5

\* A call is nested above the others.
LEMMA PushFacts ==
  ASSUME TypeOK, NEW t \in Threads, Push(t)
  PROVE  /\ stack' \in [Threads -> Seq(Pcs)]
         /\ \A u \in Threads : u # t => stack'[u] = stack[u]
         /\ Len(stack'[t]) = Len(stack[t]) + 1
         /\ \A i \in 1 .. Len(stack[t]) : stack'[t][i] = stack[t][i]
         /\ stack'[t][Len(stack[t]) + 1] = "load"
         /\ \A u \in Threads : DOMAIN stack[u] = 1 .. Len(stack[u]) /\ DOMAIN stack'[u] = 1 .. Len(stack'[u])
  <1> DEFINE s == stack[t]
  <1>1. s \in Seq(Pcs) /\ "load" \in Pcs
    BY DEF TypeOK, Pcs
  <1>2. /\ Append(s, "load") \in Seq(Pcs) /\ Len(Append(s, "load")) = Len(s) + 1
        /\ \A i \in 1 .. Len(s) : Append(s, "load")[i] = s[i]
        /\ Append(s, "load")[Len(s) + 1] = "load"
    BY <1>1
  <1>3. stack' \in [Threads -> Seq(Pcs)] /\ stack'[t] = Append(s, "load")
        /\ \A u \in Threads : u # t => stack'[u] = stack[u]
    BY <1>2 DEF TypeOK, Push
  <1>4. QED
    BY <1>2, <1>3 DEF TypeOK

\* The innermost call goes on.
LEMMA GotoFacts ==
  ASSUME TypeOK, NEW t \in Threads, NEW pc \in Pcs, stack[t] # <<>>, Goto(t, pc)
  PROVE  /\ stack' \in [Threads -> Seq(Pcs)]
         /\ \A u \in Threads : u # t => stack'[u] = stack[u]
         /\ Len(stack'[t]) = Len(stack[t]) /\ Len(stack[t]) >= 1 /\ Len(stack[t]) \in Nat
         /\ \A i \in 1 .. Len(stack[t]) - 1 : stack'[t][i] = stack[t][i]
         /\ stack'[t][Len(stack[t])] = pc
         /\ \A u \in Threads : DOMAIN stack[u] = 1 .. Len(stack[u]) /\ DOMAIN stack'[u] = 1 .. Len(stack'[u])
  <1> DEFINE s == stack[t]
             r == [s EXCEPT ![Len(s)] = pc]
  <1>1. s \in Seq(Pcs) /\ Len(s) \in 1 .. Len(s)
    BY DEF TypeOK
  <1>2. /\ r \in Seq(Pcs) /\ Len(r) = Len(s)
        /\ \A i \in 1 .. Len(s) : r[i] = IF i = Len(s) THEN pc ELSE s[i]
    BY <1>1, ExceptSeq
  <1>3. stack' = [stack EXCEPT ![t] = r]
    BY DEF TypeOK, Goto
  <1> HIDE DEF r
  <1>4. stack' \in [Threads -> Seq(Pcs)] /\ stack'[t] = r
        /\ \A u \in Threads : u # t => stack'[u] = stack[u]
    BY <1>2, <1>3 DEF TypeOK
  <1>5. \A u \in Threads : stack[u] \in Seq(Pcs) /\ stack'[u] \in Seq(Pcs)
    BY <1>4 DEF TypeOK
  <1>6. \A u \in Threads : DOMAIN stack[u] = 1 .. Len(stack[u]) /\ DOMAIN stack'[u] = 1 .. Len(stack'[u])
    BY <1>5, LenProperties
  <1>7. Len(s) \in Nat /\ Len(s) >= 1
    BY <1>1
  <1> HIDE DEF s
  <1>8. (\A i \in 1 .. Len(s) - 1 : r[i] = s[i]) /\ r[Len(s)] = pc
    BY <1>2, <1>7
  <1>9. QED
    BY <1>2, <1>4, <1>6, <1>7, <1>8 DEF s

\* The innermost call returns.
LEMMA PopFacts ==
  ASSUME TypeOK, NEW t \in Threads, stack[t] # <<>>,
         stack' = [stack EXCEPT ![t] = SubSeq(@, 1, Len(@) - 1)]
  PROVE  /\ stack' \in [Threads -> Seq(Pcs)]
         /\ \A u \in Threads : u # t => stack'[u] = stack[u]
         /\ Len(stack'[t]) = Len(stack[t]) - 1 /\ Len(stack[t]) >= 1 /\ Len(stack[t]) \in Nat
         /\ stack'[t] = <<>> <=> Len(stack[t]) = 1
         /\ \A i \in 1 .. Len(stack[t]) - 1 : stack'[t][i] = stack[t][i]
         /\ \A u \in Threads : DOMAIN stack[u] = 1 .. Len(stack[u]) /\ DOMAIN stack'[u] = 1 .. Len(stack'[u])
  <1> DEFINE s == stack[t]
             r == SubSeq(s, 1, Len(s) - 1)
  <1>1. s \in Seq(Pcs) /\ Len(s) >= 1
    BY DEF TypeOK
  <1>2. /\ r \in Seq(Pcs) /\ Len(r) = Len(s) - 1
        /\ \A i \in 1 .. Len(s) - 1 : r[i] = s[i]
    BY <1>1
  <1>3. stack' = [stack EXCEPT ![t] = r]
    BY DEF TypeOK
  <1> HIDE DEF r
  <1>4. stack' \in [Threads -> Seq(Pcs)] /\ stack'[t] = r
        /\ \A u \in Threads : u # t => stack'[u] = stack[u]
    BY <1>2, <1>3 DEF TypeOK
  <1>5. r = <<>> <=> Len(r) = 0
    BY <1>2, EmptySeq, Zenon
  <1>6. \A u \in Threads : stack[u] \in Seq(Pcs) /\ stack'[u] \in Seq(Pcs)
    BY <1>4 DEF TypeOK
  <1>7. Len(s) \in Nat
    BY <1>1
  <1> HIDE DEF s
  <1>8. r = <<>> <=> Len(s) = 1
    BY <1>2, <1>5, <1>7
  <1>9. \A u \in Threads : DOMAIN stack[u] = 1 .. Len(stack[u]) /\ DOMAIN stack'[u] = 1 .. Len(stack'[u])
    BY <1>6, LenProperties
  <1>10. QED
    BY <1>1, <1>2, <1>4, <1>7, <1>8, <1>9, Zenon DEF s

-----------------------------------------------------------------------------
(* Steps: one lemma for each part of the invariant.                        *)

\* Every step keeps the types.
LEMMA TypeStep == IInv /\ [Next]_vars => TypeOK'
  <1> SUFFICES ASSUME IInv, [Next]_vars PROVE TypeOK'
    OBVIOUS
  <1> USE HooksAssumption
  <1>0. TypeOK /\ OpInv
    BY DEF IInv
  <1>a. ASSUME NEW t \in Threads, stack[t] # <<>>, Return(t)
        PROVE  /\ stack' \in [Threads -> Seq(Pcs)]
               /\ op' \in [Threads -> [ev : {"none", "alloc", "free", "realloc"}, blk : Blocks \cup {None}]]
               /\ heap' \in [Blocks -> {"free", "used", "freeing"}]
    <2>1. stack' \in [Threads -> Seq(Pcs)]
      BY <1>0, <1>a, PopFacts, Zenon DEF Return
    <2>2. op' \in [Threads -> [ev : {"none", "alloc", "free", "realloc"}, blk : Blocks \cup {None}]]
      BY <1>0, <1>a, Zenon DEF Return, TypeOK
    <2>3. heap' \in [Blocks -> {"free", "used", "freeing"}]
      BY <1>0, <1>a, Zenon DEF Return, TypeOK
    <2>4. QED
      BY <2>1, <2>2, <2>3
  <1>1. ASSUME NEW t \in Threads, NEW p \in Blocks, je_malloc(t, p) PROVE TypeOK'
    <2>1. \E pc \in Pcs : stack' = [stack EXCEPT ![t] = <<pc>>]
      BY <1>1, Zenon DEF je_malloc, Pcs
    <2>2. stack' \in [Threads -> Seq(Pcs)]
      BY <1>0, <2>1, EnterFacts, Zenon
    <2>3. op' \in [Threads -> [ev : {"none", "alloc", "free", "realloc"}, blk : Blocks \cup {None}]]
      BY <1>0, <1>1, Zenon DEF je_malloc, Begin, TypeOK
    <2>4. QED
      BY <1>0, <1>1, <2>2, <2>3 DEF je_malloc, TypeOK
  <1>2. ASSUME NEW t \in Threads, NEW p \in Blocks, je_free(t, p) PROVE TypeOK'
    <2>1. stack' \in [Threads -> Seq(Pcs)]
      BY <1>0, <1>2, EnterFacts, Zenon DEF je_free, Pcs
    <2>2. op' \in [Threads -> [ev : {"none", "alloc", "free", "realloc"}, blk : Blocks \cup {None}]]
      BY <1>0, <1>2, Zenon DEF je_free, Begin, TypeOK
    <2>3. QED
      BY <1>0, <1>2, <2>1, <2>2 DEF je_free, Freed, TypeOK
  <1>3. ASSUME NEW t \in Threads, NEW p \in Blocks, NEW r \in Blocks, je_realloc(t, p, r) PROVE TypeOK'
    <2>1. stack' \in [Threads -> Seq(Pcs)]
      BY <1>0, <1>3, EnterFacts, Zenon DEF je_realloc, Pcs
    <2>2. op' \in [Threads -> [ev : {"none", "alloc", "free", "realloc"}, blk : Blocks \cup {None}]]
      BY <1>0, <1>3, Zenon DEF je_realloc, Begin, TypeOK
    <2>3. QED
      BY <1>0, <1>3, <2>1, <2>2 DEF je_realloc, TypeOK
  <1>4. ASSUME NEW t \in Threads, NestedMallocInit(t) \/ NestedInit(t) PROVE TypeOK'
    <2>1. stack' \in [Threads -> Seq(Pcs)]
      BY <1>0, <1>4, PushFacts DEF NestedMallocInit, NestedInit
    <2>2. nests' \in 0 .. InitNests
      BY <1>0, <1>4 DEF NestedMallocInit, NestedInit, TypeOK
    <2>3. QED
      BY <1>0, <1>4, <2>1, <2>2 DEF NestedMallocInit, NestedInit, TypeOK
  <1>5. ASSUME NEW t \in Threads, MallocInitDone(t) \/ LogAllocLoad(t) \/ shambles_init(t) PROVE TypeOK'
    <2>1. \E pc \in Pcs : Goto(t, pc)
      BY <1>5 DEF MallocInitDone, LogAllocLoad, shambles_init, Pcs
    <2>2. stack[t] # <<>>
      BY <1>5 DEF MallocInitDone, LogAllocLoad, shambles_init, At
    <2>3. stack' \in [Threads -> Seq(Pcs)]
      BY <1>0, <2>1, <2>2, GotoFacts
    <2>4. QED
      BY <1>0, <1>5, <2>3 DEF MallocInitDone, LogAllocLoad, shambles_init, TypeOK
  <1>6. ASSUME NEW t \in Threads, LogAllocExchange(t) PROVE TypeOK'
    <2>1. CASE Claims
      <3>1. stack' \in [Threads -> Seq(Pcs)]
        BY <1>0, <1>6, <2>1, GotoFacts DEF LogAllocExchange, At, Pcs
      <3>2. QED
        BY <1>0, <1>6, <2>1, <3>1 DEF LogAllocExchange, Claimed, TypeOK
    <2>2. CASE ~Claims
      <3>1. Return(t) /\ stack[t] # <<>>
        BY <1>6, <2>2 DEF LogAllocExchange, At
      <3>2. QED
        BY <1>0, <1>6, <1>a, <2>2, <3>1 DEF LogAllocExchange, Claimed, TypeOK
    <2>3. QED
      BY <2>1, <2>2
  <1>7. ASSUME NEW t \in Threads, LogAllocStore(t) PROVE TypeOK'
    BY <1>0, <1>7, <1>a DEF LogAllocStore, At, Started, TypeOK
  <1>8. ASSUME NEW t \in Threads, LogAllocReport(t) PROVE TypeOK'
    <2>1. op[t].ev = "alloc" => op[t].blk \in Blocks
      BY <1>0 DEF OpInv
    <2>2. known' \subseteq Blocks /\ moved' \subseteq Blocks
      BY <1>0, <1>8, <2>1 DEF LogAllocReport, TypeOK
    <2>3. QED
      BY <1>0, <1>8, <1>a, <2>2 DEF LogAllocReport, At, TypeOK
  <1>9. CASE UNCHANGED vars
    BY <1>0, <1>9 DEF vars, TypeOK
  <1>10. QED
    BY <1>1, <1>2, <1>3, <1>4, <1>5, <1>6, <1>7, <1>8, <1>9 DEF Next

\* Every step keeps what the frames tell.
LEMMA FramesStep == IInv /\ [Next]_vars => FramesInv'
  <1> SUFFICES ASSUME IInv, [Next]_vars PROVE FramesInv'
    OBVIOUS
  <1> USE HooksAssumption DEF Starting, Ended
  <1>0. TypeOK /\ FramesInv /\ AloneInv
    BY DEF IInv
  <1>1. ASSUME NEW t \in Threads, NEW p \in Blocks,
               je_free(t, p) \/ \E r \in Blocks : je_realloc(t, p, r)
        PROVE  FramesInv'
    <2>1. stack' = [stack EXCEPT ![t] = <<"load">>] /\ UNCHANGED <<malloc_init_state, shambles_inited_n>>
      BY <1>1 DEF je_free, je_realloc
    <2>2. "load" \in Pcs
      BY DEF Pcs
    <2>3. QED
      BY <1>0, <2>1, <2>2, EnterFacts DEF FramesInv, Frame
  <1>2. ASSUME NEW t \in Threads, NEW p \in Blocks, je_malloc(t, p) PROVE FramesInv'
    <2>1. CASE Ended
      <3>1. stack' = [stack EXCEPT ![t] = <<"load">>] /\ UNCHANGED <<malloc_init_state, shambles_inited_n>>
        BY <1>2, <2>1 DEF je_malloc
      <3>2. "load" \in Pcs
        BY DEF Pcs
      <3>3. QED
        BY <1>0, <3>1, <3>2, EnterFacts DEF FramesInv, Frame
    <2>2. CASE ~Ended
      <3>1. /\ stack' = [stack EXCEPT ![t] = <<"mallocinit">>] /\ shambles_inited_n' = shambles_inited_n
            /\ malloc_init_state' = "recursible" /\ Spawned(t)
        BY <1>2, <2>2 DEF je_malloc, Begin
      <3>2. "mallocinit" \in Pcs /\ t = Main
        BY <2>2, <3>1 DEF Pcs, Spawned
      <3>3. \A u \in Threads : u # Main => stack[u] = <<>>
        BY <1>0, <2>2 DEF AloneInv
      <3>4. /\ \A u \in Threads : u # t => stack'[u] = stack[u] /\ DOMAIN stack'[u] = 1 .. Len(stack'[u])
            /\ stack'[t][1] = "mallocinit" /\ Len(stack'[t]) = 1 /\ DOMAIN stack'[t] = 1 .. Len(stack'[t])
        BY <1>0, <3>1, <3>2, EnterFacts, Zenon
      <3>5. \A u \in Threads : \A i \in DOMAIN stack'[u] : u = t /\ i = 1
        BY <3>2, <3>3, <3>4
      <3>6. QED
        BY <3>1, <3>2, <3>4, <3>5 DEF FramesInv, Frame
    <2>3. QED
      BY <2>1, <2>2
  <1>3. ASSUME NEW t \in Threads, NestedMallocInit(t) \/ NestedInit(t) PROVE FramesInv'
    <2>1. Push(t) /\ stack[t] # <<>> /\ stack[t][Len(stack[t])] \in {"mallocinit", "init"}
          /\ UNCHANGED <<malloc_init_state, shambles_inited_n>>
      BY <1>3 DEF NestedMallocInit, NestedInit, At, Top
    <2>2. QED
      BY <1>0, <2>1, PushFacts DEF FramesInv, Frame
  <1>4. ASSUME NEW t \in Threads, MallocInitDone(t) PROVE FramesInv'
    <2>1. /\ Goto(t, "load") /\ stack[t] # <<>> /\ stack[t][Len(stack[t])] = "mallocinit" /\ "load" \in Pcs
          /\ shambles_inited_n' = shambles_inited_n /\ malloc_init_state' = "initialized"
      BY <1>4 DEF MallocInitDone, At, Top, Pcs
    <2>2. Len(stack[t]) \in DOMAIN stack[t]
      BY <1>0, <2>1, GotoFacts
    <2>3. t = Main /\ Len(stack[t]) = 1
      BY <1>0, <2>1, <2>2, Zenon DEF FramesInv, Frame
    <2>4. \A u \in Threads : u # t => stack[u] = <<>>
      BY <1>0, <2>1, <2>2, <2>3 DEF AloneInv
    <2>5. /\ \A u \in Threads : u # t => DOMAIN stack'[u] = {}
          /\ Len(stack'[t]) = 1 /\ DOMAIN stack'[t] = 1 .. 1 /\ stack'[t][1] = "load"
      BY <1>0, <2>1, <2>3, <2>4, GotoFacts
    <2>6. \A u \in Threads : \A i \in DOMAIN stack'[u] : u = t /\ i = 1
      BY <2>5
    <2>7. Frame(t, 1)'
      BY <2>5 DEF Frame
    <2>8. QED
      BY <2>6, <2>7 DEF FramesInv
  <1>5. ASSUME NEW t \in Threads, LogAllocLoad(t) PROVE FramesInv'
    <2> DEFINE pc == IF malloc_init_state # "initialized" \/ shambles_inited_n # 0 THEN "exchange" ELSE "report"
    <2>1. /\ Goto(t, pc) /\ stack[t] # <<>> /\ stack[t][Len(stack[t])] = "load" /\ pc \in Pcs
          /\ UNCHANGED <<malloc_init_state, shambles_inited_n>>
      BY <1>5 DEF LogAllocLoad, At, Top, Pcs
    <2> HIDE DEF pc
    <2>a. DOMAIN stack[t] = 1 .. Len(stack[t]) /\ Len(stack[t]) >= 1 /\ Len(stack[t]) \in Nat
      BY <1>0, <2>1, GotoFacts
    <2>b. Len(stack[t]) # 1 => 1 \in DOMAIN stack[t] /\ 1 < Len(stack[t])
      <3> DEFINE n == Len(stack[t])
      <3>1. DOMAIN stack[t] = 1 .. n /\ n >= 1 /\ n \in Nat
        BY <2>a
      <3> HIDE DEF n
      <3>2. n # 1 => 1 \in DOMAIN stack[t] /\ 1 < n
        BY <3>1
      <3>3. QED
        BY <3>2 DEF n
    <2>2. pc = "report" => Len(stack[t]) = 1
      <3> SUFFICES ASSUME pc = "report", Len(stack[t]) # 1 PROVE FALSE
        OBVIOUS
      <3>1. 1 \in DOMAIN stack[t] /\ 1 < Len(stack[t])
        BY <2>b
      <3>2. shambles_inited_n = 0 /\ Ended
        BY DEF pc
      <3>3. QED
        BY <1>0, <3>1, <3>2 DEF FramesInv, Frame
    <2>3. pc = "exchange" /\ shambles_inited_n = 0 => ~Ended
      BY DEF pc
    <2>4. pc = "report" => shambles_inited_n = 0 /\ Ended
      BY DEF pc
    <2>5. pc \in {"exchange", "report"}
      BY DEF pc
    <2>6. QED
      BY <1>0, <2>1, <2>2, <2>3, <2>4, <2>5, GotoFacts DEF FramesInv, Frame
  <1>6. ASSUME NEW t \in Threads, LogAllocExchange(t) PROVE FramesInv'
    <2>1. /\ stack[t] # <<>> /\ stack[t][Len(stack[t])] = "exchange" /\ "init" \in Pcs
          /\ shambles_inited_n' = 2 /\ malloc_init_state' = malloc_init_state
      BY <1>6 DEF LogAllocExchange, At, Top, Pcs, Claimed
    <2>2. CASE Claims
      <3>1. Goto(t, "init") /\ shambles_inited_n = 1
        BY <1>6, <2>2 DEF LogAllocExchange, Claims
      <3>2. \A u \in Threads : u # Main => stack[u] = <<>>
        BY <1>0, <3>1 DEF AloneInv
      <3>3. t = Main
        BY <2>1, <3>2
      <3>4. \A u \in Threads : u # t => DOMAIN stack'[u] = {}
        BY <1>0, <2>1, <3>1, <3>2, <3>3, GotoFacts
      <3>5. QED
        BY <1>0, <2>1, <3>1, <3>3, <3>4, GotoFacts DEF FramesInv, Frame
    <2>3. CASE ~Claims
      <3>1. stack' = [stack EXCEPT ![t] = SubSeq(@, 1, Len(@) - 1)] /\ shambles_inited_n # 1
        BY <1>6, <2>3 DEF LogAllocExchange, Claims, Return
      <3>2. Len(stack[t]) \in DOMAIN stack[t]
        BY <1>0, <2>1, <3>1, PopFacts
      <3>3. shambles_inited_n = 0 => ~Ended
        BY <1>0, <2>1, <3>2 DEF FramesInv, Frame
      <3>4. \A u \in Threads : \A i \in DOMAIN stack[u] : stack[u][i] # "report"
        BY <1>0, <3>3, <2>1, <3>1 DEF FramesInv, Frame, TypeOK
      <3>5. QED
        BY <1>0, <2>1, <3>1, <3>4, PopFacts DEF FramesInv, Frame
    <2>4. QED
      BY <2>2, <2>3
  <1>7. ASSUME NEW t \in Threads, shambles_init(t) PROVE FramesInv'
    <2>1. /\ Goto(t, "store") /\ stack[t] # <<>> /\ stack[t][Len(stack[t])] = "init" /\ "store" \in Pcs
          /\ UNCHANGED <<malloc_init_state, shambles_inited_n>>
      BY <1>7 DEF shambles_init, At, Top, Pcs
    <2>2. Len(stack[t]) \in DOMAIN stack[t]
      BY <1>0, <2>1, GotoFacts
    <2>3. t = Main /\ shambles_inited_n = 2
      BY <1>0, <2>1, <2>2 DEF FramesInv, Frame
    <2>4. QED
      BY <1>0, <2>1, <2>3, GotoFacts DEF FramesInv, Frame
  <1>8. ASSUME NEW t \in Threads, LogAllocStore(t) PROVE FramesInv'
    <2>1. /\ stack' = [stack EXCEPT ![t] = SubSeq(@, 1, Len(@) - 1)] /\ shambles_inited_n' = 0
          /\ stack[t] # <<>> /\ stack[t][Len(stack[t])] = "store" /\ malloc_init_state' = malloc_init_state
      BY <1>8 DEF LogAllocStore, At, Top, Return, Started
    <2>2. Len(stack[t]) \in DOMAIN stack[t]
      BY <1>0, <2>1, PopFacts
    <2>3. t = Main
      BY <1>0, <2>1, <2>2 DEF FramesInv, Frame
    <2>4. \A u \in Threads : u # t => stack[u] = <<>>
      BY <1>0, <2>1, <2>2, <2>3 DEF AloneInv
    <2>5. \A u \in Threads : u # t => DOMAIN stack'[u] = {}
      BY <1>0, <2>1, <2>4, PopFacts
    <2>6. \A i \in DOMAIN stack[t] : i < Len(stack[t]) => stack[t][i] = "mallocinit"
      BY <1>0, <2>1, <2>2, <2>3 DEF FramesInv, Frame, AloneInv
    <2>7. /\ DOMAIN stack[t] = 1 .. Len(stack[t]) /\ DOMAIN stack'[t] = 1 .. Len(stack[t]) - 1
          /\ Len(stack'[t]) = Len(stack[t]) - 1 /\ Len(stack[t]) \in Nat
          /\ \A i \in 1 .. Len(stack[t]) - 1 : stack'[t][i] = stack[t][i]
      BY <1>0, <2>1, PopFacts, Zenon
    <2>8. \A i \in DOMAIN stack'[t] : stack'[t][i] = "mallocinit" /\ i = 1 /\ malloc_init_state = "recursible"
      BY <1>0, <2>6, <2>7 DEF FramesInv, Frame
    <2>9. \A u \in Threads : \A i \in DOMAIN stack'[u] : u = Main /\ stack'[u][i] = "mallocinit" /\ i = 1
      BY <2>3, <2>5, <2>8
    <2>10. \A u \in Threads : \A i \in DOMAIN stack'[u] : malloc_init_state' = "recursible"
      BY <2>1, <2>3, <2>5, <2>8
    <2>11. QED
      BY <2>9, <2>10 DEF FramesInv, Frame
  <1>9. ASSUME NEW t \in Threads, LogAllocReport(t) PROVE FramesInv'
    <2>1. /\ stack' = [stack EXCEPT ![t] = SubSeq(@, 1, Len(@) - 1)] /\ stack[t] # <<>>
          /\ UNCHANGED <<malloc_init_state, shambles_inited_n>>
      BY <1>9 DEF LogAllocReport, At, Return
    <2>2. QED
      BY <1>0, <2>1, PopFacts DEF FramesInv, Frame
  <1>10. CASE UNCHANGED vars
    BY <1>0, <1>10 DEF vars, FramesInv, Frame
  <1>11. QED
    BY <1>1, <1>2, <1>3, <1>4, <1>5, <1>6, <1>7, <1>8, <1>9, <1>10 DEF Next

\* A thread inside a call has begun malloc's initialisation, and is the main
\* thread until it is over.
LEMMA Inside ==
  ASSUME IInv, NEW t \in Threads, stack[t] # <<>>
  PROVE  /\ malloc_init_state # "uninitialized"
         /\ ~Ended => t = Main /\ stack[t][1] = "mallocinit" /\ malloc_init_state = "recursible"
         /\ 1 \in DOMAIN stack[t] /\ Len(stack[t]) \in DOMAIN stack[t]
         /\ DOMAIN stack[t] = 1 .. Len(stack[t]) /\ Len(stack[t]) \in Nat /\ Len(stack[t]) >= 1
  <1>1. TypeOK /\ FramesInv /\ AloneInv
    BY DEF IInv
  <1>2. stack[t] \in Seq(Pcs)
    BY <1>1 DEF TypeOK
  <1>3. DOMAIN stack[t] = 1 .. Len(stack[t]) /\ Len(stack[t]) \in Nat /\ Len(stack[t]) >= 1
    BY <1>2
  <1>4. 1 \in DOMAIN stack[t] /\ Len(stack[t]) \in DOMAIN stack[t]
    BY <1>3
  <1>5. ~Ended => t = Main /\ stack[t][1] = "mallocinit"
    BY <1>1 DEF AloneInv
  <1>6. stack[t][1] = "mallocinit" => malloc_init_state = "recursible"
    BY <1>1, <1>4 DEF FramesInv, Frame
  <1>7. QED
    BY <1>3, <1>4, <1>5, <1>6 DEF Ended

\* While the main thread starts the plugin or initialises malloc, it is alone.
LEMMA MainAlone ==
  ASSUME IInv, NEW t \in Threads, NEW i \in DOMAIN stack[t], stack[t][i] \in {"mallocinit", "init", "store"}
  PROVE  t = Main /\ \A u \in Threads : u # t => stack[u] = <<>>
  <1>1. t = Main
    BY DEF IInv, FramesInv, Frame
  <1>2. QED
    BY <1>1 DEF IInv, AloneInv

\* free and realloc are called on an initialised heap.
LEMMA HeapReady ==
  ASSUME IInv, NEW t \in Threads, NEW p \in Blocks,
         je_free(t, p) \/ \E r \in Blocks : je_realloc(t, p, r)
  PROVE  Ended
  <1>1. Spawned(t) /\ stack[t] = <<>> /\ heap[p] = "used"
    BY DEF je_free, je_realloc, Begin
  <1>2. malloc_init_state # "uninitialized"
    BY <1>1 DEF IInv, AloneInv
  <1>3. malloc_init_state # "recursible"
    BY <1>1 DEF IInv, AloneInv, Spawned
  <1>4. QED
    BY <1>2, <1>3 DEF IInv, TypeOK, Ended

\* Every step keeps the main thread alone where it must be.
LEMMA AloneStep == IInv /\ [Next]_vars => AloneInv'
  <1> SUFFICES ASSUME IInv, [Next]_vars PROVE AloneInv'
    OBVIOUS
  <1> USE HooksAssumption DEF Starting, Ended
  <1>0. TypeOK /\ FramesInv /\ AloneInv
    BY DEF IInv
  <1>a. ASSUME NEW t \in Threads, Spawned(t), Ended, malloc_init_state' = malloc_init_state,
               shambles_inited_n' = shambles_inited_n, stack' = [stack EXCEPT ![t] = <<"load">>]
        PROVE  AloneInv'
    <2>1. "load" \in Pcs
      BY DEF Pcs
    <2>2. CASE t = Main
      BY <1>0, <1>a, <2>1, <2>2, EnterFacts DEF AloneInv
    <2>3. CASE t # Main
      BY <1>0, <1>a, <2>1, <2>3, EnterFacts DEF AloneInv, Spawned
    <2>4. QED
      BY <2>2, <2>3
  <1>b. ASSUME NEW t \in Threads, stack[t] # <<>>, Return(t), Top(t) \in {"exchange", "store", "report"},
               shambles_inited_n' # 1, malloc_init_state' = malloc_init_state, nests' = nests
        PROVE  AloneInv'
    <2>1. /\ \A u \in Threads : u # t => stack'[u] = stack[u]
          /\ Len(stack'[t]) = Len(stack[t]) - 1 /\ Len(stack[t]) >= 1 /\ Len(stack[t]) \in Nat
          /\ stack'[t] = <<>> <=> Len(stack[t]) = 1
          /\ \A i \in 1 .. Len(stack[t]) - 1 : stack'[t][i] = stack[t][i]
          /\ \A u \in Threads : DOMAIN stack[u] = 1 .. Len(stack[u]) /\ DOMAIN stack'[u] = 1 .. Len(stack'[u])
      BY <1>0, <1>b, PopFacts, Zenon DEF Return
    <2>2. \A u \in Threads : \A i \in DOMAIN stack'[u] : i \in DOMAIN stack[u] /\ stack'[u][i] = stack[u][i]
      BY <2>1
    <2>3. \A i, j \in DOMAIN stack'[Main] : stack'[Main][i] \in Starting /\ stack'[Main][j] \in Starting => i = j
      BY <1>0, <2>2 DEF AloneInv
    <2>4. \A u \in Threads \ {Main} : stack'[u] # <<>> => stack[u] # <<>>
      BY <1>b, <2>1
    <2>5. \A u \in Threads \ {Main} : stack'[u] # <<>> =>
             /\ Ended /\ shambles_inited_n' # 1
             /\ \A i \in DOMAIN stack'[Main] : stack'[Main][i] \notin {"mallocinit", "init", "store"}
      BY <1>0, <1>b, <2>2, <2>4 DEF AloneInv
    <2>6. malloc_init_state # "uninitialized" /\ (~Ended => t = Main /\ stack[t][1] = "mallocinit")
      BY <1>b, Inside
    <2>7. ~Ended => Len(stack[t]) >= 2
      BY <1>b, <2>1, <2>6 DEF Top
    <2>8. ~Ended => stack'[Main] # <<>> /\ stack'[Main][1] = "mallocinit"
      BY <2>1, <2>6, <2>7
    <2>9. ~Ended /\ Len(stack'[Main]) >= 2 => nests >= 1
      BY <1>0, <2>1, <2>6 DEF AloneInv
    <2>10. QED
      BY <1>b, <2>3, <2>5, <2>6, <2>8, <2>9 DEF AloneInv
  <1>1. ASSUME NEW t \in Threads, NEW p \in Blocks,
               je_free(t, p) \/ \E r \in Blocks : je_realloc(t, p, r)
        PROVE  AloneInv'
    BY <1>1, <1>a, HeapReady DEF je_free, je_realloc, Begin
  <1>2. ASSUME NEW t \in Threads, NEW p \in Blocks, je_malloc(t, p) PROVE AloneInv'
    <2>1. CASE Ended
      BY <1>2, <1>a, <2>1, Zenon DEF je_malloc, Begin
    <2>2. CASE ~Ended
      <3>1. /\ stack' = [stack EXCEPT ![t] = <<"mallocinit">>] /\ malloc_init_state' = "recursible"
            /\ Spawned(t) /\ "mallocinit" \in Pcs
        BY <1>2, <2>2 DEF je_malloc, Begin, Pcs
      <3>2. t = Main /\ \A u \in Threads : u # Main => stack[u] = <<>>
        BY <1>0, <2>2, <3>1 DEF Spawned, AloneInv
      <3>3. /\ \A u \in Threads : u # Main => stack'[u] = <<>>
            /\ stack'[Main] = <<"mallocinit">> /\ Len(stack'[Main]) = 1 /\ stack'[Main][1] = "mallocinit"
            /\ DOMAIN stack'[Main] = 1 .. Len(stack'[Main])
        BY <1>0, <3>1, <3>2, EnterFacts, Zenon
      <3>4. stack'[Main] # <<>> /\ \A i \in DOMAIN stack'[Main] : i = 1
        BY <3>3
      <3>5. \A i, j \in DOMAIN stack'[Main] : i = j
        BY <3>4
      <3>6. ~(Len(stack'[Main]) >= 2) /\ stack'[Main][1] = "mallocinit" /\ stack'[Main] # <<>>
        BY <3>3, <3>4
      <3>7. \A u \in Threads \ {Main} : stack'[u] = <<>>
        BY <3>3
      <3>8. QED
        BY <3>1, <3>5, <3>6, <3>7 DEF AloneInv
    <2>3. QED
      BY <2>1, <2>2
  <1>3. ASSUME NEW t \in Threads, NestedMallocInit(t) \/ NestedInit(t) PROVE AloneInv'
    <2>1. /\ Push(t) /\ stack[t] # <<>> /\ stack[t][Len(stack[t])] \in {"mallocinit", "init"}
          /\ malloc_init_state' = malloc_init_state
      BY <1>3 DEF NestedMallocInit, NestedInit, At, Top
    <2>2. t = Main /\ \A u \in Threads : u # t => stack[u] = <<>>
      BY <2>1, Inside, MainAlone
    <2>3. /\ \A u \in Threads : u # Main => stack'[u] = <<>>
          /\ Len(stack'[Main]) = Len(stack[Main]) + 1 /\ Len(stack[Main]) >= 1 /\ Len(stack[Main]) \in Nat
          /\ \A i \in 1 .. Len(stack[Main]) : stack'[Main][i] = stack[Main][i]
          /\ stack'[Main][Len(stack[Main]) + 1] = "load"
          /\ DOMAIN stack[Main] = 1 .. Len(stack[Main]) /\ DOMAIN stack'[Main] = 1 .. Len(stack'[Main])
          /\ stack'[Main] # <<>>
      <3>1. Len(stack[Main]) >= 1 /\ Len(stack[Main]) \in Nat
        BY <2>1, <2>2, Inside
      <3>2. stack' \in [Threads -> Seq(Pcs)] /\ Len(stack'[Main]) = Len(stack[Main]) + 1
        BY <1>0, <2>1, <2>2, PushFacts
      <3>3. stack'[Main] # <<>>
        BY <3>1, <3>2
      <3>4. QED
        BY <1>0, <2>1, <2>2, <3>1, <3>3, PushFacts
    <2>4. \A i, j \in DOMAIN stack'[Main] : stack'[Main][i] \in Starting /\ stack'[Main][j] \in Starting => i = j
      <3>1. \A i \in DOMAIN stack'[Main] : i \in DOMAIN stack[Main] \/ i = Len(stack[Main]) + 1
        BY <2>3
      <3>2. \A i \in DOMAIN stack'[Main] : stack'[Main][i] \in Starting =>
               i \in DOMAIN stack[Main] /\ stack[Main][i] \in Starting
        BY <2>3, <3>1
      <3>3. QED
        BY <1>0, <3>2 DEF AloneInv
    <2>5. malloc_init_state # "uninitialized" /\ (~Ended => stack[Main][1] = "mallocinit")
      BY <2>1, <2>2, Inside
    <2>6. ~Ended => nests' >= 1
      <3>1. CASE NestedMallocInit(t)
        BY <1>0, <3>1 DEF NestedMallocInit, TypeOK
      <3>2. CASE NestedInit(t)
        <4>1. ~Ended => Len(stack[Main]) >= 2
          BY <2>2, <2>3, <2>5, <3>2 DEF NestedInit, At, Top
        <4>2. QED
          BY <1>0, <3>2, <4>1 DEF NestedInit, AloneInv
      <3>3. QED
        BY <1>3, <3>1, <3>2
    <2>7. QED
      BY <1>0, <2>1, <2>3, <2>4, <2>5, <2>6 DEF AloneInv
  <1>4. ASSUME NEW t \in Threads, MallocInitDone(t) PROVE AloneInv'
    <2>1. /\ Goto(t, "load") /\ stack[t] # <<>> /\ stack[t][Len(stack[t])] = "mallocinit" /\ "load" \in Pcs
          /\ malloc_init_state' = "initialized"
      BY <1>4 DEF MallocInitDone, At, Top, Pcs
    <2>2. t = Main /\ Len(stack[t]) = 1 /\ \A u \in Threads : u # t => stack[u] = <<>>
      <3>1. Len(stack[t]) \in DOMAIN stack[t]
        BY <2>1, Inside
      <3>2. QED
        BY <1>0, <2>1, <3>1, MainAlone, Zenon DEF FramesInv, Frame
    <2>3. \A u \in Threads : u # Main => stack'[u] = <<>>
      BY <1>0, <2>1, <2>2, GotoFacts
    <2>4. Len(stack'[Main]) = 1 /\ DOMAIN stack'[Main] = 1 .. Len(stack'[Main])
      BY <1>0, <2>1, <2>2, GotoFacts
    <2>5. QED
      BY <2>1, <2>3, <2>4 DEF AloneInv
  <1>5. ASSUME NEW t \in Threads, NEW pc \in {"exchange", "report"}, At(t, "load"), Goto(t, pc),
               UNCHANGED <<malloc_init_state, shambles_inited_n, nests, heap>>
        PROVE  AloneInv'
    <2>1. stack[t] # <<>> /\ stack[t][Len(stack[t])] = "load" /\ pc \in Pcs
      BY <1>5 DEF At, Top, Pcs
    <2>2. /\ \A u \in Threads : u # t => stack'[u] = stack[u]
          /\ Len(stack'[t]) = Len(stack[t]) /\ Len(stack[t]) >= 1 /\ Len(stack[t]) \in Nat
          /\ \A i \in 1 .. Len(stack[t]) - 1 : stack'[t][i] = stack[t][i]
          /\ stack'[t][Len(stack[t])] = pc
          /\ \A u \in Threads : DOMAIN stack[u] = 1 .. Len(stack[u]) /\ DOMAIN stack'[u] = 1 .. Len(stack'[u])
      BY <1>0, <1>5, <2>1, GotoFacts
    <2>3. \A u \in Threads : \A i \in DOMAIN stack'[u] :
             i \in DOMAIN stack[u] /\ (stack'[u][i] = stack[u][i] \/ stack'[u][i] \in {"exchange", "report"})
      BY <1>5, <2>2
    <2>4. \A i, j \in DOMAIN stack'[Main] : stack'[Main][i] \in Starting /\ stack'[Main][j] \in Starting => i = j
      BY <1>0, <2>3 DEF AloneInv
    <2>5. \A u \in Threads \ {Main} : stack'[u] # <<>> =>
             /\ Ended /\ shambles_inited_n # 1
             /\ \A i \in DOMAIN stack'[Main] : stack'[Main][i] \notin {"mallocinit", "init", "store"}
      BY <1>0, <2>1, <2>2, <2>3 DEF AloneInv
    <2>6. malloc_init_state # "uninitialized" /\ (~Ended => t = Main /\ stack[t][1] = "mallocinit")
      BY <2>1, Inside
    <2>7. ~Ended => Len(stack[t]) >= 2
      BY <2>1, <2>2, <2>6
    <2>8. ~Ended => stack'[Main] # <<>> /\ stack'[Main][1] = "mallocinit"
      <3>1. Len(stack'[t]) # 0 => stack'[t] # <<>>
        OBVIOUS
      <3>2. QED
        BY <2>2, <2>6, <2>7, <3>1
    <2>9. ~Ended /\ Len(stack'[Main]) >= 2 => nests >= 1
      BY <1>0, <2>2, <2>6 DEF AloneInv
    <2>10. QED
      BY <1>5, <2>4, <2>5, <2>6, <2>8, <2>9 DEF AloneInv
  <1>6. ASSUME NEW t \in Threads, LogAllocLoad(t) PROVE AloneInv'
    BY <1>5, <1>6 DEF LogAllocLoad
  <1>7. ASSUME NEW t \in Threads, NEW pc \in Starting, stack[t] # <<>>, Goto(t, pc), t = Main,
               \A u \in Threads : u # t => stack[u] = <<>>, Top(t) # "mallocinit",
               \A i \in 1 .. Len(stack[t]) - 1 : stack[t][i] \notin Starting,
               UNCHANGED <<malloc_init_state, nests, heap>>
        PROVE  AloneInv'
    <2>1. pc \in Pcs
      BY DEF Pcs
    <2>2. /\ \A u \in Threads : u # t => stack'[u] = stack[u]
          /\ Len(stack'[t]) = Len(stack[t]) /\ Len(stack[t]) >= 1 /\ Len(stack[t]) \in Nat
          /\ \A i \in 1 .. Len(stack[t]) - 1 : stack'[t][i] = stack[t][i]
          /\ stack'[t][Len(stack[t])] = pc
          /\ \A u \in Threads : DOMAIN stack[u] = 1 .. Len(stack[u]) /\ DOMAIN stack'[u] = 1 .. Len(stack'[u])
      BY <1>0, <1>7, <2>1, GotoFacts
    <2>3. \A u \in Threads : u # Main => stack'[u] = <<>>
      BY <1>7, <2>2
    <2>4. \A i \in DOMAIN stack'[Main] : stack'[Main][i] \in Starting => i = Len(stack[Main])
      BY <1>7, <2>2
    <2>5. malloc_init_state # "uninitialized" /\ (~Ended => stack[t][1] = "mallocinit")
      BY <1>7, Inside
    <2>6. ~Ended => Len(stack[t]) >= 2
      BY <1>7, <2>2, <2>5 DEF Top
    <2>7. ~Ended => stack'[Main][1] = "mallocinit"
      BY <1>7, <2>2, <2>5, <2>6
    <2>8. stack'[Main] # <<>>
      <3>1. Len(stack'[Main]) # 0 => stack'[Main] # <<>>
        OBVIOUS
      <3>2. QED
        BY <1>7, <2>2, <3>1
    <2>9. ~Ended => nests >= 1
      BY <1>0, <1>7, <2>6 DEF AloneInv
    <2>10. QED
      BY <1>7, <2>3, <2>4, <2>5, <2>7, <2>8, <2>9 DEF AloneInv
  <1>8. ASSUME NEW t \in Threads, LogAllocExchange(t) PROVE AloneInv'
    <2>1. stack[t] # <<>> /\ Top(t) = "exchange" /\ shambles_inited_n' = 2
      BY <1>8 DEF LogAllocExchange, At, Claimed
    <2>2. CASE Claims
      <3>1. Goto(t, "init") /\ shambles_inited_n = 1 /\ UNCHANGED <<malloc_init_state, nests, heap>>
        BY <1>8, <2>2 DEF LogAllocExchange, Claims
      <3>2. t = Main /\ \A u \in Threads : u # t => stack[u] = <<>>
        BY <1>0, <2>1, <3>1 DEF AloneInv
      <3>3. \A i \in DOMAIN stack[t] : stack[t][i] \notin Starting
        BY <1>0, <3>1 DEF FramesInv, Frame
      <3>4. DOMAIN stack[t] = 1 .. Len(stack[t]) /\ Len(stack[t]) \in Nat
        BY <2>1, Inside
      <3>5. \A i \in 1 .. Len(stack[t]) - 1 : stack[t][i] \notin Starting
        BY <3>3, <3>4
      <3>6. QED
        BY <1>7, <2>1, <3>1, <3>2, <3>5
    <2>3. CASE ~Claims
      BY <1>8, <1>b, <2>1, <2>3 DEF LogAllocExchange
    <2>4. QED
      BY <2>2, <2>3
  <1>9. ASSUME NEW t \in Threads, shambles_init(t) PROVE AloneInv'
    <2>1. /\ Goto(t, "store") /\ stack[t] # <<>> /\ stack[t][Len(stack[t])] = "init"
          /\ UNCHANGED <<malloc_init_state, nests, heap>>
      BY <1>9 DEF shambles_init, At, Top
    <2>2. DOMAIN stack[t] = 1 .. Len(stack[t]) /\ Len(stack[t]) \in Nat /\ Len(stack[t]) \in DOMAIN stack[t]
      BY <2>1, Inside
    <2>3. t = Main /\ \A u \in Threads : u # t => stack[u] = <<>>
      BY <2>1, <2>2, MainAlone
    <2>4. \A i \in DOMAIN stack[t] : stack[t][i] \in Starting => i = Len(stack[t])
      BY <1>0, <2>1, <2>2, <2>3 DEF AloneInv
    <2>5. \A i \in 1 .. Len(stack[t]) - 1 : stack[t][i] \notin Starting
      BY <2>2, <2>4
    <2>6. QED
      BY <1>7, <2>1, <2>3, <2>5 DEF Top
  <1>10. ASSUME NEW t \in Threads, LogAllocStore(t) PROVE AloneInv'
    BY <1>10, <1>b DEF LogAllocStore, At, Started
  <1>11. ASSUME NEW t \in Threads, LogAllocReport(t) PROVE AloneInv'
    <2>1. Len(stack[t]) \in DOMAIN stack[t] /\ stack[t][Len(stack[t])] = "report"
      BY <1>11, Inside DEF LogAllocReport, At, Top
    <2>2. shambles_inited_n = 0
      BY <1>0, <2>1 DEF FramesInv, Frame
    <2>3. QED
      BY <1>11, <1>b, <2>2 DEF LogAllocReport, At
  <1>12. CASE UNCHANGED vars
    BY <1>0, <1>12 DEF vars, AloneInv
  <1>13. QED
    BY <1>1, <1>2, <1>3, <1>4, <1>6, <1>8, <1>9, <1>10, <1>11, <1>12 DEF Next

\* Every step counts the starts, and reports nothing before their end.
LEMMA StartStep == IInv /\ [Next]_vars => StartInv'
  <1> SUFFICES ASSUME IInv, [Next]_vars PROVE StartInv'
    OBVIOUS
  <1> USE DEF Starting, Ended
  <1>0. TypeOK /\ FramesInv /\ StartInv
    BY DEF IInv
  <1>1. ASSUME NEW t \in Threads, NEW p \in Blocks,
               je_malloc(t, p) \/ je_free(t, p) \/ \E r \in Blocks : je_realloc(t, p, r)
        PROVE  StartInv'
    BY <1>0, <1>1 DEF je_malloc, je_free, je_realloc, StartInv
  <1>2. ASSUME NEW t \in Threads, NestedMallocInit(t) \/ NestedInit(t) \/ LogAllocLoad(t) PROVE StartInv'
    BY <1>0, <1>2 DEF NestedMallocInit, NestedInit, LogAllocLoad, StartInv
  <1>3. ASSUME NEW t \in Threads, MallocInitDone(t) PROVE StartInv'
    <2>1. Len(stack[t]) \in DOMAIN stack[t] /\ stack[t][Len(stack[t])] = "mallocinit"
      BY <1>3, Inside DEF MallocInitDone, At, Top
    <2>2. ~Ended
      BY <1>0, <2>1 DEF FramesInv, Frame
    <2>3. QED
      BY <1>0, <1>3, <2>2 DEF MallocInitDone, StartInv
  <1>4. ASSUME NEW t \in Threads, LogAllocExchange(t) PROVE StartInv'
    <2>1. Len(stack[t]) \in DOMAIN stack[t] /\ stack[t][Len(stack[t])] = "exchange"
      BY <1>4, Inside DEF LogAllocExchange, At, Top
    <2>2. known = {}
      BY <1>0, <2>1 DEF FramesInv, Frame, StartInv
    <2>3. QED
      BY <1>0, <1>4, <2>2 DEF LogAllocExchange, Claims, Claimed, StartInv
  <1>5. ASSUME NEW t \in Threads, shambles_init(t) PROVE StartInv'
    <2>1. Len(stack[t]) \in DOMAIN stack[t] /\ stack[t][Len(stack[t])] = "init"
      BY <1>5, Inside DEF shambles_init, At, Top
    <2>2. shambles_inited_n = 2
      BY <1>0, <2>1 DEF FramesInv, Frame
    <2>3. QED
      BY <1>0, <1>5, <2>2 DEF shambles_init, StartInv
  <1>6. ASSUME NEW t \in Threads, LogAllocStore(t) PROVE StartInv'
    <2>1. Len(stack[t]) \in DOMAIN stack[t] /\ stack[t][Len(stack[t])] = "store"
      BY <1>6, Inside DEF LogAllocStore, At, Top
    <2>2. shambles_inited_n = 2
      BY <1>0, <2>1 DEF FramesInv, Frame
    <2>3. QED
      BY <1>0, <1>6, <2>2 DEF LogAllocStore, Started, StartInv
  <1>7. ASSUME NEW t \in Threads, LogAllocReport(t) PROVE StartInv'
    <2>1. Len(stack[t]) \in DOMAIN stack[t] /\ stack[t][Len(stack[t])] = "report"
      BY <1>7, Inside DEF LogAllocReport, At, Top
    <2>2. shambles_inited_n = 0 /\ Ended
      BY <1>0, <2>1 DEF FramesInv, Frame
    <2>3. reportAllocFunc \in {"nop", "plugin"}
      BY <1>0 DEF TypeOK
    <2>4. QED
      BY <1>0, <1>7, <2>2, <2>3 DEF LogAllocReport, StartInv
  <1>8. CASE UNCHANGED vars
    BY <1>0, <1>8 DEF vars, StartInv
  <1>9. QED
    BY <1>1, <1>2, <1>3, <1>4, <1>5, <1>6, <1>7, <1>8 DEF Next

\* Returning from a call leaves the other calls their blocks.
LEMMA ReturnOp ==
  ASSUME IInv, NEW t \in Threads, stack[t] # <<>>, Return(t)
  PROVE  OpInv'
  <1>0. TypeOK /\ OpInv
    BY DEF IInv
  <1>1. /\ \A u \in Threads : u # t => stack'[u] = stack[u]
        /\ stack'[t] = <<>> <=> Len(stack[t]) = 1
    BY <1>0, PopFacts, Zenon DEF Return
  <1>2. CASE Len(stack[t]) = 1
    <2>1. /\ op'[t].ev = "none"
          /\ \A u \in Threads : u # t => op'[u] = op[u]
          /\ heap' = IF op[t].ev = "free" THEN [heap EXCEPT ![op[t].blk] = "free"] ELSE heap
      BY <1>0, <1>2 DEF Return, TypeOK
    <2>2. op[t].ev # "none" /\ op[t].blk \in Blocks
      BY <1>0 DEF OpInv
    <2>3. \A u \in Threads : u # t /\ op[u].ev # "none" => op[u].blk \in Blocks /\ op[u].blk # op[t].blk
      BY <1>0, <2>2 DEF OpInv
    <2>4. \A p \in Blocks : p # op[t].blk => heap'[p] = heap[p]
      BY <1>0, <2>1 DEF TypeOK
    <2>5. \A u \in Threads : stack'[u] # <<>> <=> op'[u].ev # "none"
      BY <1>0, <1>1, <1>2, <2>1 DEF OpInv
    <2>6. \A u \in Threads : op'[u].ev # "none" => u # t /\ op'[u] = op[u]
      BY <2>1
    <2>7. QED
      BY <1>0, <2>3, <2>4, <2>5, <2>6 DEF OpInv
  <1>3. CASE Len(stack[t]) # 1
    <2>1. UNCHANGED <<op, heap>>
      BY <1>3 DEF Return
    <2>2. QED
      BY <1>0, <1>1, <1>3, <2>1 DEF OpInv
  <1>4. QED
    BY <1>2, <1>3

\* Every step keeps a block in one call.
LEMMA OpStep == IInv /\ [Next]_vars => OpInv'
  <1> SUFFICES ASSUME IInv, [Next]_vars PROVE OpInv'
    OBVIOUS
  <1>0. TypeOK /\ OpInv
    BY DEF IInv
  <1>b. ASSUME NEW t \in Threads, stack[t] # <<>>, NEW pc \in Pcs, Goto(t, pc), UNCHANGED <<op, heap>>
        PROVE  OpInv'
    <2>1. Len(stack'[t]) >= 1 /\ \A u \in Threads : u # t => stack'[u] = stack[u]
      BY <1>0, <1>b, GotoFacts
    <2>2. stack'[t] # <<>>
      BY <2>1
    <2>3. QED
      BY <1>0, <1>b, <2>1, <2>2 DEF OpInv
  <1>1. ASSUME NEW t \in Threads, NEW p \in Blocks, je_malloc(t, p) PROVE OpInv'
    <2>1. \A u \in Threads : op[u].ev # "none" => op[u].blk # p
      BY <1>0, <1>1 DEF je_malloc, InCall, OpInv
    <2>2. op'[t].ev = "alloc" /\ op'[t].blk = p /\ \A u \in Threads : u # t => op'[u] = op[u]
      BY <1>0, <1>1 DEF je_malloc, Begin, TypeOK
    <2>3. heap'[p] = "used" /\ \A b \in Blocks : b # p => heap'[b] = heap[b]
      BY <1>0, <1>1 DEF je_malloc, Freed, TypeOK
    <2>4. PICK pc \in Pcs : stack' = [stack EXCEPT ![t] = <<pc>>]
      BY <1>1, Zenon DEF je_malloc, Pcs
    <2>5. stack'[t] # <<>> /\ \A u \in Threads : u # t => stack'[u] = stack[u]
      <3>1. stack'[t] = <<pc>> /\ \A u \in Threads : u # t => stack'[u] = stack[u]
        BY <1>0, <2>4, EnterFacts, Zenon
      <3>2. <<pc>> # <<>>
        OBVIOUS
      <3>3. QED
        BY ONLY <3>1, <3>2, Zenon
    <2>6. QED
      BY <1>0, <2>1, <2>2, <2>3, <2>5 DEF OpInv
  <1>2. ASSUME NEW t \in Threads, NEW p \in Blocks, je_free(t, p) PROVE OpInv'
    <2>1. \A u \in Threads : op[u].ev # "none" => op[u].blk # p
      BY <1>0, <1>2 DEF je_free, InCall, OpInv
    <2>2. op'[t].ev = "free" /\ op'[t].blk = p /\ \A u \in Threads : u # t => op'[u] = op[u]
      BY <1>0, <1>2 DEF je_free, Begin, TypeOK
    <2>3. heap'[p] = "freeing" /\ \A b \in Blocks : b # p => heap'[b] = heap[b]
      BY <1>0, <1>2 DEF je_free, Freed, TypeOK
    <2>4. PICK pc \in Pcs : stack' = [stack EXCEPT ![t] = <<pc>>]
      BY <1>2 DEF je_free, Pcs
    <2>5. stack'[t] # <<>> /\ \A u \in Threads : u # t => stack'[u] = stack[u]
      <3>1. stack'[t] = <<pc>> /\ \A u \in Threads : u # t => stack'[u] = stack[u]
        BY <1>0, <2>4, EnterFacts, Zenon
      <3>2. <<pc>> # <<>>
        OBVIOUS
      <3>3. QED
        BY ONLY <3>1, <3>2, Zenon
    <2>6. QED
      BY <1>0, <2>1, <2>2, <2>3, <2>5 DEF OpInv
  <1>3. ASSUME NEW t \in Threads, NEW p \in Blocks, NEW r \in Blocks, je_realloc(t, p, r) PROVE OpInv'
    <2>1. \A u \in Threads : op[u].ev # "none" => op[u].blk # r /\ op[u].blk # p
      BY <1>0, <1>3 DEF je_realloc, InCall, OpInv
    <2>2. op'[t].ev = "realloc" /\ op'[t].blk = r /\ \A u \in Threads : u # t => op'[u] = op[u]
      BY <1>0, <1>3 DEF je_realloc, Begin, TypeOK
    <2>3. heap'[r] = "used" /\ \A b \in Blocks : b # r /\ b # p => heap'[b] = heap[b]
      BY <1>0, <1>3 DEF je_realloc, Freed, TypeOK
    <2>4. PICK pc \in Pcs : stack' = [stack EXCEPT ![t] = <<pc>>]
      BY <1>3 DEF je_realloc, Pcs
    <2>5. stack'[t] # <<>> /\ \A u \in Threads : u # t => stack'[u] = stack[u]
      <3>1. stack'[t] = <<pc>> /\ \A u \in Threads : u # t => stack'[u] = stack[u]
        BY <1>0, <2>4, EnterFacts, Zenon
      <3>2. <<pc>> # <<>>
        OBVIOUS
      <3>3. QED
        BY ONLY <3>1, <3>2, Zenon
    <2>6. QED
      BY <1>0, <2>1, <2>2, <2>3, <2>5 DEF OpInv
  <1>4. ASSUME NEW t \in Threads, NestedMallocInit(t) \/ NestedInit(t) PROVE OpInv'
    <2>1. Push(t) /\ stack[t] # <<>> /\ UNCHANGED <<op, heap>>
      BY <1>4 DEF NestedMallocInit, NestedInit, At
    <2>2. Len(stack'[t]) = Len(stack[t]) + 1 /\ Len(stack[t]) >= 1 /\ Len(stack[t]) \in Nat
          /\ \A u \in Threads : u # t => stack'[u] = stack[u]
      BY <1>0, <2>1, PushFacts, Inside
    <2>3. stack'[t] # <<>>
      BY <2>2
    <2>4. QED
      BY <1>0, <2>1, <2>2, <2>3 DEF OpInv
  <1>5. ASSUME NEW t \in Threads, MallocInitDone(t) \/ LogAllocLoad(t) \/ shambles_init(t) PROVE OpInv'
    <2>1. \E pc \in Pcs : Goto(t, pc)
      BY <1>5 DEF MallocInitDone, LogAllocLoad, shambles_init, Pcs
    <2>2. stack[t] # <<>> /\ UNCHANGED <<op, heap>>
      BY <1>5 DEF MallocInitDone, LogAllocLoad, shambles_init, At
    <2>3. QED
      BY <1>b, <2>1, <2>2
  <1>6. ASSUME NEW t \in Threads, LogAllocExchange(t) PROVE OpInv'
    <2>1. CASE Claims
      BY <1>6, <1>b, <2>1 DEF LogAllocExchange, At, Pcs
    <2>2. CASE ~Claims
      BY <1>6, <2>2, ReturnOp DEF LogAllocExchange, At
    <2>3. QED
      BY <2>1, <2>2
  <1>7. ASSUME NEW t \in Threads, LogAllocStore(t) \/ LogAllocReport(t) PROVE OpInv'
    BY <1>7, ReturnOp DEF LogAllocStore, LogAllocReport, At
  <1>8. CASE UNCHANGED vars
    BY <1>0, <1>8 DEF vars, OpInv
  <1>9. QED
    BY <1>1, <1>2, <1>3, <1>4, <1>5, <1>6, <1>7, <1>8 DEF Next

\* Every step keeps the plugin's regions apart from the memory that is free.
LEMMA StaleStep == IInv /\ [Next]_vars => NoStaleRegion' /\ NewInv'
  <1> SUFFICES ASSUME IInv, [Next]_vars PROVE NoStaleRegion' /\ NewInv'
    OBVIOUS
  <1> USE DEF Starting, Ended
  <1>0. TypeOK /\ FramesInv /\ StartInv /\ OpInv /\ NoStaleRegion /\ NewInv
    BY DEF IInv
  <1>1. ASSUME NEW t \in Threads, NEW p \in Blocks, je_malloc(t, p) PROVE NoStaleRegion' /\ NewInv'
    <2>1. /\ op'[t].ev = "alloc" /\ op'[t].blk = p /\ \A u \in Threads : u # t => op'[u] = op[u]
          /\ \A b \in Blocks : heap'[b] = "free" => heap[b] = "free"
          /\ heap[p] = "free" /\ known' = known /\ moved' = moved
      BY <1>0, <1>1 DEF je_malloc, Begin, TypeOK
    <2>2. QED
      BY <1>0, <2>1 DEF NoStaleRegion, NewInv
  <1>2. ASSUME NEW t \in Threads, NEW p \in Blocks, je_free(t, p) PROVE NoStaleRegion' /\ NewInv'
    <2>1. /\ op'[t].ev = "free" /\ \A u \in Threads : u # t => op'[u] = op[u]
          /\ \A b \in Blocks : heap'[b] = "free" => heap[b] = "free"
          /\ known' = known /\ moved' = moved
      BY <1>0, <1>2 DEF je_free, Begin, Freed, TypeOK
    <2>2. QED
      BY <1>0, <2>1 DEF NoStaleRegion, NewInv
  <1>3. ASSUME NEW t \in Threads, NEW p \in Blocks, NEW r \in Blocks, je_realloc(t, p, r)
        PROVE  NoStaleRegion' /\ NewInv'
    <2>1. /\ op'[t].ev = "realloc" /\ \A u \in Threads : u # t => op'[u] = op[u]
          /\ \A b \in Blocks : b # p /\ heap'[b] = "free" => heap[b] = "free"
          /\ known' = known /\ moved' = moved \cup {p}
      BY <1>0, <1>3 DEF je_realloc, Begin, TypeOK
    <2>2. QED
      BY <1>0, <2>1 DEF NoStaleRegion, NewInv
  <1>4. ASSUME NEW t \in Threads,
               NestedMallocInit(t) \/ NestedInit(t) \/ MallocInitDone(t) \/ LogAllocLoad(t) \/ shambles_init(t)
        PROVE  NoStaleRegion' /\ NewInv'
    <2>1. UNCHANGED <<op, heap, known, moved>>
      BY <1>4 DEF NestedMallocInit, NestedInit, MallocInitDone, LogAllocLoad, shambles_init
    <2>2. QED
      BY <1>0, <2>1 DEF NoStaleRegion, NewInv
  <1>5. ASSUME NEW t \in Threads, LogAllocExchange(t) \/ LogAllocStore(t) PROVE NoStaleRegion' /\ NewInv'
    <2>1. Len(stack[t]) \in DOMAIN stack[t] /\ stack[t][Len(stack[t])] \in {"exchange", "store"}
      BY <1>5, Inside DEF LogAllocExchange, LogAllocStore, At, Top
    <2>2. known = {}
      BY <1>0, <2>1 DEF FramesInv, Frame, StartInv
    <2>3. known' = {}
      BY <1>5, <2>2 DEF LogAllocExchange, LogAllocStore
    <2>4. QED
      BY <2>3, Zenon DEF NoStaleRegion, NewInv
  <1>6. ASSUME NEW t \in Threads, LogAllocReport(t) PROVE NoStaleRegion' /\ NewInv'
    <2> DEFINE b == op[t].blk
    <2>1. stack[t] # <<>> /\ Len(stack[t]) \in DOMAIN stack[t] /\ stack[t][Len(stack[t])] = "report"
      BY <1>6, Inside DEF LogAllocReport, At, Top
    <2>2. Len(stack[t]) = 1
      BY <1>0, <2>1, Zenon DEF FramesInv, Frame
    <2>3. /\ op[t].ev \in {"alloc", "free", "realloc"} /\ b \in Blocks
          /\ heap[b] = IF op[t].ev = "free" THEN "freeing" ELSE "used"
          /\ \A u \in Threads : u # t /\ op[u].ev # "none" => op[u].blk # b
      BY <1>0, <2>1 DEF OpInv, TypeOK
    <2>4. /\ op'[t].ev = "none" /\ \A u \in Threads : u # t => op'[u] = op[u]
          /\ heap' = IF op[t].ev = "free" THEN [heap EXCEPT ![b] = "free"] ELSE heap
      BY <1>0, <1>6, <2>2 DEF LogAllocReport, Return, TypeOK
    <2>5. \A p \in Blocks : p # b => (p \in known' => p \in known) /\ (p \in moved <=> p \in moved')
                                     /\ heap'[p] = heap[p]
      BY <1>0, <1>6, <2>4 DEF LogAllocReport, TypeOK
    <2>6. op[t].ev = "free" => b \notin known'
      BY <1>0, <1>6 DEF LogAllocReport, StartInv
    <2>7. op[t].ev # "free" => heap'[b] # "free"
      BY <2>3, <2>4
    <2>8. NoStaleRegion'
      <3>1. b \notin known' \/ heap'[b] # "free"
        BY <2>6, <2>7
      <3>2. QED
        BY <1>0, <2>5, <3>1 DEF NoStaleRegion
    <2>9. NewInv'
      BY <1>0, <2>3, <2>4, <2>5 DEF NewInv, OpInv
    <2>10. QED
      BY <2>8, <2>9
  <1>7. CASE UNCHANGED vars
    BY <1>0, <1>7 DEF vars, NoStaleRegion, NewInv
  <1>8. QED
    BY <1>1, <1>2, <1>3, <1>4, <1>5, <1>6, <1>7 DEF Next

\* Every step keeps a start under way in the main thread's stack.
LEMMA ReadyStep == IInv /\ [Next]_vars => ReadyInv'
  <1> SUFFICES ASSUME IInv, [Next]_vars, InitNests <= 1 PROVE ReadyInv'
    BY DEF ReadyInv
  <1> USE HooksAssumption DEF Starting, Ended
  <1>0. TypeOK /\ FramesInv /\ AloneInv /\ ReadyInv /\ shambles_inited_n \in 0..2 /\ Main \in Threads
    BY DEF IInv, TypeOK
  <1>a. ASSUME NEW t \in Threads, stack[t] # <<>>, UNCHANGED shambles_inited_n, shambles_inited_n = 2,
               ~(Top(t) \in Starting),
               \A u \in Threads : u # t => stack'[u] = stack[u],
               \A i \in DOMAIN stack[t] : i # Len(stack[t]) => i \in DOMAIN stack'[t] /\ stack'[t][i] = stack[t][i]
        PROVE  \E i \in DOMAIN stack'[Main] : stack'[Main][i] \in Starting
    BY <1>0, <1>a DEF ReadyInv, Top
  <1>1. ASSUME NEW t \in Threads, NEW p \in Blocks,
               je_malloc(t, p) \/ je_free(t, p) \/ \E r \in Blocks : je_realloc(t, p, r)
        PROVE  ReadyInv'
    <2>1. Spawned(t) /\ stack[t] = <<>> /\ shambles_inited_n' = shambles_inited_n
      BY <1>1 DEF je_malloc, je_free, je_realloc, Begin
    <2>2. shambles_inited_n # 2
      BY <1>0, <2>1 DEF Spawned, ReadyInv
    <2>3. Ended => Ended'
      BY <1>1 DEF je_malloc, je_free, je_realloc
    <2>4. ~Ended => t = Main
      BY <2>1 DEF Spawned
    <2>5. ~Ended => shambles_inited_n # 0
      <3>1. ~Ended => Len(stack[Main]) = 0
        BY <2>1, <2>4
      <3>2. QED
        BY <1>0, <3>1 DEF ReadyInv
    <2>6. QED
      BY <2>1, <2>2, <2>3, <2>5 DEF ReadyInv
  <1>2. ASSUME NEW t \in Threads, NestedMallocInit(t) \/ NestedInit(t) PROVE ReadyInv'
    <2>1. stack[t] # <<>> /\ Push(t) /\ UNCHANGED <<shambles_inited_n, malloc_init_state>>
      BY <1>2 DEF NestedMallocInit, NestedInit, At
    <2>2. /\ \A u \in Threads : u # t => stack'[u] = stack[u]
          /\ \A i \in DOMAIN stack[t] : i \in DOMAIN stack'[t] /\ stack'[t][i] = stack[t][i]
      <3>1. /\ Len(stack'[t]) = Len(stack[t]) + 1 /\ Len(stack[t]) \in Nat
            /\ \A i \in 1 .. Len(stack[t]) : stack'[t][i] = stack[t][i]
            /\ DOMAIN stack[t] = 1 .. Len(stack[t]) /\ DOMAIN stack'[t] = 1 .. Len(stack'[t])
            /\ \A u \in Threads : u # t => stack'[u] = stack[u]
        BY <1>0, <2>1, PushFacts, Inside
      <3>2. QED
        BY <3>1
    <2>3. shambles_inited_n = 2 => \E i \in DOMAIN stack'[Main] : stack'[Main][i] \in Starting
      BY <1>0, <2>2 DEF ReadyInv
    <2>4. ~(shambles_inited_n = 0 /\ ~Ended)
      <3>1. CASE NestedMallocInit(t)
        BY <1>0, <3>1 DEF NestedMallocInit, ReadyInv, TypeOK
      <3>2. CASE NestedInit(t)
        <4>1. Len(stack[t]) \in DOMAIN stack[t] /\ stack[t][Len(stack[t])] = "init"
          BY <3>2, Inside DEF NestedInit, At, Top
        <4>2. QED
          BY <1>0, <4>1 DEF FramesInv, Frame
      <3>3. QED
        BY <1>2, <3>1, <3>2
    <2>5. QED
      BY <2>1, <2>3, <2>4 DEF ReadyInv
  <1>3. ASSUME NEW t \in Threads, MallocInitDone(t) \/ LogAllocLoad(t) PROVE ReadyInv'
    <2>1. stack[t] # <<>> /\ UNCHANGED shambles_inited_n /\ Top(t) \in {"mallocinit", "load"}
      BY <1>3 DEF MallocInitDone, LogAllocLoad, At
    <2>2. PICK pc \in Pcs : Goto(t, pc)
      BY <1>3 DEF MallocInitDone, LogAllocLoad, Pcs
    <2>3. /\ \A u \in Threads : u # t => stack'[u] = stack[u]
          /\ \A i \in DOMAIN stack[t] : i # Len(stack[t]) => i \in DOMAIN stack'[t] /\ stack'[t][i] = stack[t][i]
      <3>1. /\ Len(stack'[t]) = Len(stack[t]) /\ Len(stack[t]) \in Nat
            /\ \A i \in 1 .. Len(stack[t]) - 1 : stack'[t][i] = stack[t][i]
            /\ DOMAIN stack[t] = 1 .. Len(stack[t]) /\ DOMAIN stack'[t] = 1 .. Len(stack'[t])
            /\ \A u \in Threads : u # t => stack'[u] = stack[u]
        BY <1>0, <2>1, <2>2, GotoFacts
      <3>2. QED
        BY <3>1
    <2>4. shambles_inited_n = 2 => \E i \in DOMAIN stack'[Main] : stack'[Main][i] \in Starting
      BY <1>a, <2>1, <2>3
    <2>5. ~(shambles_inited_n = 0 /\ malloc_init_state' # "initialized")
      <3>1. CASE MallocInitDone(t)
        BY <3>1 DEF MallocInitDone
      <3>2. CASE LogAllocLoad(t)
        <4>1. Top(t) = "load" /\ malloc_init_state' = malloc_init_state
          BY <3>2 DEF LogAllocLoad, At
        <4>2. ~Ended => t = Main /\ stack[t][1] = "mallocinit"
          BY <2>1, Inside
        <4>3. QED
          BY <1>0, <4>1, <4>2 DEF ReadyInv, Top
      <3>3. QED
        BY <1>3, <3>1, <3>2
    <2>6. QED
      BY <2>1, <2>4, <2>5 DEF ReadyInv
  <1>b. ASSUME NEW t \in Threads, stack[t] # <<>>, Return(t)
        PROVE  /\ \A u \in Threads : u # t => stack'[u] = stack[u]
               /\ \A i \in DOMAIN stack[t] : i # Len(stack[t]) => i \in DOMAIN stack'[t] /\ stack'[t][i] = stack[t][i]
               /\ Len(stack'[t]) = Len(stack[t]) - 1
    <2>1. /\ Len(stack'[t]) = Len(stack[t]) - 1 /\ Len(stack[t]) \in Nat
          /\ \A i \in 1 .. Len(stack[t]) - 1 : stack'[t][i] = stack[t][i]
          /\ DOMAIN stack[t] = 1 .. Len(stack[t]) /\ DOMAIN stack'[t] = 1 .. Len(stack'[t])
          /\ \A u \in Threads : u # t => stack'[u] = stack[u]
      BY <1>0, <1>b, PopFacts, Zenon DEF Return
    <2>2. QED
      BY <2>1
  <1>4. ASSUME NEW t \in Threads, LogAllocExchange(t) PROVE ReadyInv'
    <2>1. stack[t] # <<>> /\ Top(t) = "exchange" /\ shambles_inited_n' = 2
      BY <1>4 DEF LogAllocExchange, At, Claimed
    <2>2. CASE Claims
      <3>1. "init" \in Pcs /\ Goto(t, "init")
        BY <1>4, <2>2 DEF LogAllocExchange, Pcs
      <3>2. /\ Len(stack'[t]) = Len(stack[t]) /\ Len(stack[t]) \in Nat /\ Len(stack[t]) >= 1
            /\ DOMAIN stack'[t] = 1 .. Len(stack'[t]) /\ stack'[t][Len(stack[t])] = "init"
        BY <1>0, <2>1, <3>1, GotoFacts
      <3>3. Len(stack[t]) \in DOMAIN stack'[t]
        BY <3>2
      <3>4. FramesInv'
        BY FramesStep
      <3>5. t = Main
        BY <3>2, <3>3, <3>4 DEF FramesInv, Frame
      <3>6. QED
        BY <2>1, <3>2, <3>3, <3>5 DEF ReadyInv
    <2>3. CASE ~Claims
      <3>1. Return(t)
        BY <1>4, <2>3 DEF LogAllocExchange
      <3>2. shambles_inited_n # 0
        <4>1. Len(stack[t]) \in DOMAIN stack[t] /\ stack[t][Len(stack[t])] = "exchange"
          BY <2>1, Inside DEF Top
        <4>2. shambles_inited_n = 0 => ~Ended
          BY <1>0, <4>1 DEF FramesInv, Frame
        <4>3. ~Ended => t = Main /\ stack[t][1] = "mallocinit"
          BY <2>1, Inside
        <4>4. QED
          BY <1>0, <4>1, <4>2, <4>3 DEF ReadyInv
      <3>3. shambles_inited_n = 2
        BY <1>0, <2>3, <3>2 DEF Claims
      <3>4. \E i \in DOMAIN stack'[Main] : stack'[Main][i] \in Starting
        <4>1. /\ \A u \in Threads : u # t => stack'[u] = stack[u]
              /\ \A i \in DOMAIN stack[t] : i # Len(stack[t]) => i \in DOMAIN stack'[t] /\ stack'[t][i] = stack[t][i]
          BY <1>b, <2>1, <3>1
        <4>2. QED
          BY <1>a, <2>1, <3>3, <4>1
      <3>5. QED
        BY <2>1, <3>4 DEF ReadyInv
    <2>4. QED
      BY <2>2, <2>3
  <1>5. ASSUME NEW t \in Threads, shambles_init(t) PROVE ReadyInv'
    <2>1. stack[t] # <<>> /\ Top(t) = "init" /\ "store" \in Pcs /\ Goto(t, "store")
          /\ shambles_inited_n' = shambles_inited_n
      BY <1>5 DEF shambles_init, At, Pcs
    <2>2. Len(stack[t]) \in DOMAIN stack[t] /\ stack[t][Len(stack[t])] = "init"
      BY <2>1, Inside DEF Top
    <2>3. t = Main /\ shambles_inited_n = 2
      BY <1>0, <2>2 DEF FramesInv, Frame
    <2>4. /\ Len(stack'[t]) = Len(stack[t]) /\ Len(stack[t]) \in Nat /\ Len(stack[t]) >= 1
          /\ DOMAIN stack'[t] = 1 .. Len(stack'[t]) /\ stack'[t][Len(stack[t])] = "store"
      BY <1>0, <2>1, GotoFacts
    <2>5. Len(stack[t]) \in DOMAIN stack'[t]
      BY <2>4
    <2>6. QED
      BY <2>1, <2>3, <2>4, <2>5 DEF ReadyInv
  <1>6. ASSUME NEW t \in Threads, LogAllocStore(t) PROVE ReadyInv'
    <2>1. stack[t] # <<>> /\ Top(t) = "store" /\ Return(t) /\ shambles_inited_n' = 0
          /\ UNCHANGED <<malloc_init_state, nests>>
      BY <1>6 DEF LogAllocStore, At, Started
    <2>2. /\ 1 \in DOMAIN stack[t] /\ Len(stack[t]) \in DOMAIN stack[t]
          /\ DOMAIN stack[t] = 1 .. Len(stack[t]) /\ Len(stack[t]) \in Nat /\ Len(stack[t]) >= 1
          /\ ~Ended => t = Main /\ stack[t][1] = "mallocinit"
          /\ stack[t][Len(stack[t])] = "store"
      BY <2>1, Inside DEF Top
    <2>3. ASSUME ~Ended PROVE Len(stack[Main]) = 2 /\ nests >= 1
      <3>1. t = Main /\ Len(stack[t]) # 1
        BY <2>2, <2>3
      <3>2. ASSUME Len(stack[t]) > 2 PROVE FALSE
        <4>1. 2 \in DOMAIN stack[t] /\ 2 < Len(stack[t])
          BY <2>2, <3>2
        <4>2. stack[t][2] = "init"
          BY <1>0, <4>1 DEF FramesInv, Frame
        <4>3. QED
          BY <1>0, <2>2, <3>1, <4>1, <4>2 DEF AloneInv
      <3>3. Len(stack[Main]) = 2
        <4> DEFINE n == Len(stack[t])
        <4>1. n \in Nat /\ n >= 1 /\ n # 1 /\ ~(n > 2)
          BY <2>2, <3>1, <3>2
        <4> HIDE DEF n
        <4>2. n = 2
          BY <4>1
        <4>3. QED
          BY <3>1, <4>2 DEF n
      <3>4. QED
        BY <1>0, <2>3, <3>3 DEF AloneInv
    <2>4. ~Ended => Len(stack'[Main]) = 1 /\ nests' >= 1
      <3>1. Len(stack'[t]) = Len(stack[t]) - 1
        BY <1>b, <2>1
      <3>2. ASSUME ~Ended PROVE Len(stack'[t]) = 1
        <4>1. Len(stack[t]) = 2
          BY <2>2, <2>3, <3>2
        <4>2. QED
          BY ONLY <3>1, <4>1
      <3>3. QED
        BY <2>1, <2>2, <2>3, <3>2
    <2>5. QED
      BY <2>1, <2>4 DEF ReadyInv
  <1>7. ASSUME NEW t \in Threads, LogAllocReport(t) PROVE ReadyInv'
    <2>1. Len(stack[t]) \in DOMAIN stack[t] /\ stack[t][Len(stack[t])] = "report"
      BY <1>7, Inside DEF LogAllocReport, At, Top
    <2>2. shambles_inited_n = 0 /\ Ended
      BY <1>0, <2>1 DEF FramesInv, Frame
    <2>3. QED
      BY <1>7, <2>2 DEF LogAllocReport, ReadyInv
  <1>8. CASE UNCHANGED vars
    BY <1>0, <1>8 DEF vars, ReadyInv
  <1>9. QED
    BY <1>1, <1>2, <1>3, <1>4, <1>5, <1>6, <1>7, <1>8 DEF Next

\* The program starts with no call under way and shambles_inited_n at 1.
LEMMA InitIInv == Init => IInv
  <1> SUFFICES ASSUME Init PROVE IInv
    OBVIOUS
  <1> USE HooksAssumption DEF Init
  <1>1. \A t \in Threads : stack[t] = <<>> /\ op[t].ev = "none"
    BY Zenon
  <1>2. TypeOK
    BY DEF TypeOK
  <1>3. FramesInv /\ AloneInv /\ ReadyInv
    BY <1>1 DEF FramesInv, AloneInv, ReadyInv, Ended
  <1>4. StartInv /\ OpInv /\ NoStaleRegion /\ NewInv
    BY <1>1 DEF StartInv, OpInv, NoStaleRegion, NewInv
  <1>5. QED
    BY <1>2, <1>3, <1>4 DEF IInv

\* Whatever the threads do, the frames, the flag and the blocks agree.
THEOREM Invariance == Spec => []IInv
  <1>1. IInv /\ [Next]_vars => IInv'
    BY TypeStep, FramesStep, AloneStep, StartStep, OpStep, StaleStep, ReadyStep DEF IInv
  <1>2. QED
    BY InitIInv, <1>1, PTL DEF Spec

\* For any depth of nesting, in malloc's initialisation and in the plugin's
\* start: shambles_init is called at most once, the callback is not entered from
\* the start, the plugin has no region for free memory that realloc did not
\* move, and no such block is reported as allocated twice.
THEOREM NestingHarmless == Spec => [](InitOnce /\ NoReentry /\ NoStaleRegion /\ NoDoubleAlloc)
  <1>1. ASSUME IInv PROVE InitOnce /\ NoStaleRegion /\ NoDoubleAlloc
    <2>1. InitOnce
      BY <1>1 DEF IInv, StartInv, InitOnce
    <2>2. NoStaleRegion /\ NoDoubleAlloc
      BY <1>1, Zenon DEF IInv, NewInv, NoDoubleAlloc
    <2>3. QED
      BY <2>1, <2>2
  <1>2. ASSUME IInv PROVE NoReentry
    <2> SUFFICES ASSUME NEW t \in Threads, NEW i \in DOMAIN stack[t], NEW j \in DOMAIN stack[t],
                        i < j, stack[t][j] = "report"
                 PROVE  FALSE
      BY DEF NoReentry
    <2>1. DOMAIN stack[t] = 1 .. Len(stack[t])
      BY <1>2 DEF IInv, TypeOK
    <2>2. j = 1
      BY <1>2 DEF IInv, FramesInv, Frame
    <2>3. QED
      BY <2>1, <2>2
  <1>3. QED
    BY Invariance, <1>1, <1>2, PTL

\* Where malloc's initialisation nests at most one call of logAlloc, all the
\* promises of PluginSafe hold: a started plugin also gets the later events.
THEOREM PluginIsSafe == InitNests <= 1 => (Spec => []PluginSafe)
  <1> SUFFICES ASSUME InitNests <= 1 PROVE Spec => []PluginSafe
    OBVIOUS
  <1>1. IInv => Ready
    <2> SUFFICES ASSUME IInv, inits > 0, \A t \in Threads : stack[t] = <<>> PROVE shambles_inited_n = 0
      BY DEF Ready
    <2>1. stack[Main] = <<>> /\ StartInv /\ ReadyInv /\ shambles_inited_n \in 0..2
      BY HooksAssumption DEF IInv, TypeOK
    <2>2. DOMAIN stack[Main] = {}
      BY <2>1
    <2>3. QED
      BY <2>1, <2>2 DEF StartInv, ReadyInv
  <1>2. QED
    BY Invariance, NestingHarmless, <1>1, PTL DEF PluginSafe
=============================================================================
