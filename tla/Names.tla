-------------------------------- MODULE Names --------------------------------
(***************************************************************************)
(* The name space of mallctl (jemalloc/src/ctl.c), whose tree and handlers  *)
(* are the tables of NameTables: the three ways to reach a handler (by      *)
(* name, by management information base or "mib", and by the mib of a       *)
(* prefix with the name of the rest), and how a handler checks and answers  *)
(* a call.                                                                  *)
(*                                                                         *)
(* A name is the sequence of its elements. The numbers of arenas and of     *)
(* size classes are small; the values that handlers read and write are      *)
(* left out, only the sizes of the buffers are kept.                        *)
(***************************************************************************)
EXTENDS NameTables, FiniteSets

CONSTANTS NSizes,      \* the number of size classes of each kind
          MaxArenas    \* bound on ctl_arenas->narenas

VARIABLES name,      \* the elements of the name in the caller's hands
          at,        \* what the name stands for in the tree
          mib,       \* its mib, taken at some earlier time, or NoMib
          arenas,    \* narenas, the arenas that exist, and the slots of ctl_arenas
                     \* that are initialized, which is what the last refresh saw
          config,    \* what is compiled in (config_*) and which of opt_prof are on
          answer     \* how the handler answered, or NoAnswer

vars == <<name, at, mib, arenas, config, answer>>

MALLCTL_ARENAS_ALL == 4096
MALLCTL_ARENAS_DESTROYED == 4097
CTL_MAX_DEPTH == 7
UINTMAX == 99999
NoMib == <<-1>>
NoAnswer == [handler |-> "none"]

-----------------------------------------------------------------------------
(* Indices *)

(* What an element reads as in base ten: leading digits count, anything else
   is no number. *)
malloc_strtoumax(elm) ==
  CASE elm = "0" -> 0 [] elm = "1x" -> 1 [] elm = "2" -> 2
    [] elm = "4096" -> MALLCTL_ARENAS_ALL
    [] elm = "4097" -> MALLCTL_ARENAS_DESTROYED [] OTHER -> UINTMAX

Numerals == {"0", "1x", "2", "4096", "4097"}

(* The slot of ctl_arenas->arenas for an index, or -1 out of range. *)
arenas_i2a_impl(i) ==
  CASE i = MALLCTL_ARENAS_ALL -> 0
    [] i = MALLCTL_ARENAS_DESTROYED -> 1
    [] i = arenas.narenas -> 0
    [] i > arenas.narenas /\ i < MALLCTL_ARENAS_ALL -> -1
    [] OTHER -> i + 2

ctl_arenas_i_verify(i) == arenas_i2a_impl(i) \in arenas.initialized

arena_i_index(i) ==
  i \in {MALLCTL_ARENAS_ALL, MALLCTL_ARENAS_DESTROYED} \/ i <= arenas.narenas

(* The classes of these four are checked with >, the others with >=. *)
AtMost == {"arenas_bin", "arenas_lextent", "stats_arenas_i_bins",
           "stats_arenas_i_lextents"}

(* inode->index: may this table be entered at index i? *)
IndexOk(table, i) ==
  CASE table = "arena" -> arena_i_index(i)
    [] table \in {"stats_arenas", "experimental_arenas"} -> ctl_arenas_i_verify(i)
    [] table \in AtMost -> i <= NSizes
    [] table \in {"prof_stats_bins", "prof_stats_lextents"} ->
         "prof_stats" \in config /\ i < NSizes
    [] OTHER -> i < NSizes

-----------------------------------------------------------------------------
(* Lookup *)

Missing == [ret |-> "ENOENT", node |-> "none", mib |-> <<>>]

(* Defect: an element that begins the name of an entry is taken for it. *)
SameName_Prefix(elm, entry) ==
  Len(elm) <= Len(entry) /\ SubSeq(entry, 1, Len(elm)) = elm

SameName(elm, entry) == elm = entry

(* The first entry of a named table with the name, or 0. *)
Position(table, elm) ==
  LET hits == {j \in DOMAIN Tables[table] : SameName(elm, Tables[table][j])}
  IN IF hits = {} THEN 0 ELSE CHOOSE j \in hits : \A k \in hits : j <= k

(* Defect: the numbers of a mib start at one. *)
MibOf_One(j) == j

(* The number of the j-th entry of a table in a mib. *)
MibOf(j) == j - 1

(* The node one element of a name leads to and the number it has in a mib. *)
NameStep(node, elm) ==
  IF ctl_named_node(node)
    THEN LET j == Position(node, elm)
         IN IF j = 0 THEN <<"none", 0>>
            ELSE <<ctl_named_children(node, Tables[node][j]), MibOf(j)>>
    ELSE LET i == malloc_strtoumax(elm)
         IN IF i = UINTMAX \/ ~IndexOk(node, i) THEN <<"none", 0>>
            ELSE <<Indexed[node], i>>

RECURSIVE ctl_lookup(_, _, _, _)
ctl_lookup(node, elms, depth, found) ==
  IF elms[1] = "" /\ found = <<>> THEN Missing
  ELSE IF depth = 0 THEN [ret |-> "0", node |-> node, mib |-> found]
  ELSE LET s == NameStep(node, elms[1])
       IN IF s[1] = "none" THEN Missing
          ELSE IF Len(elms) = 1
                 THEN [ret |-> "0", node |-> s[1], mib |-> Append(found, s[2])]
          ELSE IF Leaf(s[1]) THEN Missing
          ELSE ctl_lookup(s[1], Tail(elms), depth - 1, Append(found, s[2]))

RECURSIVE LookupFrom(_, _)
LookupFrom(node, m) ==
  IF m = <<>> THEN node
  ELSE IF ctl_named_node(node)
         THEN IF Len(Tables[node]) <= m[1] THEN "none"
              ELSE LookupFrom(ctl_named_children(node, Tables[node][m[1] + 1]),
                              Tail(m))
         ELSE IF ~IndexOk(node, m[1]) THEN "none"
              ELSE LookupFrom(Indexed[node], Tail(m))

ctl_lookupbymib(m) == LookupFrom("root", m)

(* The handler of a node; a partial path has none. *)
Handler(node) == IF node # "none" /\ Leaf(node) THEN node ELSE "ENOENT"

ctl_byname(elms) == Handler(ctl_lookup("root", elms, CTL_MAX_DEPTH, <<>>).node)

ctl_nametomib(elms) == ctl_lookup("root", elms, CTL_MAX_DEPTH, <<>>)

ctl_bymib(m) == Handler(ctl_lookupbymib(m))

(* The depth left for the rest of a name, after the mib of its prefix. *)
Left(m) == CTL_MAX_DEPTH - Len(m)

ctl_mibnametomib(m, elms) ==
  LET node == ctl_lookupbymib(m)
  IN IF node = "none" \/ Leaf(node) THEN Missing
     ELSE LET r == ctl_lookup(node, elms, Left(m), <<>>)
          IN [r EXCEPT !.mib = m \o @]

ctl_bymibname(m, elms) == Handler(ctl_mibnametomib(m, elms).node)

-----------------------------------------------------------------------------
Reads(c) == c.oldp /\ c.oldlen # -1
Writes(c) == c.newp \/ c.newlen # 0

(* The error that a step ends the handler with, or "0". *)
Refusal(step, c) ==
  CASE step = "READONLY" /\ Writes(c) -> "EPERM"
    [] step = "WRITEONLY" /\ (c.oldp \/ c.oldlen # -1) -> "EPERM"
    [] step = "XOR" /\ Reads(c) /\ Writes(c) -> "EPERM"
    [] step = "NEITHER" /\ (c.oldp \/ c.oldlen # -1 \/ Writes(c)) -> "EPERM"
    [] step = "VERIFY_READ" /\ c.oldlen = -1 -> "SIGSEGV"
    [] step = "VERIFY_READ" /\ c.oldlen # -1 /\ (~c.oldp \/ c.oldlen # Size) -> "EINVAL"
    [] step = "READ" /\ Reads(c) /\ c.oldlen # Size -> "EINVAL"
    [] step = "WRITE" /\ c.newp /\ c.newlen # Size -> "EINVAL"
    [] step = "ASSURED_WRITE" /\ (~c.newp \/ c.newlen # Size) -> "EINVAL"
    [] step = "OPT_PROF" /\ c.newp /\ "opt_prof" \notin config -> "ENOENT"
    [] step = "SOME" /\ ~c.oldp /\ ~c.newp -> "EINVAL"
    [] step = "ALL" /\ (~Reads(c) \/ ~c.newp) -> "EINVAL"
    [] step = "EXACT" /\ (~Reads(c) \/ c.oldlen # Size) -> "EINVAL"
    [] OTHER -> "0"

RECURSIVE Serve(_, _, _)
Serve(steps, c, a) ==
  IF steps = <<>> THEN a
  ELSE LET e == Refusal(Head(steps), c)
       IN IF e # "0" THEN [a EXCEPT !.ret = e]
          ELSE Serve(Tail(steps), c,
                     [a EXCEPT !.did = @ \/ Head(steps) = "do"
                                         \/ (Head(steps) = "set" /\ c.newp),
                               !.copied = @ \/ (Head(steps) = "READ" /\ Reads(c))])

-----------------------------------------------------------------------------
(* Callers compose names, keep mibs and call; other threads make and destroy
   arenas in the meantime. *)

Everything == {"fill", "utrace", "xmalloc", "enable_cxx", "uaf_detection",
               "background_thread", "stats", "prof", "opt_prof", "prof_stats"}

Init ==
  /\ name = <<>> /\ at = "root" /\ mib = NoMib /\ answer = NoAnswer
  /\ arenas = [narenas |-> 2, made |-> {0, 1}, initialized |-> {0, 2, 3}]
  /\ config \in {{"prof"}, Everything}

Junk == {"", "arena", "x"}

(* The caller adds an element to the name. *)
Compose(elm) ==
  /\ answer = NoAnswer /\ mib = NoMib /\ at # "none"
  /\ elm \in Junk \cup (IF ctl_named_node(at) THEN Elements(Tables[at])
                        ELSE IF ctl_indexed_node(at) THEN Numerals ELSE {})
  /\ name' = Append(name, elm)
  /\ at' = IF ctl_named_node(at) /\ elm \in Elements(Tables[at])
             THEN ctl_named_children(at, elm)
           ELSE IF ctl_indexed_node(at) /\ elm \in Numerals THEN Indexed[at]
           ELSE "none"
  /\ UNCHANGED <<mib, arenas, config, answer>>

NotFound == [handler |-> "none", ret |-> "ENOENT", did |-> FALSE, copied |-> FALSE]

(* mallctlnametomib: the caller keeps the mib for later calls. *)
NameToMib ==
  /\ answer = NoAnswer /\ mib = NoMib /\ name # <<>>
  /\ LET r == ctl_nametomib(name)
     IN \/ /\ r.ret = "0" /\ mib' = r.mib
           /\ UNCHANGED <<name, at, answer>>
        \/ /\ r.ret = "ENOENT" /\ answer' = NotFound
           /\ name' = <<>> /\ at' = "root" /\ UNCHANGED mib
  /\ UNCHANGED <<arenas, config>>

Call(c) ==
  /\ answer = NoAnswer /\ mib # NoMib
  /\ LET h == ctl_bymib(mib)
     IN IF h = "ENOENT" \/ Gate(h) \notin config \cup {"always"}
          THEN answer' = NotFound
          ELSE \E s \in Steps(h) :
                 answer' = Serve(s, c, [handler |-> h, ret |-> "0", did |-> FALSE,
                                        copied |-> FALSE])
  /\ name' = <<>> /\ at' = "root" /\ mib' = NoMib
  /\ UNCHANGED <<arenas, config>>

(* One call is enough: a call leaves the tree as it found it. *)
Return == answer # NoAnswer /\ UNCHANGED vars

(* What others do to the arenas matters between the two calls of a caller that
   keeps a mib. *)
Watching == answer = NoAnswer /\ mib # NoMib

(* arenas.create, or the first use of an automatic arena *)
ArenaMade ==
  Watching /\ \E i \in 0 .. arenas.narenas :
    /\ i < MaxArenas /\ i \notin arenas.made
    /\ arenas' = [arenas EXCEPT !.narenas = IF i = @ THEN i + 1 ELSE @,
                                !.made = @ \cup {i}]
    /\ UNCHANGED <<name, at, mib, config, answer>>

(* arena.<i>.destroy *)
ArenaGone ==
  Watching /\ \E i \in arenas.made \ {0} :
    /\ arenas' = [arenas EXCEPT !.made = @ \ {i},
                                !.initialized = (@ \ {i + 2}) \cup {1}]
    /\ UNCHANGED <<name, at, mib, config, answer>>

(* epoch: ctl_refresh notes which arenas are there. *)
Refreshed ==
  /\ Watching
  /\ arenas' = [arenas EXCEPT !.initialized = (@ \cap {0, 1}) \cup {i + 2 : i \in arenas.made}]
  /\ UNCHANGED <<name, at, mib, config, answer>>

Next ==
  \/ \E elm \in Junk \cup Numerals \cup EntryNames : Compose(elm)
  \/ NameToMib
  \/ \E c \in Calls : Call(c)
  \/ Return
  \/ ArenaMade
  \/ ArenaGone
  \/ Refreshed

Spec == Init /\ [][Next]_vars

-----------------------------------------------------------------------------
(* Properties *)

(* Every entry of every table is found under its name, and a name finds
   nothing else: the handler ctl_byname calls is the one the tree has there,
   unless an index on the way is out of range now. *)
Found ==
  name # <<>> =>
    \/ ctl_byname(name) = Handler(at)
    \/ ctl_byname(name) = "ENOENT" /\ Elements(name) \cap Numerals # {}

(* The three ways to call agree, for every split of the name, and a mib that
   was taken before arenas came and went leads where the name leads now. *)
LookupAgrees ==
  name # <<>> =>
    /\ mib # NoMib => ctl_bymib(mib) = ctl_byname(name)
    /\ \A k \in 1 .. Len(name) - 1 :
         LET p == ctl_nametomib(SubSeq(name, 1, k))
         IN p.ret = "0" =>
              ctl_bymibname(p.mib, SubSeq(name, k + 1, Len(name))) = ctl_byname(name)

(* A call that is refused for what it may not read or write has done nothing,
   and what a call creates is handed to the caller: an arena, a cache or a
   batch is not made when its number could not be returned. *)
EffectsAnswered ==
  answer # NoAnswer =>
    /\ answer.ret = "EPERM" => ~answer.did
    /\ (answer.handler \in Creating /\ answer.did) => (answer.ret = "0" /\ answer.copied)
=============================================================================
