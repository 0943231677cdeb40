-------------------------------- MODULE Conf --------------------------------
(***************************************************************************)
(* Run-time configuration of the allocator: malloc_conf_init() of           *)
(* jemalloc.c.  Five sources hold option strings; they are read twice, the  *)
(* first time only for confirm_conf, and the abort_conf rule is applied     *)
(* after each source.                                                       *)
(*                                                                          *)
(* The table of options is the code's, key by key.  A value is abstracted   *)
(* to what its handler tells apart: a number is one of the classes in       *)
(* Numerals, a list of size ranges is a sequence of good and bad ranges.    *)
(* The value of one option, `watched', is followed beside confirm_conf and  *)
(* abort_conf; the other options do not interact with it.                   *)
(***************************************************************************)
EXTENDS Naturals, Sequences, SequencesExt, FiniteSets

CONSTANTS
  Watch,       \* the options that are followed, one behaviour each
  Given,       \* the sources that may hold a string
  MaxPairs,    \* most pairs over all the strings
  Config       \* what the build and the system support

VARIABLES
  strings,     \* source -> NULL or its pairs and how the string ends
  watched,     \* the option that is followed
  val,         \* the value of the variable `watched' sets
  flags,       \* opt_confirm_conf, opt_abort_conf and had_conf_error
  at,          \* the pass and the source read next
  shown        \* the sources printed because of opt_confirm_conf

vars == <<strings, watched, val, flags, at, shown>>

-----------------------------------------------------------------------------
(* The kinds of option.  `sets' names the variable when it is not the key.  *)

Bool == [kind |-> "bool"]

(* CONF_HANDLE_T: which limits are checked, and whether a value beyond a    *)
(* checked limit is clipped or refused.                                     *)
Number(checks, clip) == [kind |-> "number", checks |-> checks, clip |-> clip]
Clipped == Number({"min", "max"}, TRUE)
Ranged == Number({"min", "max"}, FALSE)
AtLeast == Number({"min"}, FALSE)
ClippedBelow == Number({"min"}, TRUE)
AtMost == Number({"max"}, FALSE)
ClippedAbove == Number({"max"}, TRUE)
AnyNumber == Number({}, FALSE)

Words(ws) == [kind |-> "word", words |-> ws]
(* A mode is matched by strncmp(name, v, vlen): by any prefix of a name.    *)
Mode(names, needs) == [kind |-> "mode", names |-> names, needs |-> needs]
Letters == [kind |-> "letters"]
Ranges(reset) == [kind |-> "ranges", reset |-> reset]
(* A ratio: written by fxp_parse() itself, or checked first.                *)
Ratio(direct, bounded) ==
  [kind |-> "ratio", direct |-> direct, bounded |-> bounded]
Text(slack) == [kind |-> "text", slack |-> slack]

GeneralOptions ==
  [confirm_conf |-> Bool, abort |-> Bool, abort_conf |-> Bool,
   trust_madvise |-> Bool,
   metadata_thp |-> Mode(<<"disabled", "auto", "always">>, "nothing"),
   retain |-> Bool,
   dss |-> Mode(<<"disabled", "primary", "secondary">>, "dss"),
   narenas |-> AtLeast, narenas_ratio |-> Ratio(TRUE, FALSE),
   bin_shards |-> Ranges(FALSE), mutex_max_spin |-> AtLeast,
   dirty_decay_ms |-> Ranged, muzzy_decay_ms |-> Ranged,
   stats_print |-> Bool, stats_print_opts |-> Letters,
   stats_interval |-> AtLeast, stats_interval_opts |-> Letters]

FillOptions ==
  [junk |-> Words({"true", "false", "alloc", "free"}), zero |-> Bool]

TcacheOptions ==
  [tcache |-> Bool, tcache_max |-> ClippedAbove, lg_tcache_max |-> ClippedAbove,
   lg_tcache_nslots_mul |-> Ranged, tcache_nslots_small_min |-> Clipped,
   tcache_nslots_small_max |-> Clipped, tcache_nslots_large |-> Clipped,
   tcache_gc_incr_bytes |-> ClippedBelow, tcache_gc_delay_bytes |-> AnyNumber,
   lg_tcache_flush_small_div |-> Clipped, lg_tcache_flush_large_div |-> Clipped,
   oversize_threshold |-> AtMost, lg_extent_max_active_fit |-> AtMost,
   percpu_arena |-> Mode(<<"percpu", "phycpu", "disabled">>, "getcpu"),
   background_thread |-> Bool, max_background_threads |-> Clipped]

HpaOptions ==
  [hpa |-> Bool, hpa_slab_max_alloc |-> Clipped,
   hpa_hugification_threshold |-> Clipped,
   hpa_hugification_threshold_ratio |-> Ratio(FALSE, TRUE),
   hpa_hugify_delay_ms |-> AnyNumber, hpa_min_purge_interval_ms |-> AnyNumber,
   hpa_dirty_mult |-> Ratio(FALSE, FALSE),
   hpa_sec_nshards |-> ClippedBelow, hpa_sec_max_alloc |-> ClippedBelow,
   hpa_sec_max_bytes |-> ClippedBelow,
   hpa_sec_bytes_after_flush |-> ClippedBelow,
   hpa_sec_batch_fill_extra |-> Clipped, slab_sizes |-> Ranges(TRUE)]

ProfOptions ==
  [prof |-> Bool, prof_prefix |-> Text(1), prof_active |-> Bool,
   prof_thread_active_init |-> Bool, lg_prof_sample |-> ClippedAbove,
   prof_accum |-> Bool, lg_prof_interval |-> Ranged, prof_gdump |-> Bool,
   prof_final |-> Bool, prof_leak |-> Bool, prof_leak_error |-> Bool,
   prof_log |-> Bool, prof_recent_alloc_max |-> Ranged, prof_stats |-> Bool,
   prof_sys_thread_name |-> Bool,
   prof_time_resolution |->
     Words({"default"} \cup (IF "high_res_timer" \in Config
                             THEN {"high"} ELSE {})),
   prof_unbias |-> Bool]

LastOptions ==
  [thp |-> Mode(<<"default", "always", "never", "not supported">>, "thp"),
   zero_realloc |-> Words({"alloc", "free", "abort"}),
   san_guard_small |-> AnyNumber, san_guard_large |-> AnyNumber]

(* The blocks under a config_* test are absent when the build lacks it.     *)
Block(feature, options) == IF feature \in Config THEN options ELSE <<>>

Options ==
  GeneralOptions @@ Block("fill", FillOptions)
    @@ Block("utrace", [utrace |-> Bool])
    @@ Block("xmalloc", [xmalloc |-> Bool])
    @@ Block("enable_cxx", [experimental_infallible_new |-> Bool])
    @@ TcacheOptions @@ HpaOptions
    @@ Block("prof", ProfOptions)
    @@ Block("log", [log |-> Text(0)])
    @@ LastOptions
    @@ Block("uaf_detection", [lg_san_uaf_align |-> [kind |-> "uaf"]])

(* Keys compared with CONF_MATCH are matched exactly; three are compared by *)
(* strncmp(name, k, klen), so that any prefix of them names them, the empty *)
(* key included.                                                            *)
Abbreviated == <<"metadata_thp", "dss", "percpu_arena">>

NoOption == "none"

Option(k) ==
  IF k \in DOMAIN Options THEN k
  ELSE IF \E i \in DOMAIN Abbreviated : IsPrefix(k, Abbreviated[i])
  THEN Abbreviated[CHOOSE i \in DOMAIN Abbreviated :
                     /\ IsPrefix(k, Abbreviated[i])
                     /\ \A j \in 1..(i - 1) : ~IsPrefix(k, Abbreviated[j])]
  ELSE NoOption

(* Two keys set the variable of another option.                             *)
Variable(o) ==
  CASE o = "lg_tcache_max" -> "tcache_max"
    [] o = "hpa_hugification_threshold_ratio" -> "hpa_hugification_threshold"
    [] OTHER -> o

-----------------------------------------------------------------------------
(* What the handler of an option does with a value: the variable after it,  *)
(* and whether the value was accepted (no CONF_ERROR).                      *)

Taken(v) == [val |-> v, ok |-> TRUE]
Refused(old) == [val |-> old, ok |-> FALSE]

HandleBool(v, old) == IF v \in {"true", "false"} THEN Taken(v) ELSE Refused(old)

HandleWord(o, v, old) == IF v \in o.words THEN Taken(v) ELSE Refused(old)

(* Classes of numerals: below, inside or above the limits, not a number at  *)
(* all, a number with something after it; -1 and the word default are       *)
(* values some handlers know.                                               *)
Numerals == {"below", "inside", "above", "text", "trailing"}

HandleNumber(o, v, old) ==
  LET low == v = "below" /\ "min" \in o.checks
      high == v = "above" /\ "max" \in o.checks
  IN  IF v \in {"text", "trailing"} THEN Refused(old)
      ELSE IF o.clip THEN Taken(IF low THEN "min" ELSE IF high THEN "max" ELSE v)
      ELSE IF low \/ high THEN Refused(old) ELSE Taken(v)

(* The first mode with the prefix v.  dss refuses a mode it cannot set;     *)
(* percpu_arena and thp report the lack of support and set it all the same. *)
HandleMode(o, v, old) ==
  LET fit == {m \in DOMAIN o.names : IsPrefix(v, o.names[m])}
      mode == CHOOSE m \in fit : \A n \in fit : m <= n
      supported == o.needs \in Config \cup {"nothing"}
  IN  IF fit = {} \/ (o.needs = "dss" /\ ~supported /\ mode # 1)
      THEN Refused(old)
      ELSE [val |-> o.names[mode], ok |-> supported \/ o.needs = "dss"]

KnownLetters == {"J", "g"}

(* init_opt_stats_opts(): letters already there or unknown are passed over. *)
HandleLetters(v, old) == Taken(old \cup (v \cap KnownLetters))

(* malloc_conf_multi_sizes_next() until the value is used up or a range is  *)
(* bad; the ranges before a bad one have been applied.                      *)
HandleRanges(o, v, old) ==
  LET bad == {i \in DOMAIN v : v[i] = "bad"}
      good == IF bad = {} THEN Len(v) ELSE (CHOOSE i \in bad : \A j \in bad : i <= j) - 1
  IN  IF o.reset /\ v = <<"default">> THEN Taken(<<>>)
      ELSE [val |-> old \o SubSeq(v, 1, good), ok |-> bad = {} /\ v # <<>>]

(* fxp_parse() stores the number it read although characters follow it.     *)
HandleRatio(o, v, old) ==
  CASE v = "text" -> Refused(old)
    [] v = "trailing" -> [val |-> IF o.direct THEN "inside" ELSE old, ok |-> FALSE]
    [] v = "above" /\ o.bounded -> Refused(old)
    [] OTHER -> Taken(v)

Capacity == 4

(* A string is cut at the size of its buffer less the terminator; `log'     *)
(* (slack 0) lets a value of exactly the buffer's size through.             *)
HandleText(o, v, old) == Taken(IF v <= Capacity - o.slack THEN v ELSE Capacity - 1)

(* lg_san_uaf_align: a bad value is reported, and then clipped and stored.  *)
(* A text reads as UINTMAX_MAX, which is -1.                                *)
HandleUaf(v, old) ==
  [val |-> CASE v = "text" -> "-1"
             [] v = "below" -> "min"
             [] v = "above" -> "max"
             [] OTHER -> "inside",
   ok |-> v \in {"inside", "above"}]

Handle(key, v, old) ==
  LET o == Options[key] IN
  CASE o.kind = "bool" -> HandleBool(v, old)
    [] o.kind = "word" -> HandleWord(o, v, old)
    [] o.kind = "number" -> IF key = "narenas" /\ v = "default" THEN Taken("0")
                            ELSE HandleNumber(o, v, old)
    [] o.kind = "mode" -> HandleMode(o, v, old)
    [] o.kind = "letters" -> HandleLetters(v, old)
    [] o.kind = "ranges" -> HandleRanges(o, v, old)
    [] o.kind = "ratio" -> IF key = "hpa_dirty_mult" /\ v = "-1" THEN Taken("-1")
                           ELSE HandleRatio(o, v, old)
    [] o.kind = "text" -> HandleText(o, v, old)
    [] o.kind = "uaf" -> HandleUaf(v, old)

-----------------------------------------------------------------------------
(* The strings.                                                             *)

Values(o) ==
  LET k == Options[o].kind IN
  CASE k = "bool" -> {"true", "false", "yes"}
    [] k = "word" -> Options[o].words \cup {"al"}
    [] k = "number" -> Numerals \cup (IF o = "narenas" THEN {"default"} ELSE {})
    [] k = "mode" -> Range(Options[o].names) \cup {"", "x"}
    [] k = "letters" -> SUBSET {"J", "g", "?"}
    [] k = "ranges" -> {<<>>, <<"r1">>, <<"r2", "bad">>, <<"bad">>, <<"default">>}
    [] k = "ratio" -> (Numerals \ {"below"}) \cup {"-1"}
    [] k = "text" -> 0..(Capacity + 1)
    [] k = "uaf" -> Numerals

Initial(o) ==
  CASE Options[o].kind = "letters" -> {}
    [] Options[o].kind = "ranges" -> <<>>
    [] Options[o].kind = "text" -> 0
    [] OTHER -> "initial"

Keys(o) ==
  {k \in DOMAIN Options : Variable(k) = o}
    \cup {SubSeq(o, 1, n) : n \in IF o \in Range(Abbreviated) THEN {0, 1} ELSE {}}

Pairs(o) ==
  {<<"abort_conf", v>> : v \in {"true", "false", "yes"}}
    \cup {<<"confirm_conf", v>> : v \in {"true", "false"}}
    \cup {<<"nosuch", "true">>, <<"experimental_nosuch", "true">>}
    \cup UNION {{<<k, v>> : v \in Values(Option(k))} : k \in Keys(o)}

(* A source is NULL or holds a string: its pairs in order, and whether it   *)
(* ends with a comma, with a key or with a character no key may have.       *)
NoString == [null |-> TRUE, pairs |-> <<>>, malformed |-> FALSE]
String(ps, m) == [null |-> FALSE, pairs |-> ps, malformed |-> m]

Sources == 0..4

PairsIn(f) ==
  FlattenSeq([i \in 1..5 |->
    [j \in DOMAIN f[i - 1].pairs |-> <<i - 1>> \o f[i - 1].pairs[j]]])

(* At most MaxPairs pairs over the given sources, in order; one of them may *)
(* end badly when there is room; the others are NULL or (in source 2, the   *)
(* name of a link) empty.                                                   *)
Strings(o) ==
  LET Placed(n) == {q \in [1..n -> Given \X Pairs(o)] :
                      \A i, j \in 1..n : i < j => q[i][1] <= q[j][1]}
      Of(q, s) == LET mine == SelectSeq(q, LAMBDA x : x[1] = s)
                  IN  [i \in DOMAIN mine |-> mine[i][2]]
      Layout(q, m) ==
        [s \in Sources |-> IF Of(q, s) # <<>> \/ s \in {2, m}
                           THEN String(Of(q, s), s = m) ELSE NoString]
  IN  UNION {{Layout(q, m) : q \in Placed(n),
                m \in IF n < MaxPairs THEN Given \cup {9} ELSE {9}} : n \in 0..MaxPairs}

-----------------------------------------------------------------------------
(* The machine.                                                             *)

At(pass, s) == [pass |-> pass, source |-> s]

Init ==
  /\ watched \in Watch
  /\ strings \in Strings(watched)
  /\ val = Initial(watched)
  /\ \E debug \in BOOLEAN :
       flags = [confirm |-> FALSE, abort |-> debug, error |-> FALSE]
  /\ at = At("first", 0)
  /\ shown = {}

(* The values that the strings are read into.                               *)
Now == [val |-> val, confirm |-> flags.confirm, abort |-> flags.abort,
        error |-> flags.error]

Truth(v, old) == IF v = "true" THEN TRUE ELSE IF v = "false" THEN FALSE ELSE old

(* malloc_conf_error(): keys that begin with experimental_ are tolerated.   *)
malloc_conf_error(k, st) ==
  IF IsPrefix("experimental_", k) THEN st ELSE [st EXCEPT !.error = TRUE]

(* One pair of a string in the second pass.                                 *)
Apply(st, pair) ==
  LET k == pair[1]
      v == pair[2]
      o == Option(k)
      r == Handle(o, v, IF Variable(o) = watched THEN st.val ELSE "initial")
  IN  IF o = NoOption THEN malloc_conf_error(k, st)
      ELSE LET set == CASE o = "confirm_conf" -> [st EXCEPT !.confirm = Truth(v, @)]
                        [] o = "abort_conf" -> [st EXCEPT !.abort = Truth(v, @)]
                        [] Variable(o) = watched -> [st EXCEPT !.val = r.val]
                        [] OTHER -> st
           IN  IF r.ok THEN set ELSE malloc_conf_error(k, set)

(* Defect: the first pass does nothing.                                     *)
ApplyFirst_None(st, pair) == st

(* In the first pass only confirm_conf is looked at, without complaint.     *)
ApplyFirst(st, pair) ==
  IF Option(pair[1]) = "confirm_conf" THEN [st EXCEPT !.confirm = Truth(pair[2], @)]
  ELSE st

(* Defect: a string that ends badly is not an error.                        *)
malloc_conf_next_Lax(st, string) == st

(* malloc_conf_next() reports a string that ends badly, in either pass.     *)
malloc_conf_next(st, string) ==
  IF string.malformed THEN [st EXCEPT !.error = TRUE] ELSE st

(* The order of the sources.  Defect: malloc_conf_2_conf_harder is read     *)
(* before the environment variable.                                         *)
Source_Swapped(i) == CASE i = 3 -> 4 [] i = 4 -> 3 [] OTHER -> i

Source(i) == i

(* malloc_conf_init_helper(): the sources in turn; a source that is NULL is *)
(* passed over together with the test for abort_conf.                       *)
ReadSource ==
  /\ at.pass \in {"first", "second"}
  /\ LET s == strings[Source(at.source)]
         step(st, p) == IF at.pass = "first" THEN ApplyFirst(st, p) ELSE Apply(st, p)
         st == IF s.null THEN Now
               ELSE malloc_conf_next(FoldLeft(step, Now, s.pairs), s)
         last == at.source = 4
     IN  /\ val' = st.val
         /\ flags' = [confirm |-> st.confirm, abort |-> st.abort, error |-> st.error]
         /\ shown' = IF at.pass = "second" /\ flags.confirm
                     THEN shown \cup {Source(at.source)} ELSE shown
         /\ at' = IF ~s.null /\ st.abort /\ st.error THEN At("aborted", 0)
                  ELSE IF ~last THEN [at EXCEPT !.source = @ + 1]
                  ELSE IF at.pass = "first" THEN At("second", 0)
                  ELSE At("deps", 0)
  /\ UNCHANGED <<strings, watched>>

(* malloc_conf_init_check_deps(), when prof_leak_error is the option that   *)
(* is followed (prof_final keeps its initial value, which is FALSE).        *)
CheckDeps ==
  /\ at.pass = "deps"
  /\ at' = At(IF watched = "prof_leak_error" /\ val = "true" /\ flags.abort
              THEN "aborted" ELSE "done", 0)
  /\ UNCHANGED <<strings, watched, val, flags, shown>>

Finished ==
  /\ at.pass \in {"done", "aborted"}
  /\ UNCHANGED vars

Next == ReadSource \/ CheckDeps \/ Finished

Spec == Init /\ [][Next]_vars

-----------------------------------------------------------------------------
(* Properties.                                                              *)

(* What the strings say about a pair, whatever was read before it.          *)
PairOk(k, v) == Option(k) # NoOption /\ Handle(Option(k), v, Initial(Option(k))).ok

(* The handlers that change their variable although they report the value:  *)
(* ranges before the bad one, a ratio with something after it, modes that   *)
(* the system does not support, and lg_san_uaf_align.                       *)
ChangesAnyway(o) ==
  \/ Options[o].kind \in {"ranges", "uaf"}
  \/ Options[o].kind = "ratio" /\ Options[o].direct
  \/ Options[o].kind = "mode"

(* The sources are interpreted in their order, each from left to right, and *)
(* the last accepted value of an option is the one that counts: reading     *)
(* twice, clipping, rejected values and the abbreviations of keys do not    *)
(* change that.  Options that add up their values, or that change on a      *)
(* value they refuse, are set apart.                                        *)
LastWins ==
  LET all == PairsIn(strings)
      Sets(i) == /\ Variable(Option(all[i][2])) = watched
                 /\ PairOk(all[i][2], all[i][3])
      hits == {i \in DOMAIN all : Sets(i)}
      last == CHOOSE i \in hits : \A j \in hits : j <= i
  IN  at.pass = "done" /\ Options[watched].kind # "letters" /\ ~ChangesAnyway(watched)
      => val = IF hits = {} THEN Initial(watched)
               ELSE Handle(Option(all[last][2]), all[last][3], Initial(watched)).val

(* With abort_conf set when the strings have been read, no string held      *)
(* anything invalid: a bad value, an unknown key or a malformed string is   *)
(* fatal even if it comes before the pair that sets abort_conf, in another  *)
(* source.                                                                  *)
InvalidFatal ==
  at.pass = "done" /\ flags.abort =>
    \A s \in Sources :
      /\ ~strings[s].malformed
      /\ \A p \in Range(strings[s].pairs) :
           PairOk(p[1], p[2]) \/ IsPrefix("experimental_", p[1])

(* confirm_conf given anywhere, and nowhere taken back, shows every source, *)
(* those read before it included: the purpose of the first pass.            *)
ConfirmShowsAll ==
  LET confirms == {p[2] : p \in {q \in UNION {Range(strings[s].pairs) : s \in Sources} :
                                    q[1] = "confirm_conf"}}
  IN  at.pass = "done" /\ confirms = {"true"} => shown = Sources
=============================================================================
