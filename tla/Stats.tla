------------------------------- MODULE Stats --------------------------------
(***************************************************************************)
(* The reports of jemalloc: stats_print of stats.c, the log of sampled     *)
(* allocations (prof_log.c) and the dump of recent ones (prof_recent.c),   *)
(* written through the emitter (emitter.h) and a buffered writer           *)
(* (buf_writer.c).  The emitter knows its depth, whether an item was       *)
(* written at that depth and whether a key waits for its value; that the   *)
(* text is JSON also depends on every print function closing what it       *)
(* opened, under every choice of options.                                  *)
(*                                                                         *)
(* A print function is the sequence of its emitter calls, and one step.    *)
(* Names and values do not matter here, so a run of key-value pairs is two *)
(* of them: after the second, the emitter is as after any later one.       *)
(***************************************************************************)
EXTENDS Naturals, Sequences, FiniteSets, SequencesExt

CONSTANTS
    NSizes,         \* size classes of bins, large extents and page sizes
    NMutexes,       \* mutexes of an arena, and global ones
    Settings,       \* the options and circumstances of a report
    BufSizes        \* sizes of the writer's buffer; 0 if it could not be had

VARIABLES
    o,          \* options, and what the report is about
    todo,       \* print functions still to be called
    em,         \* the emitter
    bw,         \* the buffered writer
    json        \* a reader of what was written: the grammar of JSON

vars == <<o, todo, em, bw, json>>

-----------------------------------------------------------------------------
(* The emitter.  out is what the calls of a step wrote.                     *)

Put(e, tok) == [e EXCEPT !.out = Append(@, tok)]
emitter_nest_inc(e) == [e EXCEPT !.depth = @ + 1, !.item = FALSE]
\* Defect: what was opened does not count as an item.
emitter_nest_dec_Forget(e) == [e EXCEPT !.depth = @ - 1]
emitter_nest_dec(e) == [e EXCEPT !.depth = @ - 1, !.item = TRUE]
emitter_json_key_prefix(e) ==
    IF e.key THEN [e EXCEPT !.key = FALSE]
    ELSE IF e.item THEN Put(e, ",") ELSE e
emitter_json_key(e) ==
    IF e.json THEN [Put(emitter_json_key_prefix(e), "key") EXCEPT !.key = TRUE] ELSE e
emitter_json_value(e) ==
    IF e.json THEN [Put(emitter_json_key_prefix(e), "value") EXCEPT !.item = TRUE] ELSE e
emitter_json_kv(e) == emitter_json_value(emitter_json_key(e))
\* emitter_json_array_begin and emitter_json_object_begin, and the _end.
\* Defect: the table gets the brackets, too.
Open_Always(e, bracket) == emitter_nest_inc(Put(emitter_json_key_prefix(e), bracket))
Open(e, bracket) ==
    IF e.json THEN emitter_nest_inc(Put(emitter_json_key_prefix(e), bracket)) ELSE e
Close(e, bracket) == IF e.json THEN Put(emitter_nest_dec(e), bracket) ELSE e

emitter_table_dict_begin(e) == IF e.json THEN e ELSE emitter_nest_inc(Put(e, "text"))
emitter_table_dict_end(e) == IF e.json THEN e ELSE emitter_nest_dec(e)
\* emitter_table_kv, emitter_table_printf and emitter_table_row.
Table(e) == IF e.json THEN e ELSE Put(e, "text")

emitter_kv(e) ==
    [(IF e.json THEN emitter_json_kv(e) ELSE Table(e)) EXCEPT !.item = TRUE]
emitter_dict_begin(e) ==
    IF e.json THEN Open(emitter_json_key(e), "{") ELSE emitter_table_dict_begin(e)
emitter_dict_end(e) == IF e.json THEN Close(e, "}") ELSE emitter_table_dict_end(e)
emitter_begin(e) == IF e.json THEN emitter_nest_inc(Put(e, "{")) ELSE Put(e, "text")
emitter_end(e) == IF e.json THEN Put(emitter_nest_dec(e), "}") ELSE e

Emit(e, op) ==
    CASE op = "begin" -> emitter_begin(e)
      [] op = "end" -> emitter_end(e)
      [] op = "kv" -> emitter_kv(e)
      [] op = "dict" -> emitter_dict_begin(e)
      [] op = "dict_end" -> emitter_dict_end(e)
      [] op = "table" -> Table(e)
      [] op = "json_kv" -> emitter_json_kv(e)
      [] op = "json_value" -> emitter_json_value(e)
      [] op = "object_kv" -> Open(emitter_json_key(e), "{")
      [] op = "array_kv" -> Open(emitter_json_key(e), "[")
      [] op = "object" -> Open(e, "{")
      [] op = "array" -> Open(e, "[")
      [] op = "object_end" -> Close(e, "}")
      [] op = "array_end" -> Close(e, "]")

-----------------------------------------------------------------------------
(* The print functions.                                                    *)

Kvs == <<"kv", "kv">>
JsonKvs == <<"json_kv", "json_kv">>
Object(body) == <<"object">> \o body \o <<"object_end">>
ObjectKv(body) == <<"object_kv">> \o body \o <<"object_end">>
ArrayKv(body) == <<"array_kv">> \o body \o <<"array_end">>
Times(n, body) == FlattenSeq([k \in 1..n |-> body])
If(cond, body) == IF cond THEN body ELSE <<>>

\* prof_stats_on: only for the sum of all arenas.
ProfOn(i) == o.prof /\ i = "all"
\* A line that stands for size classes without any activity.
GapLine(j) == If(j - 1 \in o.gap /\ j \notin o.gap, <<"table">>)
LastGap == If(NSizes \in o.gap, <<"table">>)
ForSizes(body(_)) == FlattenSeq([j \in 1..NSizes |-> GapLine(j) \o body(j)])

mutex_stats_emit == <<"table">> \o JsonKvs

BinStats(prof) ==
    Object(JsonKvs \o If(prof, JsonKvs) \o JsonKvs \o If(o.mutex, ObjectKv(JsonKvs)))
stats_arena_bins_print(prof) ==
    <<"table", "table">>
        \o ArrayKv(ForSizes(LAMBDA j :
              If(j \notin o.gap \/ o.json, BinStats(prof) \o <<"table">>)))
        \o LastGap

stats_arena_lextents_print(prof) ==
    <<"table", "table">>
        \o ArrayKv(ForSizes(LAMBDA j :
              Object(If(prof, JsonKvs) \o <<"json_kv">>) \o If(j \notin o.gap, <<"table">>)))
        \o LastGap

stats_arena_extents_print ==
    <<"table", "table">>
        \o ArrayKv(ForSizes(LAMBDA j : Object(JsonKvs) \o If(j \notin o.gap, <<"table">>)))
        \o LastGap

FullAndEmptySlabs == <<"table">> \o ObjectKv(JsonKvs) \o <<"table">> \o ObjectKv(JsonKvs)
NonfullSlabs ==
    <<"table">> \o ArrayKv(ForSizes(LAMBDA j :
                       If(j \notin o.gap, <<"table">>) \o Object(JsonKvs)))
stats_arena_hpa_shard_print ==
    <<"kv", "table">> \o ObjectKv(JsonKvs \o FullAndEmptySlabs \o NonfullSlabs) \o LastGap

stats_arena_mutexes_print ==
    ObjectKv(<<"table">> \o Times(NMutexes, ObjectKv(mutex_stats_emit)))

\* stats_arena_print: general and decay statistics, then counts, then the parts
\* that have functions of their own.
ArenaStats == Kvs \o JsonKvs \o <<"table", "table", "table">>
ArenaCounts ==
    <<"table">> \o ObjectKv(JsonKvs \o <<"table">>) \o ObjectKv(JsonKvs \o <<"table">>)
        \o <<"table", "table", "table">> \o <<"json_kv", "table", "json_kv", "table">>
stats_arena_print(i) ==
    <<"open", "arena">> \o If(o.mutex, <<"mutexes">>)
        \o If(o.bins, IF ProfOn(i) THEN <<"prof_bins">> ELSE <<"bins">>)
        \o If(o.large, IF ProfOn(i) THEN <<"prof_large">> ELSE <<"large">>)
        \o If(o.extents, <<"extents">>) \o If(o.hpa, <<"hpa">>) \o <<"close">>

\* Build-time options, run-time options, profiling, arenas.
Dict == <<"dict">> \o Kvs \o <<"dict_end">>
ArenasInfo ==
    ObjectKv(<<"kv">> \o JsonKvs \o Kvs
        \o If(o.json, ArrayKv(Times(NSizes, Object(JsonKvs))))
        \o <<"kv">>
        \o If(o.json, ArrayKv(Times(NSizes, Object(<<"json_kv">>)))))
stats_general_print == <<"kv">> \o Dict \o Dict \o If(o.prof, Dict) \o ArenasInfo

\* stats_print_helper up to the arenas.
GlobalStats ==
    ObjectKv(JsonKvs \o <<"table", "table">> \o ObjectKv(JsonKvs) \o <<"table">>
        \o If(o.mutex, <<"table">> \o ObjectKv(Times(NMutexes, ObjectKv(mutex_stats_emit)))))

\* The arenas stats_print_helper goes through.
Reported ==
    If(o.merged /\ (Cardinality(o.initialized) > 1 \/ ~o.unmerged), stats_arena_print("all"))
        \o If(o.destroyed /\ o.anyDestroyed, stats_arena_print("destroyed"))
        \o If(o.unmerged, Times(Cardinality(o.initialized), stats_arena_print("one")))

stats_print ==
    <<"begin_stats">> \o If(o.general, <<"general">>)
        \o If(o.config_stats,
              <<"global">> \o If(o.merged \/ o.destroyed \/ o.unmerged,
                                 <<"open">> \o Reported \o <<"close">>))
        \o <<"end_stats">>

\* The log of sampled allocations.
prof_log_emit_threads == ArrayKv(Times(o.records, Object(JsonKvs)))
prof_log_emit_traces ==
    ArrayKv(Times(o.records, <<"array">> \o Times(o.records, <<"json_value">>) \o <<"array_end">>))
prof_log_emit_allocs == ArrayKv(Times(o.records, Object(JsonKvs)))
prof_log_emit_metadata == ObjectKv(JsonKvs)

\* The dump of recent allocations, some of them released and of named threads.
prof_recent_alloc_dump_node ==
    LET trace == ArrayKv(Times(o.records, <<"json_value">>))
    IN  Object(JsonKvs \o If(o.named, <<"json_kv">>) \o <<"json_kv">> \o trace
            \o If(o.released, <<"json_kv">> \o If(o.named, <<"json_kv">>) \o <<"json_kv">> \o trace))

Calls(f) ==
    CASE f = "begin_stats" -> <<"begin", "table", "object_kv">>
      [] f = "end_stats" -> <<"object_end", "table", "end">>
      [] f = "general" -> stats_general_print
      [] f = "global" -> GlobalStats
      [] f = "open" -> <<"table", "object_kv">>
      [] f = "close" -> <<"object_end">>
      [] f = "arena" -> ArenaStats \o ArenaCounts
      [] f = "mutexes" -> stats_arena_mutexes_print
      [] f \in {"bins", "prof_bins"} -> stats_arena_bins_print(f = "prof_bins")
      [] f \in {"large", "prof_large"} -> stats_arena_lextents_print(f = "prof_large")
      [] f = "extents" -> stats_arena_extents_print
      [] f = "hpa" -> stats_arena_hpa_shard_print
      [] f = "log" -> <<"begin">> \o prof_log_emit_metadata \o prof_log_emit_threads
                          \o prof_log_emit_traces \o prof_log_emit_allocs \o <<"end">>
      [] f = "recent" -> <<"begin">> \o JsonKvs
                             \o ArrayKv(Times(o.records, prof_recent_alloc_dump_node)) \o <<"end">>

\* The calls in order, each on the outcome of the one before.
RECURSIVE Run(_, _, _)
Run(f(_, _), x, calls) ==
    IF calls = <<>> THEN x
    ELSE LET y == f(x, Head(calls))
         IN  IF y = x THEN Run(f, x, Tail(calls)) ELSE Run(f, y, Tail(calls))

-----------------------------------------------------------------------------
(* The grammar of JSON: what may come next, and what is open.              *)

After(p) == [p EXCEPT !.want = IF p.open = <<>> THEN "end" ELSE "comma"]
Read(p, tok) ==
    LET top == IF p.open = <<>> THEN "" ELSE Head(p.open)
        value == p.want \in {"value", "first value"}
        wrong == [p EXCEPT !.want = "wrong"]
    IN  CASE tok = "value" -> IF value THEN After(p) ELSE wrong
          [] tok = "{" -> IF value THEN [open |-> <<"{">> \o p.open, want |-> "first key"] ELSE wrong
          [] tok = "[" -> IF value THEN [open |-> <<"[">> \o p.open, want |-> "first value"] ELSE wrong
          [] tok = "key" -> IF p.want \in {"key", "first key"} THEN [p EXCEPT !.want = "value"]
                            ELSE wrong
          [] tok = "," -> IF p.want = "comma" THEN [p EXCEPT !.want = IF top = "{" THEN "key" ELSE "value"]
                          ELSE wrong
          [] tok = "}" -> IF top = "{" /\ p.want \in {"comma", "first key"}
                          THEN After([p EXCEPT !.open = Tail(@)]) ELSE wrong
          [] tok = "]" -> IF top = "[" /\ p.want \in {"comma", "first value"}
                          THEN After([p EXCEPT !.open = Tail(@)]) ELSE wrong
          [] OTHER -> wrong

-----------------------------------------------------------------------------
(* The buffered writer: what is written goes to the buffer, which goes to  *)
(* the reader when it is full.                                             *)

\* buf_writer_cb for one piece of text; w has the buffer and what was flushed.
buf_writer_flush(w) == [w EXCEPT !.done = @ \o w.buf, !.buf = <<>>]
buf_writer_cb(w, tok) ==
    IF w.size = 0 THEN [w EXCEPT !.done = Append(@, tok)]
    ELSE IF Len(w.buf) = w.size
         THEN [buf_writer_flush(w) EXCEPT !.buf = <<tok>>]
         ELSE [w EXCEPT !.buf = Append(@, tok)]

Init ==
    \E report \in {"stats", "log", "recent"}, size \in BufSizes :
        /\ o \in Settings
        /\ todo = IF report = "stats" THEN stats_print ELSE <<report>>
        /\ em = [json |-> o.json \/ report # "stats", depth |-> 0, item |-> FALSE,
                 key |-> FALSE, out |-> <<>>]
        /\ bw = [size |-> size, buf |-> <<>>, done |-> <<>>]
        /\ json = [open |-> <<>>, want |-> "value"]

\* A print function writes through the buffered writer.
PrintNext ==
    /\ todo # <<>>
    /\ LET e == Run(Emit, em, Calls(Head(todo)))
           w == Run(buf_writer_cb, bw, e.out)
       IN  /\ em' = [e EXCEPT !.out = <<>>]
           /\ bw' = [w EXCEPT !.done = <<>>]
           /\ json' = IF e.json THEN Run(Read, json, w.done) ELSE json
    /\ todo' = Tail(todo)
    /\ UNCHANGED o

buf_writer_terminate ==
    /\ todo = <<>> /\ bw.buf # <<>>
    /\ bw' = [buf_writer_flush(bw) EXCEPT !.done = <<>>]
    /\ json' = IF em.json THEN Run(Read, json, buf_writer_flush(bw).done) ELSE json
    /\ UNCHANGED <<o, todo, em>>

Next == PrintNext \/ buf_writer_terminate

Spec == Init /\ [][Next]_vars

-----------------------------------------------------------------------------
\* A report asked for as JSON is JSON for every choice of options, every set of
\* arenas and every size of the buffer: commas, keys and brackets are where the
\* grammar wants them, and all of the text has been written at the end.
ReportIsJson ==
    em.json =>
        /\ json.want # "wrong"
        /\ todo = <<>> /\ bw.buf = <<>> => json.want = "end" /\ em.depth = 0

\* A report asked for as a table has no piece of JSON, and every dictionary that
\* indents it is closed again.
TableIsPlain ==
    ~em.json => /\ \A k \in DOMAIN bw.buf : bw.buf[k] = "text"
                /\ em.depth = 0 /\ ~em.key
=============================================================================
