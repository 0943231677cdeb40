------------------------------- MODULE Logs -------------------------------
(***************************************************************************)
(* The plugins' log files (plugins/logger.c) and the program that merges   *)
(* them (plugins/print-log.c).  Each log is written through mapped windows *)
(* of 2 MB; the first slot of the first window holds the number of records *)
(* and stays mapped.  The process may die, or the disk be full, between    *)
(* any two stores: what is in the files then is what the printer reads.    *)
(***************************************************************************)
EXTENDS Integers, Sequences

CONSTANTS
    Program, Sampler,   \* threads of the program, and the plugin's sampling threads
    Slots,              \* records that fit in a window, by log
    MaxRecords,         \* bound on the records of all logs
    NSec,               \* nanoseconds in a second, scaled down
    MaxClock            \* bound on the time that passes

VARIABLES
    up,        \* the process runs
    clock,     \* CLOCK_MONOTONIC
    log,       \* by log: count in memory and in the file, pointer, offset, mapped windows, slots
    holder,    \* who has the log's mutex
    call,      \* the call each thread is in
    print      \* state of the printer

vars == <<up, clock, log, holder, call, print>>

Names == {"alloc", "sample", "mig"}
Writers == Program \cup Sampler
NoOne == "no one"
Idle == [log |-> NoOne, at |-> "idle"]
Time(c) == <<c \div NSec, c % NSec>>
Blank == [stamp |-> <<0, 0>>, whole |-> FALSE]      \* what posix_fallocate leaves in a slot
Far == <<MaxClock, NSec>>                           \* LONG_MAX

Init ==
    /\ up = TRUE /\ clock = NSec
    /\ log = [l \in Names |-> [cnt |-> 0, file |-> 0, win |-> 0, slot |-> 1, offset |-> 0,
                               mapped |-> {0}, slots |-> <<Blank>>]]
    /\ holder = [l \in Names |-> NoOne]
    /\ call = [t \in Writers |-> Idle]
    /\ print = [at |-> "off", size |-> [l \in Names |-> 0], indx |-> [l \in Names |-> 0],
                start |-> Far, out |-> <<>>]

-----------------------------------------------------------------------------
\* Defect: the window is left one record late.
AtEnd_Late(l) == log[l].slot > Slots[l]

\* (ptr & 0x1fffff) == 0: windows are aligned to their size.
AtEnd(l) == log[l].slot = Slots[l]

\* munmap of the window that ends at the pointer, unless it is the first;
\* then fallocate and mmap of the next.
Remap(g, l) ==
    [g EXCEPT !.mapped = (IF g.offset # 0 THEN @ \ {g.win} ELSE @) \cup {g.offset + 1},
              !.offset = @ + 1, !.win = g.offset + 1, !.slot = 0]

\* logAlloc and logMigration take their mutex; logSample has none, and one
\* thread calls it.  A full disk aborts the process at the change of window.
Enter(t, l) ==
    /\ up /\ call[t] = Idle
    /\ l = "alloc" => t \in Program
    /\ l = "sample" => t \in Sampler
    /\ log["alloc"].cnt + log["sample"].cnt + log["mig"].cnt < MaxRecords
    /\ IF l = "sample" THEN holder' = holder
       ELSE holder[l] = NoOne /\ holder' = [holder EXCEPT ![l] = t]
    /\ call' = [call EXCEPT ![t] = [log |-> l, at |-> "count"]]
    /\ \/ /\ log' = IF AtEnd(l) THEN [log EXCEPT ![l] = Remap(@, l)] ELSE log
          /\ up' = TRUE
       \/ AtEnd(l) /\ up' = FALSE /\ log' = log
    /\ UNCHANGED <<clock, print>>

\* The count in memory and the one in the file, through the first window.
Counted(g) == [g EXCEPT !.cnt = @ + 1, !.file = g.cnt + 1]

Count(t) ==
    /\ up /\ call[t].at = "count"
    /\ log' = [log EXCEPT ![call[t].log] = Counted(@)]
    /\ call' = [call EXCEPT ![t].at = "fill"]
    /\ UNCHANGED <<up, clock, holder, print>>

\* The place in the file a store through the pointer reaches.
Place(l) == log[l].win * Slots[l] + log[l].slot

\* A store through the pointer.
Put(l, r) ==
    LET n == Place(l)
        s == log[l].slots IN
    [i \in 1 .. (IF n > Len(s) THEN n ELSE Len(s)) |-> IF i = n THEN r ELSE IF i > Len(s) THEN Blank ELSE s[i]]

\* The fields of the record, before its time.
Fill(t) ==
    LET l == call[t].log IN
    /\ up /\ call[t].at = "fill"
    /\ log' = [log EXCEPT ![l].slots = Put(l, [stamp |-> <<0, 0>>, whole |-> TRUE])]
    /\ call' = [call EXCEPT ![t].at = "stamp"]
    /\ UNCHANGED <<up, clock, holder, print>>

\* clock_gettime, and the pointer moves on.
Stamp(t) ==
    LET l == call[t].log IN
    /\ up /\ call[t].at = "stamp"
    /\ \E now \in {clock, clock + 1} :
        /\ now <= MaxClock
        /\ clock' = now
        /\ log' = [log EXCEPT ![l].slots = Put(l, [stamp |-> Time(now), whole |-> TRUE]),
                              ![l].slot = @ + 1]
    /\ holder' = [holder EXCEPT ![l] = NoOne]
    /\ call' = [call EXCEPT ![t] = Idle]
    /\ UNCHANGED <<up, print>>

Die ==
    /\ up
    /\ up' = FALSE
    /\ UNCHANGED <<clock, log, holder, call, print>>

-----------------------------------------------------------------------------
\* Defect: nanoseconds are compared whatever the seconds are.
Before_Any(a, b) == a[1] < b[1] \/ a[2] < b[2]

Before(a, b) == a[1] < b[1] \/ (a[1] = b[1] /\ a[2] < b[2])

\* Record i of a log, counting from 0: the slot after the counter's.
Record(l, i) == IF i + 1 <= Len(log[l].slots) THEN log[l].slots[i + 1] ELSE Blank

\* The time of the first record of each log that has one, in turn.
Earlier(start, l) ==
    IF log[l].file > 0 /\ Before(Record(l, 0).stamp, start) THEN Record(l, 0).stamp ELSE start

Open ==
    /\ ~up /\ print.at = "off"
    /\ print' = [print EXCEPT !.at = "on", !.size = [l \in Names |-> log[l].file],
                              !.start = Earlier(Earlier(Earlier(Far, "alloc"), "sample"), "mig")]
    /\ UNCHANGED <<up, clock, log, holder, call>>

Left(l) == print.indx[l] < print.size[l]
Stamped(l) == Record(l, print.indx[l]).stamp
\* A record of a is left, and is earlier than the one b has next.
Sooner(a, b) == Left(a) /\ Before(Stamped(a), Stamped(b))

\* The log whose record the main loop prints next.
Choice ==
    IF Left("alloc")
    THEN IF Sooner("sample", "alloc") THEN IF Sooner("mig", "sample") THEN "mig" ELSE "sample"
         ELSE IF Sooner("mig", "alloc") THEN "mig" ELSE "alloc"
    ELSE IF Left("sample")
    THEN IF Sooner("mig", "sample") THEN "mig" ELSE "sample"
    ELSE IF Left("mig") THEN "mig" ELSE NoOne

\* printTime: the time since start, with a second borrowed.
printTime(ts) ==
    IF ts[2] < print.start[2] THEN <<ts[1] - 1 - print.start[1], ts[2] + NSec - print.start[2]>>
    ELSE <<ts[1] - print.start[1], ts[2] - print.start[2]>>

onRecord ==
    /\ print.at = "on"
    /\ print' = IF Choice = NoOne THEN [print EXCEPT !.at = "done"]
                ELSE [print EXCEPT !.indx[Choice] = @ + 1,
                                   !.out = Append(@, [log |-> Choice, n |-> print.indx[Choice],
                                                      time |-> printTime(Stamped(Choice))])]
    /\ UNCHANGED <<up, clock, log, holder, call>>

Next ==
    \/ \E t \in Writers, l \in Names : Enter(t, l)
    \/ \E t \in Writers : Count(t) \/ Fill(t) \/ Stamp(t)
    \/ Die \/ Open \/ onRecord

Spec == Init /\ [][Next]_vars

-----------------------------------------------------------------------------
Moment(ts) == ts[1] * NSec + ts[2]
Whole(l, i) == Record(l, i).stamp # <<0, 0>>
InProgress(l) == \E t \in Writers : call[t].log = l /\ call[t].at \in {"fill", "stamp"}

\* Whenever the process dies, the files hold what the printer relies on: every
\* store went through a window that is mapped and to the slot of its number,
\* the counted records are complete and in the order of their times, except
\* that the last one may be incomplete, and only if a call was then in
\* progress (logger.c logAlloc, logSample, logMigration).
FilesReadable ==
    \A l \in Names :
        /\ 0 \in log[l].mapped /\ log[l].win \in log[l].mapped
        /\ log[l].slot <= Slots[l]
        /\ InProgress(l) => Place(l) = log[l].cnt
        /\ log[l].file = log[l].cnt
        /\ \A i \in 0 .. log[l].file - 1 : ~Whole(l, i) => i = log[l].file - 1 /\ InProgress(l)
        /\ \A i, j \in 0 .. log[l].file - 1 :
               (i < j /\ Whole(l, j)) => Moment(Record(l, i).stamp) <= Moment(Record(l, j).stamp)

\* The printer prints every counted record once, the records of a log in their
\* order and all complete records in the order of their times, with times
\* since the start that are not negative and have less than a second of
\* nanoseconds: although the records that were being written are in the files
\* without a time (print-log.c main, printTime).
MergedInOrder ==
    print.at = "done" =>
        LET out == print.out
            whole == {k \in DOMAIN out : Whole(out[k].log, out[k].n)} IN
        /\ \A l \in Names : \A i \in 0 .. log[l].file - 1 :
               \E k \in DOMAIN out : out[k].log = l /\ out[k].n = i
        /\ \A j, k \in DOMAIN out : (j < k /\ out[j].log = out[k].log) => out[j].n < out[k].n
        /\ \A j, k \in whole : j < k => Moment(out[j].time) <= Moment(out[k].time)
        /\ \A k \in whole : out[k].time[1] >= 0 /\ out[k].time[2] \in 0 .. NSec - 1
=============================================================================
