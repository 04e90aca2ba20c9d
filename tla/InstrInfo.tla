----------------------------- MODULE InstrInfo -----------------------------
(***************************************************************************)
(* PHP children of several fuzzers trace their requests against one table  *)
(* of program points with distances to the target, /tmp/instr-info.csv.    *)
(* Each child reads it, without a lock, when its trace starts; reports the *)
(* closest distance it passes to its fuzzer; and, when a call that is not  *)
(* in the table leads to a point that is, adds the call to its own copy    *)
(* and writes the whole copy back, under flock on a second file. The       *)
(* fuzzer may kill it at any time.                                         *)
(*                                                                         *)
(* The file is a sequence of rows: the row of type 'f' that opens a file's *)
(* section, or a line of the section with its distance, which does not say *)
(* which file it belongs to. stdio reads and writes BufferRows of them at  *)
(* a time, so the rows are all taken to be of one length. Taint rows, node *)
(* ids and the bitmap proper are left out.                                 *)
(***************************************************************************)
EXTENDS Integers, SequencesExt

CONSTANTS
    Children,     \* one per fuzzer: it runs one child at a time
    Files,        \* the application's PHP files
    Points,       \* [file, line] of the jumps and calls that are traced
    InitialRows,  \* the table distance_calculator.py made
    BufferRows,   \* rows in a buffer of stdio
    CountMod,     \* the counter of updates has this many values (256)
    MaxDistance,  \* bound: no learned distance is greater
    MaxRows,      \* bound: no table is longer
    MaxKills      \* bound on the children killed in a behaviour

None       == "none"
NoFile     == ""
NoCall     == [file |-> NoFile, line |-> 0]
Unreached  == MaxDistance + 1   \* UINT_MAX, which run_target puts into the map
NoDistance == -1

\* A line's distance is one over a probability: no less than 1, which is a target's.
Rows         == [file : Files, line : {0}, dist : {0}]
                \cup [file : {NoFile}, line : Nat \ {0}, dist : 1 .. MaxDistance]
Header(file) == [file |-> file, line |-> 0, dist |-> 0]
Row(line, d) == [file |-> NoFile, line |-> line, dist |-> d]

ASSUME InstrAssumption ==
    /\ MaxDistance \in Nat
    /\ Points \subseteq [file : Files, line : Nat \ {0}]
    /\ InitialRows \in Seq(Rows)
    /\ None \notin Children
    /\ BufferRows \in Nat \ {0}
    /\ CountMod \in Nat \ {0}
    /\ MaxRows \in Nat
    /\ MaxKills \in Nat

VARIABLES
    csv,       \* the rows of the file
    lock,      \* who holds the lock on /tmp/instr-info.csv.lock
    pc,        \* pc[c]: off, read, trace, lock, open, write
    table,     \* table[c]: dist_info, its copy
    pending,   \* pending[c]: the unlisted call it made last (funx_check_*)
    closest,   \* closest[c]: the distance in the shared map
    count,     \* count[c]: the counter next to it
    hit,       \* hit[c]: distances of the listed points it has passed
    kills

tracing == <<table, pending, closest, count, hit>>
vars    == <<csv, lock, pc, tracing, kills>>

TypeOK ==
    /\ csv \in Seq(Rows)
    /\ lock \in Children \cup {None}
    /\ pc \in [Children -> {"off", "read", "trace", "lock", "open", "write"}]
    /\ table \in [Children -> Seq(Rows)]
    /\ pending \in [Children -> Points \cup {NoCall}]
    /\ closest \in [Children -> 0 .. Unreached]
    /\ count \in [Children -> 0 .. CountMod - 1]
    /\ hit \in [Children -> SUBSET (1 .. MaxDistance)]
    /\ kills \in 0 .. MaxKills

Init ==
    /\ csv = InitialRows
    /\ lock = None
    /\ pc = [c \in Children |-> "off"]
    /\ table = [c \in Children |-> << >>]
    /\ pending = [c \in Children |-> NoCall]
    /\ closest = [c \in Children |-> Unreached]
    /\ count = [c \in Children |-> 0]
    /\ hit = [c \in Children |-> {}]
    /\ kills = 0

Goto(c, label) == pc' = [pc EXCEPT ![c] = label]

-----------------------------------------------------------------------------
(* A child's request.                                                      *)

\* run_target resets the map and has the fork server make a child, whose
\* vld_start_trace calls read_csv.
Start(c) ==
    /\ pc[c] = "off"
    /\ closest' = [closest EXCEPT ![c] = Unreached]
    /\ count' = [count EXCEPT ![c] = 0]
    /\ hit' = [hit EXCEPT ![c] = {}]
    /\ Goto(c, "read")
    /\ UNCHANGED <<csv, lock, table, pending, kills>>

\* read_csv: a buffer of what is in the file by now, whoever is writing it.
ReadBlock(c) ==
    /\ pc[c] = "read"
    /\ Len(table[c]) < Len(csv)
    /\ LET end == Min({Len(table[c]) + BufferRows, Len(csv)})
       IN  table' = [table EXCEPT ![c] = @ \o SubSeq(csv, Len(@) + 1, end)]
    /\ UNCHANGED <<csv, lock, pc, pending, closest, count, hit, kills>>

\* read_csv: end of file.
EndRead(c) ==
    /\ pc[c] = "read"
    /\ Len(csv) <= Len(table[c])
    /\ Goto(c, "trace")
    /\ UNCHANGED <<csv, lock, tracing, kills>>

\* The rows behind the first header of the file.
Behind(rows, file, i) == \E h \in 1 .. i - 1 : rows[h] = Header(file)
HasSection(rows, file) == \E h \in DOMAIN rows : rows[h] = Header(file)

\* The walk of get_info and insert_into_info_list: past what lies ahead of the
\* section, and past the lines of the section up to the first that is beyond p's.
Passed(rows, p) ==
    {i \in DOMAIN rows :
        \A j \in 1 .. i : Behind(rows, p.file, j) => rows[j].line \in 1 .. p.line}

\* get_info: the first row of the line.
Found(rows, p)    == {i \in Passed(rows, p) : Behind(rows, p.file, i) /\ rows[i].line = p.line}
Listed(rows, p)   == Found(rows, p) # {}
Distance(rows, p) == rows[Min(Found(rows, p))].dist

\* Slip: ahead of the last row that is passed.
InsertEarly(rows, p, d) ==
    IF ~HasSection(rows, p.file) THEN rows
    ELSE [i \in 1 .. Len(rows) + 1 |->
            IF i + 1 \in Passed(rows, p) THEN rows[i]
            ELSE IF i \in Passed(rows, p) THEN Row(p.line, d)
            ELSE rows[i - 1]]

\* insert_into_info_list: behind the rows that are passed. A file without a section
\* gets one in a list that the function's parameters hide from the rest of the
\* program: nothing is inserted.
Insert(rows, p, d) ==
    IF ~HasSection(rows, p.file) THEN rows
    ELSE [i \in 1 .. Len(rows) + 1 |->
            IF i \in Passed(rows, p) THEN rows[i]
            ELSE IF i - 1 \in Passed(rows, p) THEN Row(p.line, d)
            ELSE rows[i - 1]]

\* Slip: the last distance counts, not the closest.
ReportLast(c, d) ==
    /\ closest' = [closest EXCEPT ![c] = d]
    /\ count' = [count EXCEPT ![c] = (@ + 1) % CountMod]

\* update_bitmap, which is called if the distance is less than the one so far.
Report(c, d) ==
    IF closest[c] > d /\ d > 0
    THEN /\ closest' = [closest EXCEPT ![c] = d]
         /\ count' = [count EXCEPT ![c] = (@ + 1) % CountMod]
    ELSE UNCHANGED <<closest, count>>

\* vld_external_trace at point p, which is a jump, a call or anything else.
Trace(c, p, kind) ==
    LET known == Listed(table[c], p)
        waits == IF kind = "call" /\ ~known THEN p ELSE pending[c]
        learn == waits \notin {NoCall, p} /\ known /\ ~Listed(table[c], waits)
    IN  /\ pc[c] = "trace"
        /\ IF known /\ kind # "other"
           THEN /\ Report(c, Distance(table[c], p))
                /\ hit' = [hit EXCEPT ![c] = @ \cup {Distance(table[c], p)}]
           ELSE UNCHANGED <<closest, count, hit>>
        /\ pending' = [pending EXCEPT ![c] = IF waits = p THEN p ELSE NoCall]
        /\ IF learn
           THEN /\ 2 * Distance(table[c], p) <= MaxDistance
                /\ Len(table[c]) < MaxRows
                /\ table' = [table EXCEPT ![c] = Insert(@, waits, 2 * Distance(@, p))]
                /\ Goto(c, "lock")
           ELSE UNCHANGED <<table, pc>>
        /\ UNCHANGED <<csv, lock, kills>>

\* The process ends; the map is left to the fuzzer.
Exit(c) ==
    /\ Goto(c, "off")
    /\ table' = [table EXCEPT ![c] = << >>]
    /\ pending' = [pending EXCEPT ![c] = NoCall]
    /\ UNCHANGED <<closest, count, hit>>

\* witcher_cgi_trace_finish.
Finish(c) ==
    /\ pc[c] = "trace"
    /\ Exit(c)
    /\ UNCHANGED <<csv, lock, kills>>

-----------------------------------------------------------------------------
(* update_csv.                                                             *)

\* Slip: LOCK_SH.
LockShared(c) ==
    /\ pc[c] = "lock"
    /\ lock' = c
    /\ Goto(c, "open")
    /\ UNCHANGED <<csv, tracing, kills>>

\* flock(LOCK_EX) waits.
Lock(c) ==
    /\ pc[c] = "lock"
    /\ lock = None
    /\ lock' = c
    /\ Goto(c, "open")
    /\ UNCHANGED <<csv, tracing, kills>>

\* fopen(filename, "w")
Truncate(c) ==
    /\ pc[c] = "open"
    /\ csv' = << >>
    /\ Goto(c, "write")
    /\ UNCHANGED <<lock, tracing, kills>>

\* stdio hands over a full buffer, or what is left at the end.
WriteBlock(c) ==
    /\ pc[c] = "write"
    /\ Len(csv) < Len(table[c])
    /\ csv' = SubSeq(table[c], 1, Min({Len(csv) + BufferRows, Len(table[c])}))
    /\ UNCHANGED <<lock, pc, tracing, kills>>

CloseAndUnlock(c) ==
    /\ pc[c] = "write"
    /\ Len(csv) = Len(table[c])
    /\ lock' = None
    /\ Goto(c, "trace")
    /\ UNCHANGED <<csv, tracing, kills>>

\* The fuzzer's timeout: SIGKILL. The kernel drops the lock of the dead.
Kill(c) ==
    /\ pc[c] # "off"
    /\ kills < MaxKills
    /\ kills' = kills + 1
    /\ lock' = IF lock = c THEN None ELSE lock
    /\ Exit(c)
    /\ UNCHANGED csv

Next ==
    \E c \in Children :
        \/ Start(c) \/ ReadBlock(c) \/ EndRead(c) \/ Finish(c) \/ Kill(c)
        \/ \E p \in Points, kind \in {"jump", "call", "other"} : Trace(c, p, kind)
        \/ Lock(c) \/ Truncate(c) \/ WriteBlock(c) \/ CloseAndUnlock(c)

Spec == Init /\ [][Next]_vars

-----------------------------------------------------------------------------
(* Properties.                                                             *)

LookupsSame(c) ==
    \A p \in Points : Listed(table[c], p) =>
        Listed(table'[c], p) /\ Distance(table'[c], p) = Distance(table[c], p)
Learns(c) == pc[c] = "trace" /\ pc'[c] = "lock"
LearningKeepsLookups == \A c \in Children : Learns(c) => LookupsSame(c)

\* insert_into_info_list keeps what get_info answers: a point that is listed in a
\* request's table stays listed, with its distance, and is never hidden by a learned
\* row, even in a table that was read while others wrote it and is in no order.
LookupsKept == [][LearningKeepsLookups]_vars

\* "Now safely open the data file for writing": what is in the file while a child
\* writes it is the beginning of that child's table and of no other's.
WritersDoNotMix == \A c \in Children : pc[c] = "write" => IsPrefix(csv, table[c])

\* has_new_bits: what the fuzzer takes for the distance of the input.
Feedback(c) == IF count[c] > 0 THEN closest[c] ELSE NoDistance

\* The fuzzer learns the closest of the listed points a request has passed, as long
\* as there were fewer updates than the counter has values.
FeedbackIsClosest ==
    \A c \in Children :
        Cardinality(hit[c]) < CountMod =>
            Feedback(c) = IF hit[c] = {} THEN NoDistance ELSE Min(hit[c])

\* What makes FeedbackIsClosest inductive: the map holds the least of them; the
\* counter is above zero, and has not gone round, while they are few.
ClosestIsLeast ==
    \A c \in Children : closest[c] = IF hit[c] = {} THEN Unreached ELSE Min(hit[c])
CountFollowsHits ==
    \A c \in Children :
        Cardinality(hit[c]) < CountMod =>
            count[c] <= Cardinality(hit[c]) /\ (count[c] = 0 <=> hit[c] = {})

\* Whoever holds the lock is a child that is writing: no death of a child keeps the
\* others from updating the table.
LockHolderWrites == lock # None => lock \in Children /\ pc[lock] \in {"open", "write"}

\* What makes LockHolderWrites and WritersDoNotMix inductive: only the holder of the
\* lock is between fopen and fclose.
OnlyHolderWrites == \A c \in Children : pc[c] \in {"open", "write"} => lock = c

IInv ==
    /\ TypeOK
    /\ LockHolderWrites /\ OnlyHolderWrites /\ WritersDoNotMix
    /\ ClosestIsLeast /\ CountFollowsHits
=============================================================================
