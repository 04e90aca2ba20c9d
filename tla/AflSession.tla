----------------------------- MODULE AflSession -----------------------------
(***************************************************************************)
(* The sessions of fuzzers that share a directory (afl-direct/afl-fuzz.c). *)
(* Each afl-fuzz owns a part of it, with queue/, fuzzer_stats and .synced/;*)
(* it is started from seeds or, with "-i -", in place of the session before*)
(* it, whose queue/ is moved to _resume/ and linked back file by file. A   *)
(* process may be killed between any two steps. While it fuzzes it reads   *)
(* the queues of the others and remembers how far it came, by number.      *)
(*                                                                         *)
(* A file of a queue is its number and what is in it. A link needs no time *)
(* (input and output are on one file system). Crashes and hangs, the marks *)
(* in queue/.state and the automatic dictionary are left out.              *)
(***************************************************************************)
EXTENDS Integers, Sequences, FiniteSets, SequencesExt, FiniteSetsExt, Functions

CONSTANTS
    Fuzzers,
    Seeds,     \* the files of the input directory, in their order
    Finds,     \* Finds[f]: the inputs that f may come upon by itself
    MaxKills   \* bound on the kills of fuzzers

Inputs == ToSet(Seeds) \cup UNION {Finds[f] : f \in Fuzzers}

ASSUME SessionAssumption ==
    /\ Seeds \in Seq(Inputs) /\ Seeds # <<>> /\ IsInjective(Seeds)
    /\ MaxKills \in Nat /\ DOMAIN Finds = Fuzzers
    /\ "empty" \notin Inputs

Empty  == "empty"                       \* created, and nothing written yet
NoDir  == [there |-> FALSE]
Dir(files, state) == [there |-> TRUE, files |-> files, state |-> state]
NoFiles == [i \in {} |-> Empty]

NoSync == [at |-> "none"]

VARIABLES
    \* on the disk
    made,      \* the fuzzers whose output directory exists
    queue,     \* queue/: its files, and whether it has a .state/
    resume,    \* _resume/
    synced,    \* .synced/<other>
    stats,     \* fuzzer_stats: the time between start_time and last_update
    \* in the processes
    phase, in_place_resume,
    entries,   \* the queue in memory
    hand,      \* what is being written to a new file
    sync,      \* sync_fuzzers: whose queue, what its handle refers to, counters
    kills,
    \* history
    work,      \* what the queue has been given since it was last begun anew
    harmed,    \* killed while a directory is deleted, or begun anew beside _resume/
    ran,       \* ran[f]: the inputs that f has executed
    missed     \* missed[f][g]: the numbers of g's files that f left behind

disk    == <<made, queue, resume, synced, stats>>
memory  == <<in_place_resume, entries, hand, sync>>
history == <<work, harmed, ran, missed>>
sevars  == <<disk, phase, memory, kills, history>>

Starting == {"rename", "unsync", "clean", "mkdir", "read", "pivot", "nuke", "dry run"}

SETypeOK ==
    /\ made \subseteq Fuzzers /\ harmed \subseteq Fuzzers /\ kills \in 0 .. MaxKills
    /\ \A f \in Fuzzers :
         /\ \A d \in {queue[f], resume[f]} : d.there =>
                /\ d.state \in BOOLEAN
                /\ DOMAIN d.files \subseteq Nat /\ IsFiniteSet(DOMAIN d.files)
                /\ d.files \in [DOMAIN d.files -> Inputs \cup {Empty}]
         /\ synced[f] \in [Fuzzers -> Nat]
         /\ stats[f] \in {"none", "torn", "short", "long"}
         /\ phase[f] \in Starting \cup {"off", "stats", "fuzz", "write", "sync"}
         /\ in_place_resume[f] \in BOOLEAN
         /\ entries[f] \in Seq(Inputs) /\ hand[f] \in Inputs \cup {Empty}
         /\ sync[f].at \in {"none", "queue", "resume", "gone"}
         /\ work[f] \subseteq Inputs /\ ran[f] \subseteq Inputs
         /\ missed[f] \in [Fuzzers -> SUBSET Nat]

SEInit ==
    /\ made = {} /\ harmed = {}
    /\ queue = [f \in Fuzzers |-> NoDir] /\ resume = [f \in Fuzzers |-> NoDir]
    /\ synced = [f \in Fuzzers |-> [g \in Fuzzers |-> 0]]
    /\ stats = [f \in Fuzzers |-> "none"]
    /\ phase = [f \in Fuzzers |-> "off"]
    /\ in_place_resume = [f \in Fuzzers |-> FALSE]
    /\ entries = [f \in Fuzzers |-> <<>>] /\ hand = [f \in Fuzzers |-> Empty]
    /\ sync = [f \in Fuzzers |-> NoSync]
    /\ kills = 0
    /\ work = [f \in Fuzzers |-> {}] /\ ran = [f \in Fuzzers |-> {}]
    /\ missed = [f \in Fuzzers |-> [g \in Fuzzers |-> {}]]

At(f, place)   == phase[f] = place
Goes(f, place) == phase' = [phase EXCEPT ![f] = place]

-----------------------------------------------------------------------------
(* Directories.                                                            *)

Bare(d) == d.there /\ d.files = NoFiles /\ ~d.state

Without(d, i) == [d EXCEPT !.files = Restrict(@, DOMAIN @ \ {i})]
With(d, i, x) ==
    [d EXCEPT !.files = [j \in DOMAIN @ \cup {i} |-> IF j = i THEN x ELSE @[j]]]

\* The handles of readers follow a directory of f that is moved or removed.
Moved(f, to) ==
    sync' = [g \in Fuzzers |-> IF sync[g] # NoSync /\ sync[g].party = f /\ sync[g].at \in DOMAIN to
                               THEN [sync[g] EXCEPT !.at = to[@]] ELSE sync[g]]

\* delete_files on a directory of f: its .state/ comes first, then the files in any
\* order, then the directory itself. The step after it is Done.
DeleteStep(f, dir, name, Done) ==
    \/ /\ dir[f].there /\ dir[f].state
       /\ dir' = [dir EXCEPT ![f].state = FALSE]
       /\ UNCHANGED <<phase, sync>>
    \/ /\ dir[f].there /\ ~dir[f].state
       /\ \E i \in DOMAIN dir[f].files : dir' = [dir EXCEPT ![f] = Without(@, i)]
       /\ UNCHANGED <<phase, sync>>
    \/ /\ dir[f] = NoDir \/ Bare(dir[f])
       /\ dir' = [dir EXCEPT ![f] = NoDir]
       /\ Moved(f, [d \in {name} |-> "gone"])
       /\ Goes(f, Done)

-----------------------------------------------------------------------------
(* Start-up: setup_dirs_fds, maybe_delete_out_dir.                         *)

\* A start that is refused (nothing to resume, fuzzer_stats malformed or at risk)
\* leaves everything as it is. The lock on the directory keeps a second process out.
Start(f) ==
    /\ At(f, "off")
    /\ \E inPlace \in BOOLEAN :
         /\ inPlace => f \in made
         /\ stats[f] # "torn"
         /\ stats[f] = "long" => inPlace
         /\ in_place_resume' = [in_place_resume EXCEPT ![f] = inPlace]
         /\ Goes(f, IF inPlace THEN "rename" ELSE IF f \in made THEN "unsync" ELSE "mkdir")
         /\ work' = IF inPlace THEN work ELSE [work EXCEPT ![f] = {}]
    /\ UNCHANGED <<disk, entries, hand, sync, kills, harmed, ran, missed>>

\* Slip: what is in the way is removed.
RenameOver(f) ==
    /\ At(f, "rename")
    /\ IF queue[f].there
       THEN /\ resume' = [resume EXCEPT ![f] = queue[f]]
            /\ queue' = [queue EXCEPT ![f] = NoDir]
            /\ Moved(f, [queue |-> "resume", resume |-> "gone"])
       ELSE UNCHANGED <<queue, resume, sync>>
    /\ Goes(f, "clean")
    /\ UNCHANGED <<made, synced, stats, in_place_resume, entries, hand, kills, history>>

\* rename: it fails when there is no queue/, or when _resume/ has something in it.
Rename(f) ==
    /\ At(f, "rename")
    /\ IF queue[f].there /\ (resume[f] = NoDir \/ Bare(resume[f]))
       THEN /\ resume' = [resume EXCEPT ![f] = queue[f]]
            /\ queue' = [queue EXCEPT ![f] = NoDir]
            /\ Moved(f, [queue |-> "resume", resume |-> "gone"])
       ELSE UNCHANGED <<queue, resume, sync>>
    /\ Goes(f, "clean")
    /\ UNCHANGED <<made, synced, stats, in_place_resume, entries, hand, kills, history>>

Unsync(f) ==
    /\ At(f, "unsync")
    /\ synced' = [synced EXCEPT ![f] = [g \in Fuzzers |-> 0]]
    /\ missed' = [missed EXCEPT ![f] = [g \in Fuzzers |-> {}]]
    /\ Goes(f, "clean")
    /\ UNCHANGED <<made, queue, resume, stats, memory, kills, work, harmed, ran>>

Clean(f) ==
    /\ At(f, "clean")
    /\ DeleteStep(f, queue, "queue", "mkdir")
    /\ UNCHANGED <<made, resume, synced, stats, in_place_resume, entries, hand, kills, history>>

\* What the files of f were is of no account any more, to others neither.
Anew(f) ==
    /\ harmed' = IF resume[f].there /\ ~Bare(resume[f]) THEN harmed \cup {f} ELSE harmed \ {f}
    /\ missed' = [g \in Fuzzers |-> [missed[g] EXCEPT ![f] = @ \cup 0 .. synced[g][f] - 1]]
    /\ sync' = [g \in Fuzzers |-> IF sync[g] # NoSync /\ sync[g].party = f
                                  THEN [sync[g] EXCEPT !.got = {}] ELSE sync[g]]

\* The old statistics are removed and the directories are made.
Mkdir(f) ==
    /\ At(f, "mkdir")
    /\ made' = made \cup {f}
    /\ stats' = IF in_place_resume[f] THEN stats ELSE [stats EXCEPT ![f] = "none"]
    /\ queue' = [queue EXCEPT ![f] = Dir(NoFiles, TRUE)]
    /\ Goes(f, "read")
    /\ IF in_place_resume[f] THEN UNCHANGED <<sync, harmed, missed>> ELSE Anew(f)
    /\ UNCHANGED <<resume, synced, in_place_resume, entries, hand, kills, work, ran>>

\* The files of a directory by their numbers, those without anything in them left out.
InOrder(files) ==
    LET full   == {i \in DOMAIN files : files[i] # Empty}
        nth(k) == CHOOSE i \in full : Cardinality({j \in full : j < i}) = k - 1
    IN [k \in 1 .. Cardinality(full) |-> files[nth(k)]]

\* Without a usable file the fuzzer gives up.
ReadTestcases(f) ==
    /\ At(f, "read")
    /\ LET found == IF ~in_place_resume[f] THEN Seeds
                    ELSE IF resume[f].there THEN InOrder(resume[f].files) ELSE <<>>
       IN /\ entries' = [entries EXCEPT ![f] = found]
          /\ Goes(f, IF found = <<>> THEN "off" ELSE "pivot")
    /\ UNCHANGED <<disk, in_place_resume, hand, sync, kills, history>>

Linked(f) == Cardinality(DOMAIN queue[f].files)

\* pivot_inputs, the next entry. Under its old name or a new one, it gets the number of
\* its place.
Pivot(f) ==
    /\ At(f, "pivot") /\ Linked(f) < Len(entries[f])
    /\ queue' = [queue EXCEPT ![f] = With(@, Linked(f), entries[f][Linked(f) + 1])]
    /\ work' = [work EXCEPT ![f] = @ \cup {entries[f][Linked(f) + 1]}]
    /\ UNCHANGED <<made, resume, synced, stats, phase, memory, kills, harmed, ran, missed>>

EndPivot(f) ==
    /\ At(f, "pivot") /\ Linked(f) = Len(entries[f])
    /\ Goes(f, IF in_place_resume[f] THEN "nuke" ELSE "dry run")
    /\ UNCHANGED <<disk, memory, kills, history>>

NukeResumeDir(f) ==
    /\ At(f, "nuke")
    /\ DeleteStep(f, resume, "resume", "dry run")
    /\ UNCHANGED <<made, queue, synced, stats, in_place_resume, entries, hand, kills, history>>

\* perform_dry_run executes every entry; the statistics are opened and truncated.
DryRun(f) ==
    /\ At(f, "dry run")
    /\ ran' = [ran EXCEPT ![f] = @ \cup ToSet(entries[f])]
    /\ stats' = [stats EXCEPT ![f] = "torn"]
    /\ Goes(f, "stats")
    /\ UNCHANGED <<made, queue, resume, synced, memory, kills, work, harmed, missed>>

-----------------------------------------------------------------------------
(* The main loop.                                                          *)

\* write_stats_file, before and after its first write. The time is this session's.
WriteStats(f) ==
    \/ /\ At(f, "fuzz") /\ stats' = [stats EXCEPT ![f] = "torn"] /\ Goes(f, "stats")
       /\ UNCHANGED <<made, queue, resume, synced, memory, kills, history>>
    \/ /\ At(f, "stats") /\ Goes(f, "fuzz")
       /\ \E age \in {"short", "long"} : stats' = [stats EXCEPT ![f] = age]
       /\ UNCHANGED <<made, queue, resume, synced, memory, kills, history>>

\* save_if_interesting: the entry is queued, then its file is created.
Queue(f, x) ==
    /\ x \notin ToSet(entries[f])
    /\ entries' = [entries EXCEPT ![f] = Append(@, x)]
    /\ queue' = [queue EXCEPT ![f] = With(@, Len(entries[f]), Empty)]
    /\ hand' = [hand EXCEPT ![f] = x]
    /\ Goes(f, "write")

Find(f) ==
    /\ At(f, "fuzz")
    /\ \E x \in Finds[f] :
         Queue(f, x) /\ ran' = [ran EXCEPT ![f] = @ \cup {x}]
    /\ UNCHANGED <<made, resume, synced, stats, in_place_resume, sync, kills, work, harmed, missed>>

\* ck_write.
Write(f) ==
    /\ At(f, "write")
    /\ queue' = [queue EXCEPT ![f] = With(@, Len(entries[f]) - 1, hand[f])]
    /\ hand' = [hand EXCEPT ![f] = Empty]
    /\ work' = [work EXCEPT ![f] = @ \cup {hand[f]}]
    /\ Goes(f, IF sync[f] = NoSync THEN "fuzz" ELSE "sync")
    /\ UNCHANGED <<made, resume, synced, stats, in_place_resume, entries, sync, kills,
                   harmed, ran, missed>>

-----------------------------------------------------------------------------
(* sync_fuzzers, one other fuzzer.                                         *)

\* opendir, and the number under .synced/. What the directory lists by now is listed by
\* readdir some time, unless it is removed first; what is created later may be.
BeginSync(f) ==
    /\ At(f, "fuzz")
    /\ \E g \in Fuzzers \ {f} :
         /\ queue[g].there
         /\ sync' = [sync EXCEPT ![f] =
                [at |-> "queue", party |-> g, min_accept |-> synced[f][g],
                 due |-> DOMAIN queue[g].files, seen |-> {}, got |-> {}]]
    /\ Goes(f, "sync")
    /\ UNCHANGED <<disk, in_place_resume, entries, hand, kills, history>>

\* What the handle of f lists at the moment, and has not listed before.
Listed(f) ==
    LET files == CASE sync[f].at = "queue"  -> DOMAIN queue[sync[f].party].files
                   [] sync[f].at = "resume" -> DOMAIN resume[sync[f].party].files
                   [] OTHER -> {}
    IN {i \in files : i >= sync[f].min_accept /\ i \notin sync[f].seen}

\* It is opened by its path, in queue/.
Opens(f, i) ==
    LET d == queue[sync[f].party] IN d.there /\ i \in DOMAIN d.files /\ d.files[i] # Empty

\* The file is executed, and kept if it is interesting.
Import(f) ==
    /\ At(f, "sync")
    /\ \E i \in Listed(f) :
         /\ Opens(f, i)
         /\ sync' = [sync EXCEPT ![f].seen = @ \cup {i}, ![f].got = @ \cup {i}]
         /\ LET x == queue[sync[f].party].files[i]
            IN /\ ran' = [ran EXCEPT ![f] = @ \cup {x}]
               /\ Queue(f, x) \/ UNCHANGED <<phase, entries, hand, queue>>
    /\ UNCHANGED <<made, resume, synced, stats, in_place_resume, kills, work, harmed, missed>>

\* "Allow this to fail in case the other fuzzer is resuming or so"; files that are empty
\* are ignored.
PassOver(f) ==
    /\ At(f, "sync")
    /\ \E i \in Listed(f) :
         ~Opens(f, i) /\ sync' = [sync EXCEPT ![f].seen = @ \cup {i}]
    /\ UNCHANGED <<disk, phase, in_place_resume, entries, hand, kills, history>>

\* Slip: the other's last file, as it is by now.
NextMinAcceptNow(f) ==
    Max({sync[f].min_accept} \cup {i + 1 : i \in sync[f].seen \cup Listed(f)})

\* next_min_accept: every number below it counts as seen.
NextMinAccept(f) == Max({sync[f].min_accept} \cup {i + 1 : i \in sync[f].seen})

\* The numbers up to the last one listed that this pass has not read.
LeftBehind(f) ==
    (UNION {sync[f].min_accept .. i : i \in sync[f].seen}) \ sync[f].got

EndSync(f) ==
    /\ At(f, "sync") /\ sync[f].due \cap Listed(f) = {}
    /\ LET g == sync[f].party
       IN /\ synced' = [synced EXCEPT ![f][g] = NextMinAccept(f)]
          /\ missed' = [missed EXCEPT ![f][g] = @ \cup LeftBehind(f)]
    /\ sync' = [sync EXCEPT ![f] = NoSync]
    /\ Goes(f, "fuzz")
    /\ UNCHANGED <<made, queue, resume, stats, in_place_resume, entries, hand, kills, work,
                   harmed, ran>>

-----------------------------------------------------------------------------
\* What is left of a directory that is deleted will be used all the same: _resume/ when
\* it has lost something, or queue/ when a new start was to remove it.
Half(f) ==
    \/ /\ At(f, "nuke") /\ resume[f].there /\ resume[f].files # NoFiles
       /\ ~(work[f] \subseteq Range(resume[f].files))
    \/ /\ At(f, "clean") /\ queue[f].there /\ queue[f].files # NoFiles
       /\ ~in_place_resume[f]

\* A signal, Ctrl-C, or a FATAL of the dry run. What was on the disk stays there.
Kill(f) ==
    /\ ~At(f, "off") /\ kills < MaxKills
    /\ kills' = kills + 1
    /\ harmed' = IF Half(f) THEN harmed \cup {f} ELSE harmed
    /\ Goes(f, "off")
    /\ entries' = [entries EXCEPT ![f] = <<>>] /\ hand' = [hand EXCEPT ![f] = Empty]
    /\ sync' = [sync EXCEPT ![f] = NoSync]
    /\ UNCHANGED <<disk, in_place_resume, work, ran, missed>>

SENext == \E f \in Fuzzers :
    \/ Start(f) \/ Rename(f) \/ Unsync(f) \/ Clean(f) \/ Mkdir(f) \/ ReadTestcases(f)
    \/ Pivot(f) \/ EndPivot(f) \/ NukeResumeDir(f) \/ DryRun(f)
    \/ WriteStats(f) \/ Find(f) \/ Write(f)
    \/ BeginSync(f) \/ Import(f) \/ PassOver(f) \/ EndSync(f)
    \/ Kill(f)

SESpec == SEInit /\ [][SENext]_sevars

-----------------------------------------------------------------------------
(* Properties.                                                             *)

InputsOf(d) == IF d.there THEN Range(d.files) ELSE {}

\* "To avoid data loss": kills at any moments, and starts in place after them, lose no
\* input that was written to the queue. Two stories are excepted, in which the code
\* loses them: a kill half way through the deletion of _resume/, which the next start
\* prefers to the whole queue/, and seeds given to a fuzzer that has a _resume/ left.
InputsSurvive ==
    \A f \in Fuzzers \ harmed : work[f] \subseteq InputsOf(queue[f]) \cup InputsOf(resume[f])

\* .synced/: a file with a number below the one remembered was executed, over all kills
\* and resumes of either side, unless a pass over the queue left it behind (it met the file
\* while it was written or while its owner resumed, or was shown a later one only), or
\* the owner began anew.
SyncedWasRun ==
    \A f, g \in Fuzzers : g \notin harmed /\ queue[g].there =>
        \A i \in DOMAIN queue[g].files :
            i < synced[f][g] /\ i \notin missed[f][g] /\ queue[g].files[i] # Empty
                => queue[g].files[i] \in ran[f]
=============================================================================
