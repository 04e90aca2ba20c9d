# SlicePatch in TLA+

SlicePatch repairs vulnerabilities of PHP web applications: an LLM is asked for a
patch, the patch is written into the application, a proof of concept (POC) is run
against it, and a directed fuzzer (Witcher on a modified AFL and a modified PHP
interpreter) compares the patched application with the original one. This directory
holds TLA+ models of the parts whose correctness depends on the order of things: files
that are edited, restored and left behind by killed processes; a POC script, a web
server and a timeout; monitor threads that share flags; nested loops that end in many
ways; a fuzzer, its fork server and its children with signals in between.

## The system

| Part | State it keeps | Operations | Talks to |
|---|---|---|---|
| Patch store (`agent_factory.py`, `utils.py`) | the application's files, their `.bak` copies, `/tmp/patch_bak.log` | `apply_patch`, `restore_app_from_baks` | merge scripts, patching loop |
| Patching loop (`start_patching_loop.py`) | run, round and attempt counters, feedback, the archive `/test/succeed_patches` | `main`, `execute_single_run`, `patching_loop_with_retry`, `apply_patch_with_retry_loop_internal`, `generate_and_apply_patch_with_factory` | every other part |
| Budget (`utils.py`) | tokens and money of the run | check, charge, reset | LLM agent, loop |
| LLM agent (`agent_factory.py`) | conversation | locate a file and a line, generate a patch | the API, the loop |
| POC verification (`poc_factory.py`, `poces/utils.py`) | `/tmp/pre_patch.log`, `/tmp/sqli.log`, `/tmp/command.log` | verification before and after patching | POC scripts, web server |
| Log hook (`db_fault_escalator.c`) | `/tmp/sqli.log` | writes it when the database complains | every request, of the POC or the fuzzer |
| Fuzzing monitor (`df_factory.py`) | `monitoring_active`, four `*_found` flags, threads, the Witcher process | start, poll, time out, judge, clean up | Witcher, Apache's log |
| Merge scripts (`patch.php`, `patch_lines.php`) | none | merge a text into a file | patch store |
| Tracer (`zend_witcher_trace.c`) | `/tmp/instr-info.csv` and its lock, the shared bitmap with a distance | read, learn an edge, write back, report the closest distance | AFL, other tracers |
| Fork server (`zend_witcher_trace.c`, `afl-fuzz.c`) | two pipes, the child, the alarm's timer, `child_pid` | handshake, fork, report; request, arm, judge; `handle_timeout`, `handle_stop_sig` | the tracer's children |
| AFL queue (`afl-fuzz.c`) | entries, `top_rated`, `virgin_bits`, counters, the range of distances | dry run, calibrate, rate, cull, skip, save, abandon | AFL turn |
| AFL turn (`fuzz_one`) | the two buffers, the effector map, the loops of the stages, the score | recalibrate, deterministic stages, HTTP dictionary, havoc, splice, keep | fork server, queue |
| Fuzzer sessions (`afl-fuzz.c`) | `queue/`, `_resume/`, `.synced/`, `fuzzer_stats` of every fuzzer | start anew or in place, pivot, save, `sync_fuzzers` | other fuzzers, Witcher campaign |
| Request crawler (`request_crawler`) | the pool of requests with their attempts, `request_data.json`, the explorer's counter and timers | load, pick, save, explore, reset, update | the browser, a scanner, AFL (which reads the file) |
| Distance calculator (`distance_calculator.py`) | probability, distance and mark of every node | walk, correction rounds, choice of branches | graphs, the tracer's table |
| Graphs, data flow, slicer, assembler (`graphs.py`, `data_flow_analyzer.py`, `slicer.py`, `code_assembler.py`) | graphs | one-shot computations | files |
| Response monitor (`witcher.py`) | pairs of files, `response_queues`, `processed_files`, `response_monitor_active` | save, scan, queue, compare and remove, stop | AFL's `save_response_to_file`, both applications, fuzzing monitor |
| Witcher campaign (`witcher.py`, `phuzzer`) | campaign directories | configure and start fuzzers | AFL, response monitor |

What is hard about it:

- *Crashes.* The only copy of the original code may be a `.bak` file that a log line
  points to. The process can be killed, or raise, between any two file operations.
- *Who wrote this file?* A verdict is read from log files that any request of any
  phase may write, as late as it likes.
- *Timeouts.* POC scripts, requests, Witcher and the monitors all have one; what counts
  as an answer when it fires decides whether a patch is accepted.
- *Shared flags.* Five threads of the monitor share attributes without a lock.
- *Many ways out.* A run ends by success, exhaustion, budget, exception; what it leaves
  in the application is met by the next one.
- *A shared table.* Fuzzer processes rewrite `/tmp/instr-info.csv` while others read it.
- *Signals.* The alarm of a timeout and Ctrl-C come between any two steps of two processes
  that talk over pipes about a third; what is reported must be what became of that third.
- *Counters kept in many places.* Five functions keep the counters that decide what AFL
  skips; a calibration may fail half way, and ratings share memory by reference counts.
- *In-place mutation.* Fifteen stages change one buffer and must each take it back.
- *Queues that fill up, workers that hang.* Responses are handed from a polling thread to
  workers through bounded queues, by files that appear in two steps and vanish at any time.
- *Directories that others read.* A fuzzer moves, deletes and links anew a queue that other
  fuzzers are reading, and may be killed on the way; they remember one number of it.
- *Handlers between awaits.* The crawler has one thread, but at every `await` handlers of
  browser events add to the same pool and counter, and a timer may close the browser.
- *Cycles.* Distances are probabilities over a cyclic graph, computed by a walk that cuts
  cycles and is repaired afterwards.

What makes each part correct: the store never loses the original code and never tests
two patches at once; the loop announces, archives and leaves behind only code that was
judged; the budget is overrun by one call at most; a POC verdict rests on the log of its
own request; the reason a fuzzing verdict gives is true; the table of
distances is written by one process at a time and answers the same after something was
learned; an execution reports what became of its own child; counters, ratings and the
favored cover stay true to the queue and no favored entry starves; each deterministic
execution differs by one mutation; a distance means reachability; no pair of request and response is
compared twice or forgotten; no input that was written is lost to a kill, and what is
remembered as imported was run; no request is explored too often. And what is begun ends:
verifications, stops, turns and calculations do; a run of the loop and a crawl do but for
one way each not to, which the properties name and the limits below describe.

## Modules

    RevertibleApp      what the pipeline promises about the application it edits
      ^        ^
      |        |       (refinement: App == INSTANCE RevertibleApp WITH ...)
    PatchStore PatchLoop ---- Budget
      |            |
      |        PatchLoopProofs
    PatchStoreProofs

    Verdicts <--- PocVerdict <--- VerificationProofs
    DiffMonitor <--- VerificationProofs
    InstrInfo <--- InstrumentationProofs
    Distances <--- InstrumentationProofs            (the table's distances)
    ForkServer <--- FuzzOne <--- FuzzerProofs       (fuzz_one runs on the fork server)
    AflSession <--- FuzzerProofs
    AflQueue <--- AflQueueProofs
    ResponseMonitor <--- ResponseMonitorProofs
    Crawler <--- CrawlerProofs
    MC...              instances for TLC

**RevertibleApp** is the abstract specification. A file is original or modified; the
application is stopped, reverting, open or sealed. An attempt opens only on an
application that is original as a whole, and a sealed application does not change.

**PatchStore** is `apply_patch` and `restore_app_from_baks` step by step. `content`,
`bak` and `log` are the disk and survive a kill; `pc`, `cur`, `todoLog`, `todoKeys` and
`ok` are the process. A file's text is abstracted to where it comes from: 0 the original,
n the merge of attempt n, `Partial` a file that was opened for writing and not finished,
`Missing` no file. `shutil.copy` and `file_put_contents` are two steps (truncate, fill),
and `Crash` may come between any two. `StartRun`, `Retry` and `StopRun` are the calls of
the loop that matter to the store.

**Verdicts** holds the decisions of `POCFactory` as operators: the exit code's status,
the positional similarity of two logs, the verdict after patching. **PocVerdict** runs
them: the pipeline with its timeout, the script step by step (login, cleanup of logs,
request, check), a web server that works on any number of requests whether or not anyone
waits, and the database hook that writes the log. Every log carries its author (`by`),
which the code does not have and the properties need.

**Budget** is the check and the charge. **PatchLoop** is the control flow of
`start_patching_loop.py`; `pc` names the next call. The LLM, the analyses, the POC and
the fuzzer answer in every way they can; the application is reduced to the number of the
patch in it (0 none, `Mixed` a part of one or two on top of each other), and a restore is
a step of its own (`PutBack`), so that the loop, too, implements RevertibleApp. The archive
may be left empty, in part or as it was by an error that is swallowed. Where feedback is in
the words of others (`Told`), a run may be "misled": it prints for ever (`PrintForever`).

**DiffMonitor** is `Predator.execute_witcher_with_monitoring`: the main thread, the
monitor threads (test the flag, look, set `*_found`, clear `monitoring_active`: separate
steps), Witcher, the clock, and Apache's log of which only the last line is seen and
which is truncated by a command of its own. It begins with whatever an earlier verification
left (`Traces`); what is to be quoted in the feedback may be unreadable (`JudgeRaises`); a
kill may come to nothing (`Killed`); and cleanup runs twice, by the two `finally` clauses.

**InstrInfo** is what PHP children do with `/tmp/instr-info.csv`: `read_csv` buffer by
buffer and without a lock, `get_info` and `insert_into_info_list` as one walk (`Passed`)
through the rows, the calls that are learned when a listed point follows (`pending` is
`funx_check_*`), `update_csv` under `flock`, AFL's kill at any moment, the distance and its
one-byte counter in the shared map. `hit`, the distances passed, is not in the code; it says
what the fuzzer ought to learn (`Feedback`, from `has_new_bits`). `jmpx_check_lineno` is
never set in the source, so the second kind of learning never happens and is not modelled.

**ForkServer** is one execution: `init_forkserver` and `run_target` on one side of two
pipes (`ctl`, `st`), `afl_forkserver` on the other, the child, `handle_timeout` and
`handle_stop_sig`. Each system call is a step, so a signal can come between the read of a
status, `child_pid = 0` and the disarming of the timer. A child remembers what ended it
(`cause`), which the status it leaves only hints at: a SIGKILL may be the alarm's, Ctrl-C's
or neither's.

**FuzzOne** extends it by one turn of a queue entry. `pc` says who called `run_target`;
a deterministic stage is a record of its loops (`Loop`: positions, tries, the bytes a
position stands for, whether the effector map is asked, what comes next), so that one set
of actions (`Mutate`, `SkipTry`, `NextPosition`, `NextStage`, `Restore`) runs them all.
Of `out_buf` it keeps which bytes a mutation has changed (`mutated`) and which were never
copied from the input (`foreign`). `common_fuzz_stuff`, `save_if_interesting` with its
second run of a hang, and the calibration of a new path are actions between two stages'
steps.

**AflQueue** is what happens to the queue over many turns: the dry run, `calibrate_case`
(a function of the samples drawn, `Calibrated`, with its failures half way),
`update_bitmap_score`, `cull_queue` (`Grabbed`, by a recursive function over the positions),
the throws of dice of `fuzz_one`, `abandon_entry`, finds and imports. An execution is a
sample: its trace and its distance. `scored`, the positions an entry was rated with, is not
in the code and says what winners ought to cover.

**Distances** is `DistanceCalculator.calculate` over a graph that is chosen at the start:
the first pass, the rounds that queue wrong nodes and their predecessors, and the branches
that are handed to the tracer. A probability is a whole number of units. The recursion
`cal_prob` runs call by call: `stack` holds the calls under way with the successors each has
yet to ask and its sum so far; a node is entered (`CalProb` from a loop, `Descend` from
another call), a marked successor is added up (`Add`), a call returns (`Leave`).

**ResponseMonitor** is Witcher's comparison of responses as they come: fuzzers that write
`n.req` and then `n.rsp` (`saved`, by the stages at which a scan can see them), the polling
thread (`Scan`, and one step for each file that is put, dropped or met by an exception),
the workers (take, look for the pair, compare, remove one file and then the other), and
`stop_response_monitoring` with its timeouts (`Drain`, `Signal`, `Join`, `CleanUp`), during
which polling goes on. `compared`, `given_up` and `owed` are not in the code; they say
what became of a pair and what the stop still owes.

**AflSession** is what several `afl-fuzz` processes do to a directory they share: the start
(`maybe_delete_out_dir`, `setup_dirs_fds`, `read_testcases`, `pivot_inputs`,
`nuke_resume_dir`, one file at a time), the statistics that are truncated and written, the
two steps of saving an entry, `sync_fuzzers` with a directory handle that follows a
directory when it is renamed while files are opened by their path, and a kill between any
two steps. A file is its number and what is in it. `work`, `ran`, `missed` and `harmed` are
not in the code: what a queue was given, what a fuzzer has executed, which numbers a pass of
a reader left behind (met empty, met while their owner resumed, or never listed although a
later one was: `readdir` may or may not show a file that is created after `opendir`, and the
one number that is remembered cannot tell them apart), and which fuzzers were stopped while
a directory was being deleted.

**Crawler** is `AppData` (the pool, its rounds, `request_data.json`) and one
`RequestExplorer` at a time. Code between two awaits is one action; interception
(`processRequest`), new targets (`targetChanged`), the page timer and a broken page may come
at any await. The counter `requestsAdded` is what JavaScript makes of it: a number, a text
once a promise was added to it, or NaN. `fresh` and `fruitless` are history: what an
exploration has really added, and how often a request was tried since anything was found.

Definitions marked *Slip* are not part of any specification. Each is an action as a
plausible mistake would have it; put in place of the action it is named after, it makes
one of the properties fail.

## Runs

| Run | Instance | What it shows |
|---|---|---|
| store | two real files, one made-up; 2 attempts, 2 kills | `OriginalRecoverable`, `RestoredIsShipped`, the refinement of RevertibleApp, `RestoresUnlessKilled` |
| poc | 1 verification before and 2 after patching; logs of 5 characters, one of 80 %, one of 60 % agreement | `JudgedLogIsOwn`, `TracedExploitNotAccepted`, `EveryVerificationEnds` |
| poc_timeout | 1 after patching | **fails**: `FixedNeedsAnswer` |
| loop | 2 runs of 2 rounds of 2 attempts, 1 iteration, 9 tokens | `SuccessWasJudged`, `BudgetBounded`, `ArchiveWasJudged`, `RunEnds`, the refinement of RevertibleApp |
| diff | 3 monitors (one that watches files, crashes, Apache) | `ReasonIsTrue`, `FindingFails`, `VerificationEnds` |
| instr | 2 children, 4 points, a table of at most 4 rows, a buffer of 1, 1 kill | `WritersDoNotMix`, `FeedbackIsClosest`, `LookupsKept` |
| afl_queue | 2 positions, 3 samples, 2 initial inputs, at most 3 entries, calibrations of 2 executions | `CountsAreExact`, `WinnersKeepTraces`, `FavoredCover`, `FavoredGetsFuzzed` |
| fuzz_one | inputs of 1 or 4 bytes of 4 bits, a dictionary of tokens of 1 and 2 bytes and an automatic one of 2 | `FaultIsTrue`, `NoChildBetween`, `KeptIsTrue`, `MutationsAlone`, `TurnEnds` |
| distances | every graph of 4 nodes of at most 2 successors, the target at either end | `DistanceIsReachability`, `DivergentIsTrue`, `CalcEnds` |
| responses | 2 pairs, 2 workers, queues of one place | `ComparedOnce`, `QueuedIsSettled`, `EveryPairSettled`, `StopEnds` |
| crawl | a first page, a second one and a way out; 2 rounds, 2 passes and 2 errors of a loop, 1 kill | `StartedIsOnDisk`, `EffortBounded`, `CounterIsSound`, `CrawlEnds` |
| session | 2 fuzzers, 1 seed; 2 finds and 1 kill, or 1 find and 2 kills | `InputsSurvive`, `SyncedWasRun` |

The type invariants of all modules that model code are theorems and are in no run; so are
`UnreferencedNeedsAnswer` and `DistancesBounded`.

Why these bounds.

- *Store.* A kill in the restore that follows a kill, and a second attempt on what the first
  left, are the longest stories there are; a third file or attempt repeats them, and the
  theorems below need no bound.
- *POC.* Two verifications after patching let the first one's late request disturb the
  second; the similarity is checked at exactly 80 percent and below.
- *Loop.* Two of everything lets each counter be reset and each boundary (last attempt, last
  round, second run) be met; nine tokens are exceeded in some behaviours and not in others,
  by an estimate, by a longer answer, and by price.
- *Monitors.* The XSS monitor has the same code as the differential one with another file
  name, so one of the two is enough.
- *Table.* A row per buffer lets a reader or a killed writer stop anywhere, which is more
  than a real buffer allows; three updates wrap the counter where the code needs 256; the
  section has a row on either side of the learned one, and another file has no section.
  Tables in disorder need more rows than TLC can afford with two children: there the theorem
  on `insert_into_info_list` takes over, which is about every table.
- *Queue.* Of two positions an entry may win one, both or none, and lose one to an entry
  that is found later; one trace is a second hit count of a position, one sample has no
  distance; calibrations of two executions can find variable traces, and fail at the first
  or the second execution.
- *fuzz_one.* A length of 1 makes every stage of wider values end at once and disables
  deletion and splicing; at 4 the widest value just fits, the dictionary stages have
  positions near the end, and the effector map has more than one field (`EffScale`). With
  bytes of 4 bits, and arithmetic and interesting values that each try one, loops are short
  and still have first, middle and last iterations.
- *Distances.* Four nodes are enough for a cycle with an entry, an exit and a way around it,
  and for two cycles that share a node; an eighth is halved three times until it is under
  the cutoff. `DistanceIsReachability` allows for what `math.isclose` takes for no change
  (`distance_calculator.py:127`): a change within the tolerance starts no new round, so a node
  may keep the mean of slightly older values. Without that allowance the property is not
  true of every unit and cutoff (with `One` = 100 and `Cut` = 12, a node whose successors
  amount to just above the cutoff may be left without a distance), although on this
  instance, where such values do not occur, it is.
- *Responses.* With one place to a queue and two workers, queues fill up, files meet the
  worker that is behind, the second pair comes while the first is queued, worked on or
  removed, and both queues may be full of signals. Without the search for XSS: with it only
  the first step of a worker is different, and the theorems cover both.

- *Crawler.* Two requests may be found by one exploration, which makes the counter lose an
  update, exceed the threshold (`Many` = 1), or become NaN; the tail that is not skipped is
  one long (`SkipTail`), so that the first page is skipped; two errors end a loop. Seconds
  are counted in units of which the page timer and a horde take one each. That a scanner
  reports matters only where its file is read, and happens there.
- *Sessions.* A second kill in the resume that follows a kill is what tells `_resume/` and
  `queue/` apart; two files are what a directory needs to be incomplete, and a third one is
  what a reader needs to be shown a later file and not the one before it; both fuzzers may
  be killed, resumed or begun anew while the other one reads. With all three files there is
  one kill (`FindsAndKills`).

The run that fails, poc_timeout, is a disagreement with what the program says of itself:
with a pre-patch log, a script that was killed counts as "fixed".

Deadlock is checked in the runs of the store and the table, which go on for ever. In the
others the system stops: a number of runs, verifications, seconds or entries comes to its
end, the crawl is over, or no fuzzer may be started any more (torn statistics).

Limits of the code that the models show and no property forbids:

- A process killed between `os.unlink` and `shutil.copy` of a restore (`utils.py:678-680`)
  leaves a log that makes every later restore raise, although the backup is there.
  `RestoresUnlessKilled` shows that nothing but a kill does this.
- Two keys of one answer that spell one path make `apply_patch` replace the backup of the
  original by the patched file. The store's properties hold under `KeysDistinct`.
- The merge scripts give up with exit status 0, so that "Patch successfully applied" may be
  said of an application the patch never reached, if the POC then leaves no log.
- An attempt whose feedback contains "Please check the targets and try again." makes the
  loop print a line every five seconds for ever (`start_patching_loop.py:792-795`). No code
  under `src/` writes that sentence into feedback, but feedback quotes others: an "error" in
  the LLM's answer, a `.cmp` file, Apache's log, a page that answered a crash. `RunEnds` leaves
  this out by name.
- `terminate_witcher_process` signals the process group of the shell, and what the signals
  raise is swallowed (`df_factory.py:445-462`). Nothing is claimed of what is left running
  after a verification.
- A child that reads the table while another one writes it gets a beginning of it, and
  writes that back as the whole table when it learns something; of two children that learn,
  the later drops what the earlier one added.
- A request that is scanned before its response is there is removed by a worker, and its
  pair is never compared. A full queue costs a pair, though another one has room.
- A finding that is flagged between the main loop's last test and the end of Witcher is not
  looked at: "no differential/crashes found" is returned (`df_factory.py:341-343`).
- `memcpy(out_buf, in_buf, len)` is commented out (`afl-fuzz.c:6420`): the deterministic
  stages begin on what `malloc` returned (`foreign`).
- The crawler passes over requests with the pathname of the current one "for now"; with more
  than five of one pathname, some are never tried in some rounds
  (`input_sifter2.js:536`). Its counter loses what handlers count during a scan, and once it
  is a text or NaN it exceeds nothing, so that an exploration that found much is not
  repeated (`1864`, `1972`). NaN differs from itself, and a text from what it is when
  anything, be it 0, is added to it: at every pass of the wait for the gremlins this may
  reset the page timer and the code's own limit (`1911-1929`); and gremlins may never
  report their end: only one of three hordes is within the `try` of `coolHorde`
  (`1667-1686`), and a page that is loaded anew clears the flag (`934`, `1919`). Then the
  wait goes on for ever; `CrawlEnds` says that it takes such a counter, and that there is
  no other way not to end. A kill while `request_data.json` is written leaves a text that
  no later start gets past.
- A kill while `_resume/` is deleted makes the next `-i -` take what is left of it and delete
  the whole `queue/` (`afl-fuzz.c:4587-4598`); a start from seeds leaves `_resume/` behind,
  and a later `-i -` prefers it. A kill while `fuzzer_stats` is written makes every later
  start end with "Malformed data". The grace of 25 minutes covers the last session only. An
  import leaves files behind for good that it met empty or while their owner resumed
  (`8955`), or that `readdir` did not list although it listed a later one (`8950`), and these
  are what `missed` records. The first version of the model knew only the files that were
  met; with two finds TLC showed that this is not all.
- "Polling thread stopped" is logged while the flag still holds: the thread goes on to the
  end of the drain. A worker or polling thread that outlives the stop goes on under the
  flag of the next start.

## Fairness

- Store: weak fairness of `StartRun` (an operator, or `batch_patching.sh`, runs the
  pipeline again) and of the restore (straight-line code). None of the attempts.
- POC: weak fairness of the pipeline's own steps and of the kill by `subprocess.run`'s
  timeout. None of the script, the request or the server: they may hang.
- Loop: weak fairness of the next step. One process, whose calls return: LLM calls, POC and
  fuzzer have timeouts, and for the external commands without one (`composer`, `php2ast`,
  Joern's tools) it is an assumption that they end.
- Monitors: every Python thread runs and time passes. Nothing is asked of Witcher.
- InstrInfo: none. `flock` promises no order, and its properties are of safety.
- AflQueue: weak fairness of the fuzzer's own step. That anything is found, or that Ctrl-C
  comes, is not asked.
- FuzzOne: weak fairness of the fuzzer, of the server and of the alarm. None of the child,
  which may hang, and none of signals.
- Distances: weak fairness of the next step: one sequential program.
- ResponseMonitor: weak fairness of the polling thread, of each worker outside a comparison
  and of the stop, whose waits have timeouts. A comparison has none: a response may come a
  byte at a time. `EveryPairSettled` has as hypothesis that no comparison hangs; `StopEnds`
  has not. Nothing is asked of the fuzzers that save, nor of the one who stops.
- Crawler: weak fairness of the exploration and of the page timer. Nothing is asked of pages
  or of the gremlins, which may never get done; what follows from that `CrawlEnds` says.
- AflSession: none. Its properties are of safety.

## Proofs

All theorems are checked by TLAPS for every value of the constants that satisfies the
assumptions named in the modules. Each follows from an inductive invariant, whose steps are
proved action by action.

**PatchStoreProofs**, under `StoreAssumption` and the hypothesis `KeysDistinct`:

- `StoreInvariant`: `IInv` is inductive. `OriginalRecoverable` alone is not: that a step
  keeps it depends on what the current operation may rely on. `UntouchedKeys` says that a
  key that waits names a file that is original and not logged, so that its backup will be
  one of the original; `CurrentFile` says what is known of the file in hand at each step of
  both operations; `HandledEntries` that an entry a restore is through with is original
  again; `EditedFiles` that an attempt leaves only its own text; `MadeUpFiles` that a path
  outside the application is never created or logged.
- `StoreTypeCorrect`, `StoreOriginalRecoverable`, `StoreLoggedBackupsOriginal`,
  `StoreRestoredIsShipped`, `StoreOnePatchUnderTest` follow from it.
- `StoreImplementsRevertibleApp`: Init maps to Init, each step to a step of RevertibleApp or
  a stutter, with `IInv` at hand: that `DropLog` opens on an original application is
  `HandledEntries`, that a `StopRun` or `Crash` is `Halt` needs nothing.

**PatchLoopProofs**, for any numbers of runs, rounds, attempts and iterations, any calls,
prices and budget. `LoopInv` adds to the properties where the log of backups is known to be
empty (`Restored`, `Clear`): at every place from which an attempt can open without a restore
before it, and there only; that an attempt is under way where one is edited (`Places`); and
that nothing touches the application between the POC's verdict and the fuzzer's (`Judged`).
From it `LoopTypeCorrect`, `LoopSuccessWasJudged`, `LoopBudgetBounded` (before a call the
budget holds with the estimate, and a call is charged once), `LoopArchiveWasJudged` and
`LoopImplementsRevertibleApp`, for which `Clear` is what opens an attempt on the original.
`LoopAdvances` is the part of `RunEnds` that is a matter of single steps: a step begins a
run, a round, an attempt or an iteration, of which `TypeOK` allows no more than the limits, or
leaves these counters alone and comes closer to the end of what was begun (`StepsLeft`, by a
number for each place of the loop). The steps it speaks of do not include printing for ever,
which changes nothing; that no other step follows it, and that only an answer of the LLM or the
fuzzing leads there, is the second part (`OnlyTold`). Whatever the LLM, the analyses and the two judges answer,
nothing is tried again without being counted.

**VerificationProofs**, about the two verifications of a patch.

- PocVerdict, for any logs, window and number of verifications: how far the script has come
  (`Progress`), which requests may still be at work (`Requests`: after a cleanup that no older
  request overlaps, only this one's), whose log lies in the file (`Authors`). From these
  `PocTypeCorrect`, `PocJudgedLogIsOwn`, `PocUnreferencedNeedsAnswer` and
  `PocTracedExploitNotAccepted`, for which a log is shown to be similar to itself whatever
  the window.
- DiffMonitor, for any set of monitors, any timeout. A monitor that is about to stop the
  monitoring has set its flag, so that a monitoring that has stopped has a reason other than
  Witcher (`FlagFirst`); Witcher runs or has exited by itself while it is watched
  (`Watched`). From these `MonitorTypeCorrect` and `MonitorReasonIsTrue`.

**InstrumentationProofs**, about the table and the calculation its distances come from. The
table, for any number of children, any table, buffer and bound:

- `InsertKeepsLookups`: after `insert_into_info_list` every row that `get_info` found is
  still the one it finds, in whatever order the table is. The new row is at the first place
  the walk does not pass (`LeastNatural`); rows ahead of it keep their place, the others move
  by one, and if the new row is in the section of the row in question it is of an earlier
  line, so that the walk goes on behind it.
- `InstrInvariant`: `IInv` is inductive. `LockHolderWrites` says that a lock is with a child
  that writes; `OnlyHolderWrites`, its converse, is what keeps a second writer out, and with
  it `WritersDoNotMix`, the property of the file.
- `InstrTypeCorrect`, `InstrWritersDoNotMix`, `InstrLockHolderWrites` follow, and
  `InstrLookupsKept`, the action property, with `InsertKeepsLookups`.
- `InstrFeedbackIsClosest`: what the shared map reports is the least distance among the
  points hit, and the counter their number, whatever the table was at each of them. It rests
  on rows whose distance is at least 1 (`Rows`): a distance of 0 in the map means "none yet".

The calculation, for any graph, targets, call sites, unit and cutoff. `DivergentIsTrue` is
about the end of loops inside loops, and needs to know what is out of date before:

- `CalcInv` says which nodes the loop at hand has yet to come to (`Ahead`: those the first
  loop is still to visit, those in the queue) and that everything unfinished is one of them:
  a node that is not marked as computed (`Marks`), the node of a call under way
  (`CallsInOrder`), a node whose distance is not that of its probability (`Current`). A walk
  changes the probabilities of nodes far from the one at hand, but only of such nodes, so
  when the queue is empty nothing is stale and `CalcDivergentIsTrue` follows.
- The sum of a call is no more than the successors asked could amount to, so no probability
  exceeds one (`CalcTypeCorrect`), and a distance is never rounded down to none (`CalDistIs`).
- What has any probability, and any sum above 0 of a call under way, comes from a target that
  can be reached (`ChanceMeansReachable`): `CalcDistanceMeansReachable`, at every step, is the
  first half of `DistanceIsReachability`.
- The second half, that a node without a distance beside one that has one owes it to the
  cutoff, is about what a whole round has *not* done, and needs `WalkInv`
  (`CalcRoundInvariant`). While a round has changed no distance (`Settled`), the nodes it has
  or had in its queue include every such node (`AllRecaled`: a distance that comes or goes is
  a change), and each of them, once computed, is the mean of probabilities near its
  successors' (`RecaledIsMean`; `CallSums` says it of the sums of calls under way). `Near`
  follows such a probability through the round: it is the one the successor's distance was
  made of; or the new one of a successor in the queue that was computed out of turn, by a walk;
  or, when the loop has come to that successor, one whose distance differs by no more than the
  round takes for no change. What keeps this true is that a walk computes nothing that is
  marked as computed (`NearStays`, with `Distinct`), that what is not computed has the
  distance of its old probability (`Untouched`), and that no node is queued twice (`Queued`).
  At the end the queue is empty, and `CalcDistanceIsReachability` follows.
- `SumOf`, the sum over a set of successors, is a recursive function: `SumExists` shows that
  there is one, `SumOfNone` and `SumOfMore` what it yields, each by an induction over 0 .. `N`
  in the form of `UpToN` (a set that has 0 and with a number the next).
- The queue is put in order by `Ascending`, a choice of a sequence: `OrderExists` shows that
  there is one, by the least size of a set that has none, and `AscendingIs` that it has all, each once.
- `CalcAdvances`: every step but the beginning of a round and the end takes a node from the
  first loop, queues nodes this round has not had, takes one from the queue, marks a node,
  returns from a call or has one successor less to ask, in this order of weight. So the walk
  through the cycles, the first loop and each round end for every graph; the marks set before
  the successors are asked (`EnterAdvances`) and `re_caled` are what does it.

**AflQueueProofs**, for maps of any size, any traces, factors and numbers of entries.
`QueueInv` says that `tc_ref` is the number of positions an entry holds and that its trace
covers them (`Keeps`), that an entry whose calibration failed holds none (`Unrated`), that
the counters that are decreased do not count too little (`Pending`), and that the range of
distances is known at both ends or at neither (`Span`). From it `QueueTypeCorrect` (no
counter of the queue is decreased below zero), `QueueWinnersKeepTraces`,
`QueueDistancesBounded`. `Books` is what is added to it for the five counters and the cover:
each counter is the count of what it counts (`Counted`), a position that a rated entry goes
through is held by one that is no more expensive (`Cheap`), and unless scores have changed
since, a favored entry goes through it (`CoveredBy`). The hard step is `cull_queue`: the walk
over the positions is a recursive function, `Left`, which is first shown to be what its
equation says (a least length at which it were not is refuted, with the well-foundedness of
the naturals), then, by the same argument, that what is left after each position is what no
grabbed winner covers; and two grabbed positions have two winners, so that adding one per
position counts the favored entries (`CullBooks`). From it `QueueCountsAreExact` and
`QueueFavoredCover`.

**FuzzerProofs**, about one fuzzer's turn and the sessions of several. `FuzzOneUsesForkServer`: every behaviour of FuzzOne is one of ForkServer,
a turn being a caller of `run_target` and nothing else to the protocol. `ForkServerInvariant`
says for every place in `run_target` where the server may be and what lies in the pipes
(`InInit` to `InClear`), that a server that is dead was stopped (`Alive`), and that who
killed the child has noted it (`Causes`). From it `RunTargetFaultIsTrue` and
`RunTargetNoChildBetween`, and with `KeptInv`, which follows what an execution is used for,
`FuzzOneKeptIsTrue`. `TurnInvariant` says for every place in `fuzz_one` what was changed in the
input buffer: nothing between two mutations, the bytes of the loop's position from the
mutation until they are restored, whoever calls `run_target` meanwhile. From it
`FuzzOneTypeCorrect` and `FuzzOneMutationsAlone`, for inputs, dictionaries and limits of any
size.

The sessions, for any number of fuzzers, any seeds, finds and number of kills.
`InputsSurvive` and `SyncedWasRun` speak of files by what is in them and by their number, and
a resume moves all of them: neither is inductive. `SessionIInv` follows `Kept(f)`, the files
that a start in place would go on with if f were killed now: those of `_resume/` while
something is in it, those of `queue/` otherwise, or once `_resume/` is being removed. They
hold all that the queue was given, are numbered without gaps, hold nothing twice, and only
the last may be empty (`Whole`, `Tidy`); so what `read_testcases` makes of them puts every
file back under its number (`TidyInOrder`), and while it is linked back queue/ and _resume/
agree (`Linking`). What a reader takes for read of a queue (`Known`: below the remembered
number and not left behind, or read in the pass under way) is by its number in `Kept` and was
executed (`Executed`), unless nothing is left there (`Fading`). What must be shown of a kill
is that it turns `Kept` into nothing less: half way through the removal of `_resume/` that
holds if no input is lost from it, which is why `harmed` is exactly what it is (`NukeKilled`).
`Typed` and `Handles` are the rest: every variable has its type, and the handle of a pass is
of a directory that exists. From it `SessionTypeCorrect`, `SessionInputsSurvive`,
`SessionSyncedWasRun`.

**CrawlerProofs**, for any site, pages, numbers of rounds, waits and kills. `CrawlerInv` says
that what is under way has begun: a request is handed out in the first round at the earliest
(`InARound`), a pass of the loop over the page had one left (`Passing`); that the counter as it
was before a scan, plus what the scan found, was added (`ScanIsSound`), so that no order of
handlers and scans counts more than there is; that the request at hand is in the file
(`StartedIsOnDisk`); and that every exploration in vain is one of the attempts, in memory and
in the file (`AttemptsCount`), which a kill between the two must not turn around. From it
`CrawlerTypeCorrect`, `CrawlerCounterIsSound`, `CrawlerStartedIsOnDisk`,
`CrawlerEffortBounded`.

**ResponseMonitorProofs**, for any pairs, any number of workers, queues of any length, with
and without the search for XSS. A response is listed, in one place of one queue, or in one
worker's hands (`OnePlace`, from the lemmas on appending and taking, `AppendPlaces` and
`TailPlaces`); once it was handed out it is recorded as processed or removed (`Recorded`),
and so never listed again (`Listed`), whatever records a scan drops. `Complete` says that the
files of a pair that waits are there or that it was given up, so that a worker that finds no
request has lost nothing new; `Debts` follows what the stop owes through the drain, the
signals and the joins. From these `ResponseTypeCorrect`, `ResponseComparedOnce`,
`ResponseQueuedIsSettled`.

Model-checked only: liveness (`RestoresUnlessKilled`, `EveryVerificationEnds`, `RunEnds`,
`FindingFails`, `VerificationEnds`, `FavoredGetsFuzzed`, `TurnEnds`, `CalcEnds`,
`EveryPairSettled`, `StopEnds`, `CrawlEnds`), which is out of the prover's reach. Two
theorems about steps go part of the way: by `LoopAdvances` a run comes to its end, stands
still or prints for ever, so that `RunEnds` asks no more than that it does not stand still,
which is ENABLED and fairness; by `CalcAdvances` the same holds of every walk and every round of the distance
calculation, while that rounds do not follow each other for ever, the rest of `CalcEnds`, is
checked on the graphs of the run alone. Every other
property of a passing run is a theorem.

The induction theorems of the library cannot be used with the installed provers, but what a
recursive function over the naturals yields can be proved where it is needed, by the least
number for which it fails; AflQueueProofs (`WalkExists`), FuzzerProofs (`LeastNumber`,
`MaxIs`) and InstrumentationProofs (`LeastNatural`, `OrderExists`, `UpToN`) do so. The recursion of
`cal_prob`, nested through the marks it changes, is modelled as steps on a stack instead,
which an invariant can speak about.

## Abstractions

- The order of the log's lines and of an answer's keys: any order.
- A path that contains `.bak` elsewhere (`line.split('.bak')[0]`) is not modelled, nor two
  keys that spell one path (`KeysDistinct`).
- The text of files, prompts, answers and patches; which answer is usable is a choice.
- The POC's indicators are reduced to what they can conclude from the response and the log.
- After a restart that is not asked for, the pipeline skips the reference POC; PocVerdict
  has both beginnings.
- The rows of `/tmp/instr-info.csv` are of one length and are read and written whole; a
  path belongs to a section if it is the section's (the code asks `strstr`); an open that
  fails is not modelled. A child serves one request.
- `/tmp/pre_patch.log` is read and written by the pipeline's process only: a single step.
- An execution is a trace and a distance out of a small set; factors and throws of dice are
  choices. In AflQueue a turn is one step of the queue, in FuzzOne the queue is one entry.
- Process ids are not reused while a signal is on its way. The mode without a fork server
  is left out.
- The loops of the HTTP stage that throw dice until a token begins with `&` (`afl-fuzz.c:8036`,
  `8086`), or does not (`8064-8067`), never end with a dictionary that lacks such a token;
  FuzzOne assumes tokens of both kinds.
- A probability of the distance calculator is a whole number of units, halved or divided
  with a cutoff, not a floating-point number. Successors and predecessors of a node are taken
  in the order of their numbers, where networkx has the order in which their edges were added.
  Every numbering of a graph is another graph of the run and of the theorems, but an order of
  edges that no numbering of the nodes gives is not looked at.
- Two fuzzers do not save in one microsecond, so that a name is one pair's. The walk of the
  directory is one step; an exception in the middle of it would repeat the scan a second
  later. Whether a comparison finds a difference is left open; a start after a stop is not
  modelled.

- A request of the crawler is its key; what a page yields and whether the comparison of
  requests calls a new one interesting are choices. What a scan that is not waited for adds
  is as what an uninteresting request adds. One worker explores, as `main.js` starts it.
- In AflSession a hard link needs no time, `.synced/` is cleared at once, a file is empty or
  whole, and its name is its number. Crashes, hangs, the marks in `queue/.state` and the
  automatic dictionary are left out.

## Not modelled

- *Hazards no property covers.* A `WICHR` directory that `_robust_rmtree` fails to remove
  keeps the findings of an earlier verification (`df_factory.py:87`); DiffMonitor begins with
  them, and a patch that fails for them is as the code is. A stage of `fuzz_one`
  is skipped by `cur_distance`, the distance of whatever input ran last (`afl-fuzz.c:6445`),
  which changes frequencies only. The read of the distance in a calibration clears the
  virgin bits ahead of the test for new coverage (`afl-fuzz.c:3376`), so that `has_new_cov`
  is never set there. Without `/tmp/crash.rsp` the deep comparison of two responses raises
  (`witcher.py:1461`), and the difference is dropped.
- *Text.* The comparison of responses (`perform_differential_test_single_file_pair`), the
  merge and assembly of PHP texts, prompts and the parsing of answers: long computations on
  strings with no state of their own. A model would have to choose their results, and the
  models of their callers do.
- *One-shot programs.* Graphs and the data-flow closure, the slicer, coverage blending,
  corpus and URL helpers: pure functions from files to files, with nothing that interleaves.
- *Start and configuration.* The phuzzer classes, docker, `batch_patching.sh`.
- *Upstream and third-party code.* Most of the implementation's lines: the shell (Widash is
  dash), upstream AFL's tools (`afl-tmin`, `afl-analyze`, `afl-showmap`, its LLVM and QEMU
  modes, the user interface and statistics of `afl-fuzz`), `afl-backup.c` (an older copy of
  `afl-fuzz.c` no build uses), and the curlpp request tools. The map covers about 7 % of all
  lines for this reason.

What could come next: the data-flow closure of `data_flow_analyzer.py` against its
definition, and a composition of ResponseMonitor with DiffMonitor over the `.cmp` files.
