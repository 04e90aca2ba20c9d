--------------------------- MODULE ResponseMonitor ---------------------------
(***************************************************************************)
(* Witcher's real-time comparison of responses. Each fuzzer writes every   *)
(* request and its response to a pair of files, n.req and n.rsp. A polling *)
(* thread hands the files out to queues of bounded length, one for each    *)
(* worker thread; a worker sends the request to both applications, leaves  *)
(* a .cmp file when they differ, and removes the pair. At the end the      *)
(* fuzzers are stopped, the queues drained and the directory removed, with *)
(* timeouts at each wait.                                                  *)
(*                                                                         *)
(* Whether the two applications differ is left open: DiffMonitor takes a   *)
(* .cmp file as it comes. Two fuzzers do not save in one microsecond, so   *)
(* that a name is one pair's.                                              *)
(***************************************************************************)
EXTENDS Integers, Sequences, FiniteSets

CONSTANTS
    Names,     \* the microseconds in which a fuzzer saves
    Cores,     \* one queue and one worker each
    QueueSize, \* maxsize of a queue
    Xss        \* xss_detection_enabled

ASSUME ResponseAssumption ==
    /\ Cores \in Nat \ {0} /\ QueueSize \in Nat \ {0}
    /\ Xss \in BOOLEAN

Worker == 0 .. Cores - 1

Req(n) == [name |-> n, kind |-> "req"]
Rsp(n) == [name |-> n, kind |-> "rsp"]
File   == [name : Names, kind : {"req", "rsp"}]
None   == [kind |-> "none"]   \* the stop signal, and no file at hand

VARIABLES
    saved,    \* saved[n]: how far save_response_to_file is with a pair
    removed,  \* the files that were unlinked
    response_monitor_active,
    response_queues,
    poll, new_files, processed_files, file_counter,   \* the polling thread
    worker,   \* worker[w]: where it is, and the file it works on
    stop,     \* where stop_response_monitoring is
    stopped,  \* how many workers its loop at hand is through with
    compared, \* compared[n]: how often the pair was compared
    given_up, \* pairs whose request was removed without a comparison
    owed      \* pairs that were queued when it looked, until one of its timeouts expires

files   == <<saved, removed>>
polling == <<poll, new_files, processed_files, file_counter>>
ending  == <<stop, stopped, owed>>
history == <<compared, given_up>>
vars    == <<files, response_monitor_active, response_queues, polling, worker, ending,
             history>>

SaveStages == {"no", "req", "closed", "rsp", "filled"}

TypeOK ==
    /\ saved \in [Names -> SaveStages] /\ removed \subseteq File
    /\ response_monitor_active \in BOOLEAN
    /\ response_queues \in [Worker -> Seq(File \cup {None})]
    /\ \A w \in Worker : Len(response_queues[w]) <= QueueSize
    /\ poll \in {"on", "over"}
    /\ new_files \subseteq File /\ processed_files \subseteq File
    /\ file_counter \in Worker
    /\ worker \in [Worker -> [at : {"get", "start", "http", "remove rsp", "remove req", "over"},
                              file : File \cup {None}]]
    /\ stop \in {"off", "drain", "signal", "join", "clean", "done"}
    /\ stopped \in Worker
    /\ compared \in [Names -> Nat] /\ given_up \subseteq Names
    /\ owed \subseteq Names

Init ==
    /\ saved = [n \in Names |-> "no"] /\ removed = {}
    /\ response_monitor_active = TRUE
    /\ response_queues = [w \in Worker |-> <<>>]
    /\ poll = "on" /\ new_files = {} /\ processed_files = {} /\ file_counter = 0
    /\ worker = [w \in Worker |-> [at |-> "get", file |-> None]]
    /\ stop = "off" /\ stopped = 0 /\ owed = {}
    /\ compared = [n \in Names |-> 0] /\ given_up = {}

-----------------------------------------------------------------------------
(* The files.                                                              *)

There(f) ==
    /\ f \notin removed
    /\ f.kind = "req" => saved[f.name] # "no"
    /\ f.kind = "rsp" => saved[f.name] \in {"rsp", "filled"}

\* os.path.getsize > 0: it does not wait for stdio's last buffer.
Filled(f) == IF f.kind = "req" THEN saved[f.name] \notin {"no", "req"}
             ELSE saved[f.name] = "filled"

Pair(f) == {Req(f.name), Rsp(f.name)}

\* save_response_to_file: the request is created, filled and closed, and then the
\* response, of which only the first bytes matter here.
SaveNext == [no |-> "req", req |-> "closed", closed |-> "rsp", rsp |-> "filled"]

Save(n) ==
    /\ stop = "off" /\ saved[n] # "filled"
    /\ saved' = [saved EXCEPT ![n] = SaveNext[@]]
    /\ UNCHANGED <<removed, response_monitor_active, response_queues, polling, worker,
                   ending, history>>

-----------------------------------------------------------------------------
(* The polling thread.                                                     *)

\* A response is new when its request is there, a request when it has no response.
IsNew(f) ==
    /\ f \notin processed_files /\ There(f) /\ Filled(f)
    /\ IF f.kind = "rsp" THEN There(Req(f.name)) ELSE ~There(Rsp(f.name))

\* The end of one round and, a second later, the beginning of the next: records of
\* files that are gone are dropped, the directory is walked, and what is new is
\* listed. Of a pair only one file is new at a time. The requests of new
\* responses count as processed.
Scan ==
    /\ poll = "on" /\ new_files = {}
    /\ IF response_monitor_active
       THEN /\ new_files' = {f \in File : IsNew(f)}
            /\ processed_files' = {f \in processed_files : There(f)}
                                  \cup {Req(f.name) : f \in {g \in new_files' : g.kind = "rsp"}}
            /\ UNCHANGED poll
       ELSE poll' = "over" /\ UNCHANGED <<new_files, processed_files>>
    /\ UNCHANGED <<files, response_monitor_active, response_queues, file_counter, worker,
                   ending, history>>

Room(w) == Len(response_queues[w]) < QueueSize

\* Slip: the file is not recorded as processed.
PutUnrecorded ==
    /\ stop # "done"
    /\ Room(file_counter)
    /\ \E f \in new_files :
         /\ response_queues' = [response_queues EXCEPT ![file_counter] = Append(@, f)]
         /\ new_files' = new_files \ {f}
    /\ file_counter' = (file_counter + 1) % Cores
    /\ UNCHANGED <<files, response_monitor_active, poll, processed_files, worker, ending, history>>

\* put_nowait, the queues in turn.
Put ==
    /\ stop # "done"
    /\ Room(file_counter)
    /\ \E f \in new_files :
         /\ response_queues' = [response_queues EXCEPT ![file_counter] = Append(@, f)]
         /\ processed_files' = processed_files \cup {f}
         /\ new_files' = new_files \ {f}
    /\ file_counter' = (file_counter + 1) % Cores
    /\ UNCHANGED <<files, response_monitor_active, poll, worker, ending, history>>

\* queue.Full: the file and its partner are removed, whatever the other queues hold.
Drop ==
    /\ stop # "done"
    /\ ~Room(file_counter)
    /\ \E f \in new_files :
         /\ There(f)
         /\ removed' = removed \cup {g \in Pair(f) : There(g)}
         /\ given_up' = given_up \cup {f.name}
         /\ new_files' = new_files \ {f}
    /\ UNCHANGED <<saved, response_monitor_active, response_queues, poll,
                   processed_files, file_counter, worker, ending, compared>>

\* A file that is gone cannot be removed, and in the end there are no queues: the
\* exception gives up the rest of the list until the next scan.
PutFails ==
    /\ \E f \in new_files : stop = "done" \/ (~Room(file_counter) /\ ~There(f))
    /\ new_files' = {}
    /\ UNCHANGED <<files, response_monitor_active, response_queues, poll,
                   processed_files, file_counter, worker, ending, history>>

-----------------------------------------------------------------------------
(* A worker: response_processor_worker, process_response_file_realtime.    *)

At(w, place)   == worker[w].at = place
Goes(w, place) == worker' = [worker EXCEPT ![w].at = place]

\* The head of the loop, after a file.
Done(w) ==
    worker' = [worker EXCEPT ![w] = [at   |-> IF response_monitor_active THEN "get" ELSE "over",
                                     file |-> None]]

\* A timeout of get, after the flag was cleared.
Leave(w) ==
    /\ At(w, "get") /\ ~response_monitor_active
    /\ Goes(w, "over")
    /\ UNCHANGED <<files, response_monitor_active, response_queues, polling, ending,
                   history>>

Get(w) ==
    /\ At(w, "get") /\ response_queues[w] # <<>>
    /\ LET f == Head(response_queues[w])
       IN worker' = [worker EXCEPT ![w] = [at |-> IF f = None THEN "over" ELSE "start", file |-> f]]
    /\ response_queues' = [response_queues EXCEPT ![w] = Tail(@)]
    /\ UNCHANGED <<files, response_monitor_active, polling, ending, history>>

\* Slip: the exception of a request that is gone ends the worker.
LoneUncaught(w) ==
    /\ At(w, "start") /\ worker[w].file.kind = "req"
    /\ removed' = removed \cup {worker[w].file}
    /\ given_up' = IF There(worker[w].file) THEN given_up \cup {worker[w].file.name} ELSE given_up
    /\ IF There(worker[w].file) THEN Done(w) ELSE Goes(w, "over")
    /\ UNCHANGED <<saved, response_monitor_active, response_queues, polling, ending, compared>>

\* A request without a response is removed, though the response may be on its way.
Lone(w) ==
    /\ At(w, "start") /\ worker[w].file.kind = "req"
    /\ removed' = removed \cup {worker[w].file}
    /\ given_up' = IF There(worker[w].file) THEN given_up \cup {worker[w].file.name} ELSE given_up
    /\ Done(w)
    /\ UNCHANGED <<saved, response_monitor_active, response_queues, polling, ending,
                   compared>>

\* The search for XSS fails without the response, the comparison without the request.
Open(w) ==
    /\ At(w, "start") /\ worker[w].file.kind = "rsp"
    /\ IF Xss /\ ~There(worker[w].file) THEN Done(w)
       ELSE Goes(w, IF There(Req(worker[w].file.name)) THEN "http" ELSE "remove rsp")
    /\ UNCHANGED <<files, response_monitor_active, response_queues, polling, ending,
                   history>>

\* Two or four requests have been answered or have failed.
Compare(w) ==
    /\ At(w, "http")
    /\ compared' = [compared EXCEPT ![worker[w].file.name] = @ + 1]
    /\ Goes(w, "remove rsp")
    /\ UNCHANGED <<files, response_monitor_active, response_queues, polling, ending,
                   given_up>>

\* A response that is gone is an error, and the request is left.
RemoveRsp(w) ==
    /\ At(w, "remove rsp")
    /\ IF There(worker[w].file)
       THEN removed' = removed \cup {worker[w].file} /\ Goes(w, "remove req")
       ELSE UNCHANGED removed /\ Done(w)
    /\ UNCHANGED <<saved, response_monitor_active, response_queues, polling, ending,
                   history>>

RemoveReq(w) ==
    /\ At(w, "remove req")
    /\ removed' = removed \cup {Req(worker[w].file.name)}
    /\ Done(w)
    /\ UNCHANGED <<saved, response_monitor_active, response_queues, polling, ending,
                   history>>

-----------------------------------------------------------------------------
(* stop_response_monitoring. The polling thread is joined for two seconds, *)
(* but response_monitor_active still holds and it goes on.                 *)

Queued(n) == \E w \in Worker : \E i \in DOMAIN response_queues[w] : response_queues[w][i] = Rsp(n)
NonePending == \A w \in Worker : response_queues[w] = <<>>

Deactivate == response_monitor_active' = FALSE /\ stop' = "signal"

\* Slip: the flag is cleared at once.
StopAtOnce ==
    /\ stop = "off"
    /\ owed' = {n \in Names : Queued(n)}
    /\ Deactivate
    /\ UNCHANGED <<files, response_queues, polling, worker, stopped, history>>

\* fuzzer.stop(), and then the call: the files that wait are counted.
Stop ==
    /\ stop = "off"
    /\ owed' = {n \in Names : Queued(n)}
    /\ IF NonePending THEN Deactivate ELSE stop' = "drain" /\ UNCHANGED response_monitor_active
    /\ UNCHANGED <<files, response_queues, polling, worker, stopped, history>>

\* All the queues are empty, or a minute is over.
Drain ==
    /\ stop = "drain"
    /\ owed' = IF NonePending THEN owed ELSE {}
    /\ Deactivate
    /\ UNCHANGED <<files, response_queues, polling, worker, stopped, history>>

\* The next worker of the loop, or what comes after the loop.
Onward(next) == IF stopped + 1 < Cores THEN stopped' = stopped + 1 /\ UNCHANGED stop
                ELSE stopped' = 0 /\ stop' = next

\* put(None, timeout=1): a queue that stays full gets no signal.
Signal ==
    /\ stop = "signal"
    /\ response_queues' = IF Room(stopped)
                          THEN [response_queues EXCEPT ![stopped] = Append(@, None)]
                          ELSE response_queues
    /\ Onward("join")
    /\ UNCHANGED <<files, response_monitor_active, polling, worker, owed, history>>

\* Slip: join().
JoinForever ==
    /\ stop = "join" /\ At(stopped, "over")
    /\ Onward("clean")
    /\ UNCHANGED <<files, response_monitor_active, response_queues, polling, worker, owed, history>>

\* join(timeout=10).
Join ==
    /\ stop = "join"
    /\ owed' = IF At(stopped, "over") THEN owed ELSE {}
    /\ Onward("clean")
    /\ UNCHANGED <<files, response_monitor_active, response_queues, polling, worker,
                   history>>

\* The files that are left, and the directory.
CleanUp ==
    /\ stop = "clean"
    /\ removed' = removed \cup {f \in File : There(f)}
    /\ stop' = "done"
    /\ UNCHANGED <<saved, response_monitor_active, response_queues, polling, worker,
                   stopped, owed, history>>

-----------------------------------------------------------------------------
Polling    == Scan \/ Put \/ Drop \/ PutFails
Working(w) == Leave(w) \/ Get(w) \/ Lone(w) \/ Open(w) \/ RemoveRsp(w) \/ RemoveReq(w)
Stopping   == Drain \/ Signal \/ Join \/ CleanUp

Next ==
    \/ \E n \in Names : Save(n)
    \/ Polling
    \/ \E w \in Worker : Working(w) \/ Compare(w)
    \/ Stop \/ Stopping

Spec == Init /\ [][Next]_vars

\* Python's threads run, and what has a timeout ends. A comparison is no such
\* thing: an answer may come a byte at a time.
FairSpec ==
    /\ Spec
    /\ WF_vars(Polling) /\ WF_vars(Stopping)
    /\ \A w \in Worker : WF_vars(Working(w))

-----------------------------------------------------------------------------
(* Properties                                                              *)

\* "processed_files": no pair is compared twice, by one worker or two, however
\* scans, full queues and removals interleave.
ComparedOnce == \A n \in Names : compared[n] <= 1

\* "Wait for all queues to finish processing (before stopping worker threads)":
\* unless one of its timeouts has expired, every pair that was queued when the stop
\* began is compared when its files are removed, or was given up before.
QueuedIsSettled ==
    stop = "done" => \A n \in owed : compared[n] = 1 \/ n \in given_up

\* If no comparison hangs, every pair that was saved is compared, or given up, or
\* the fuzzing is over: no exception of a scan, no record of a file that was
\* handled and no full queue keeps one off for ever.
EveryPairSettled ==
    (\A w \in Worker : []<>(worker[w].at # "http")) =>
        \A n \in Names : saved[n] = "filled" ~> compared[n] = 1 \/ n \in given_up \/ stop # "off"

\* The stop ends, though a comparison may hang.
StopEnds == stop # "off" ~> stop = "done"
=============================================================================
