------------------------------- MODULE Crawler -------------------------------
(***************************************************************************)
(* The request crawler (base/helpers/request_crawler). AppData keeps the   *)
(* requests that were found and hands them out in rounds; RequestExplorer  *)
(* opens one of them in a browser, lets gremlins loose on the page and     *)
(* collects the requests that the page makes or links to. The code runs in *)
(* one thread of node, but gives way at every await: handlers of browser   *)
(* events and the page timer run in between. The requests and how often    *)
(* each was tried are written to request_data.json before a request is     *)
(* explored, and read again when the crawler is started anew.              *)
(*                                                                         *)
(* A request is its key. What a page yields, and whether the fuzzy         *)
(* comparison of requests counts a new one as interesting, are choices.    *)
(* request_data.json lists at least one request when it exists.            *)
(***************************************************************************)
EXTENDS Integers, Sequences, FiniteSets, SequencesExt, FiniteSetsExt

CONSTANTS
    Requests, \* the keys of all requests of the site
    Path,     \* Path[r]: the pathname of a request
    Ignored,  \* the requests whose pathname ends with logout.php
    Seeds,    \* what the first start knows: the site's address, /admin
    Given,    \* the requests of an initial request_data.json, in its order
    Scanner,  \* the requests of afl_request_data.json, if that is ever written
    Links,    \* the requests that pages may lead to
    MAX_NUM_ROUNDS, SkipTail, Many, timeoutLoops, Errors, Horde, Patience,
              \* 3; 5; 10; 5; 10; 30 s and 51 s in units of 3 s
    MaxCrashes \* bound on kills of the crawler

ASSUME CrawlerAssumption ==
    /\ Path \in [Requests -> STRING] /\ Ignored \subseteq Requests
    /\ Seeds \in Seq(Requests) /\ Seeds # <<>> /\ Given \in Seq(Requests)
    /\ IsInjective(Seeds) /\ IsInjective(Given)
    /\ Scanner \subseteq Requests /\ IsFiniteSet(Scanner) /\ Links \subseteq Requests
    /\ {MAX_NUM_ROUNDS, timeoutLoops, Errors, Horde, Patience} \subseteq Nat \ {0}
    /\ {SkipTail, Many, MaxCrashes} \subseteq Nat

NoRequest == "none"
NaN   == -1
NoFile == [text |-> "none"]
Torn   == [text |-> "torn"]
Saved(k, a) == [text |-> "whole", keys |-> k, attempts |-> a]

VARIABLES
    keys,            \* the keys of requestsFound, oldest first
    attempts,        \* requestsFound[r]["attempts"]
    currentURLRound,
    currentRequest,
    disk,            \* request_data.json
    scanner,         \* afl_request_data.json was written
    pc,
    browser,
    requestsAdded,   \* the explorer's counter: a number, NaN, or a text that begins with one
    base, scanned,   \* the counter as read before a scan of the page, and what the scan found
    thrown,          \* errorThrown
    tries, cnt, errorLoopcnt,
    ticks,           \* passes of the gremlin loop since the page timer was set
    gremlinsTime,
    changed,         \* the counter was touched since this pass of the gremlin loop began
    crashes,
    fresh,           \* history: requests added since this exploration began
    fruitless        \* history: explorations of a request since its attempts were reset

pool     == <<keys, attempts, currentURLRound, currentRequest>>
counting == <<requestsAdded, base, scanned>>
loops    == <<tries, cnt, errorLoopcnt, thrown>>
polling  == <<ticks, gremlinsTime, changed>>
files    == <<disk, scanner>>
vars == <<pool, files, pc, browser, counting, loops, polling, crashes, fresh, fruitless>>

Known == ToSet(keys)

\* The page is being worked on: the listeners hear it and the page timer is set.
Exploring == {"goto", "init", "loop", "scan", "settle", "init_again", "poll", "count"}

TypeOK ==
    /\ keys \in Seq(Requests)
    /\ attempts \in [Requests -> 0 .. MAX_NUM_ROUNDS]
    /\ currentURLRound \in 0 .. MAX_NUM_ROUNDS + 1
    /\ currentRequest \in Requests \cup {NoRequest}
    /\ disk \in {NoFile, Torn} \cup [text : {"whole"}, keys : Seq(Requests),
                                     attempts : [Requests -> 0 .. MAX_NUM_ROUNDS]]
    /\ scanner \in BOOLEAN
    /\ pc \in Exploring \cup {"load", "pick", "save", "launch", "login", "exercise", "judge",
                              "close", "update", "over", "dead"}
    /\ browser \in {"off", "up", "closed"}
    /\ requestsAdded \in [n : Nat \cup {NaN}, text : BOOLEAN]
    /\ base \in Nat \cup {NaN} /\ scanned \in Nat
    /\ thrown \in BOOLEAN /\ changed \in BOOLEAN
    /\ tries \in 0 .. 2 /\ cnt \in 0 .. timeoutLoops /\ errorLoopcnt \in 0 .. Errors - 1
    /\ ticks \in 0 .. Patience /\ gremlinsTime \in 0 .. Horde
    /\ crashes \in 0 .. MaxCrashes
    /\ fresh \in Nat /\ fruitless \in [Requests -> Nat]

Zero == [n |-> 0, text |-> FALSE]

Init ==
    /\ keys = <<>> /\ attempts = [r \in Requests |-> 0]
    /\ currentURLRound = 1 /\ currentRequest = NoRequest
    /\ disk = IF Given = <<>> THEN NoFile ELSE Saved(Given, [r \in Requests |-> 0])
    /\ scanner = FALSE /\ pc = "load" /\ browser = "off"
    /\ requestsAdded = Zero /\ base = 0 /\ scanned = 0 /\ thrown = FALSE
    /\ tries = 0 /\ cnt = 0 /\ errorLoopcnt = 0
    /\ ticks = 0 /\ gremlinsTime = 0 /\ changed = FALSE
    /\ crashes = 0 /\ fresh = 0 /\ fruitless = [r \in Requests |-> 0]

\* The next explorer starts anew.
DropExplorer ==
    /\ requestsAdded' = Zero /\ base' = 0 /\ scanned' = 0 /\ thrown' = FALSE
    /\ tries' = 0 /\ cnt' = 0 /\ errorLoopcnt' = 0
    /\ ticks' = 0 /\ gremlinsTime' = 0 /\ changed' = FALSE /\ fresh' = 0

-----------------------------------------------------------------------------
(* AppData.                                                                *)

\* Slip: as in updateReqsFromExternal, what is loaded counts as not yet tried.
StartingAttemptsNone(r) == 0

StartingAttempts(r) == disk.attempts[r]

\* loadReqsFromJSON. A file that was cut short makes JSON.parse throw, now and at
\* every later start.
Load ==
    /\ pc = "load"
    /\ CASE disk = NoFile ->
              /\ keys' = Seeds /\ currentURLRound' = 1 /\ pc' = "pick"
              /\ UNCHANGED attempts
         [] disk = Torn -> pc' = "dead" /\ UNCHANGED <<keys, attempts, currentURLRound>>
         [] OTHER ->
              /\ keys' = disk.keys /\ pc' = "pick"
              /\ attempts' = [r \in Requests |-> StartingAttempts(r)]
              /\ currentURLRound' = Min({1} \cup {disk.attempts[r] : r \in ToSet(disk.keys)})
    /\ UNCHANGED <<currentRequest, files, browser, counting, loops, polling, crashes,
                   fresh, fruitless>>

\* checkToSkip, and the condition on its call.
Skip(i) ==
    /\ i + SkipTail < Len(keys)
    /\ currentRequest # NoRequest /\ Path[keys[i]] = Path[currentRequest]

Eligible(round) ==
    {i \in DOMAIN keys : /\ keys[i] \notin Ignored
                         /\ attempts[keys[i]] < round /\ ~Skip(i)}

\* The requests not to be visited that getNextRequest passes on its way to the i-th.
GivenUp(a, i) == [r \in Requests |->
    IF r \in Ignored /\ r \in ToSet(SubSeq(keys, 1, i)) THEN MAX_NUM_ROUNDS ELSE a[r]]

\* getNextRequest up to save: the first request of the first round that has one.
getNextRequest ==
    LET rounds == {k \in currentURLRound .. MAX_NUM_ROUNDS : Eligible(k) # {}}
    IN /\ pc = "pick"
       /\ IF rounds = {}
          THEN /\ pc' = "over" /\ currentURLRound' = MAX_NUM_ROUNDS + 1
               /\ attempts' = GivenUp(attempts, Len(keys))
               /\ UNCHANGED <<currentRequest, disk, fruitless>>
          ELSE LET round == Min(rounds)
                   i     == Min(Eligible(round))
                   seen  == IF round = currentURLRound THEN i ELSE Len(keys)
               IN /\ currentURLRound' = round
                  /\ attempts' = [GivenUp(attempts, seen) EXCEPT ![keys[i]] = @ + 1]
                  /\ currentRequest' = keys[i]
                  /\ fruitless' = [fruitless EXCEPT ![keys[i]] = @ + 1]
                  /\ disk' = Torn /\ pc' = "save"
       /\ UNCHANGED <<keys, scanner, browser, counting, loops, polling, crashes, fresh>>

\* Slip: saved before the attempt is counted.
saveFirst ==
    /\ pc = "save" /\ pc' = "launch"
    /\ disk' = Saved(keys, [attempts EXCEPT ![currentRequest] = @ - 1])
    /\ UNCHANGED <<pool, scanner, browser, counting, loops, polling, crashes, fresh, fruitless>>

\* writeFileSync has truncated the file; it is filled.
save ==
    /\ pc = "save" /\ disk' = Saved(keys, attempts) /\ pc' = "launch"
    /\ UNCHANGED <<pool, scanner, browser, counting, loops, polling, crashes, fresh, fruitless>>

\* addRequest
addRequest(r) ==
    r \notin Known /\ keys' = Append(keys, r)

\* updateReqsFromExternal
updateReqsFromExternal ==
    /\ pc = "update" /\ pc' = "pick"
    /\ IF scanner
       THEN /\ currentURLRound' = 0
            /\ \E more \in SetToSeqs(Scanner \ Known) : keys' = keys \o more
       ELSE UNCHANGED <<keys, currentURLRound>>
    /\ UNCHANGED <<attempts, currentRequest, files, browser, counting, loops, polling,
                   crashes, fresh, fruitless>>

-----------------------------------------------------------------------------
(* The counter requestsAdded. initpage adds a promise to it, which makes it *)
(* a text; ++ on that text makes it NaN, += appends to the text.           *)

AddPromise(c) == [c EXCEPT !.text = TRUE]
PlusPlus(c) ==
    IF c.text \/ c.n = NaN THEN [n |-> NaN, text |-> FALSE] ELSE [c EXCEPT !.n = @ + 1]

PlusOne(c) == IF c.text \/ c.n = NaN THEN c ELSE [c EXCEPT !.n = @ + 1]

ParseInt(c) == [c EXCEPT !.text = FALSE]

Plus(a, b) == IF a = NaN THEN NaN ELSE a + b

Exceeds(c, k) == ~c.text /\ c.n # NaN /\ c.n > k

-----------------------------------------------------------------------------
(* What happens while the explorer waits.                                  *)

Listening == browser = "up" /\ pc \in Exploring \cup {"login"}

\* processRequest: the request is added whether or not it is interesting, and only
\* then counted.
processRequest ==
    /\ Listening
    /\ \E r \in Links, interesting \in BOOLEAN :
         /\ addRequest(r)
         /\ IF interesting
            THEN requestsAdded' = PlusPlus(requestsAdded) /\ changed' = TRUE /\ fresh' = fresh + 1
            ELSE UNCHANGED <<requestsAdded, changed, fresh>>
    /\ UNCHANGED <<attempts, currentURLRound, currentRequest, files, pc, browser, base,
                   scanned, loops, ticks, gremlinsTime, crashes, fruitless>>

\* targetChanged. When nothing is added, 0 is, which a text grows by.
targetChanged ==
    /\ Listening /\ pc # "login"
    /\ \/ /\ \E r \in Links : addRequest(r)
          /\ requestsAdded' = PlusOne(requestsAdded) /\ fresh' = fresh + 1
       \/ requestsAdded.text /\ UNCHANGED <<keys, requestsAdded, fresh>>
    /\ changed' = TRUE
    /\ UNCHANGED <<attempts, currentURLRound, currentRequest, files, pc, browser, base,
                   scanned, loops, ticks, gremlinsTime, crashes, fruitless>>

\* The callback of setPageTimer, 51 s after the timer was set; it sets browser_up of
\* the timer, not of the explorer, whose flag stays TRUE.
PageTimer ==
    /\ browser = "up" /\ pc \in Exploring /\ (pc = "poll" => ticks = Patience)
    /\ browser' = "closed"
    /\ UNCHANGED <<pool, files, pc, counting, loops, polling, crashes, fresh, fruitless>>

\* gremlinsErrorTest
GremlinsErrorTest ==
    /\ browser = "up" /\ pc \in Exploring
    /\ browser' = "closed"
    /\ UNCHANGED <<pool, files, pc, counting, loops, polling, crashes, fresh, fruitless>>

\* afl_request_data.json is written, at the latest when it is about to be read.
ScannerReports ==
    /\ pc = "update" /\ ~scanner /\ Scanner # {} /\ scanner' = TRUE
    /\ UNCHANGED <<pool, disk, pc, browser, counting, loops, polling, crashes, fresh, fruitless>>

\* The crawler is killed, or leaves because the login failed, and is started again.
Crash ==
    /\ pc \notin {"load", "over", "dead"} /\ crashes < MaxCrashes
    /\ crashes' = crashes + 1
    /\ pc' = "load" /\ browser' = "off"
    /\ keys' = <<>> /\ attempts' = [r \in Requests |-> 0]
    /\ currentURLRound' = 1 /\ currentRequest' = NoRequest
    /\ DropExplorer
    /\ UNCHANGED <<files, fruitless>>

-----------------------------------------------------------------------------
(* RequestExplorer: start and exerciseTarget.                              *)

\* Only pc, and the browser or the counter, change.
Only(rest) == UNCHANGED <<pool, files, crashes, fruitless>> /\ UNCHANGED rest

Launch ==
    /\ pc = "launch"
    /\ \/ pc' = "login" /\ browser' = "up"
       \/ pc' = "update" /\ UNCHANGED browser  \* puppeteer.launch throws
    /\ Only(<<counting, loops, polling, fresh>>)

\* do_login throws, or is done. A failed login leaves the program: see Crash.
do_login ==
    /\ pc = "login" /\ pc' \in {"exercise", "close"}
    /\ Only(<<browser, counting, loops, polling, fresh>>)

\* Slip: the counter goes on from the login's.
exerciseTargetOn ==
    /\ pc = "exercise" /\ pc' = "goto" /\ changed' = FALSE /\ fresh' = 0
    /\ Only(<<browser, counting, loops, ticks, gremlinsTime>>)

\* exerciseTarget begins: what the login has added is not counted any more.
exerciseTarget ==
    /\ pc = "exercise" /\ pc' = "goto"
    /\ requestsAdded' = Zero /\ changed' = FALSE /\ fresh' = 0
    /\ Only(<<browser, base, scanned, loops, ticks, gremlinsTime>>)

\* A try to load the page, or what follows in initpage, throws: three times at most.
LoadThrows ==
    /\ pc \in {"goto", "init"}
    /\ IF tries = 2 THEN pc' = "close" /\ UNCHANGED tries
                    ELSE pc' = "goto" /\ tries' = tries + 1
    /\ Only(<<browser, counting, cnt, errorLoopcnt, thrown, polling, fresh>>)

\* The answer is an error or not a page.
BadResponse ==
    /\ pc = "goto" /\ browser = "up" /\ pc' = "close"
    /\ Only(<<browser, counting, loops, polling, fresh>>)

\* initpage, up to the scan that it does not wait for. What that scan adds later, it
\* adds as processRequest does when the request is not interesting.
initpage(from, to) ==
    /\ pc = from /\ browser = "up" /\ pc' = to
    /\ requestsAdded' = AddPromise(requestsAdded) /\ changed' = TRUE

InitPage ==
    /\ \/ initpage("goto", "init") \/ initpage("settle", "init_again")
       \/ initpage("poll", "poll")  \* the page has lost its script
    /\ Only(<<browser, base, scanned, loops, ticks, gremlinsTime, fresh>>)

PageReady ==
    /\ browser = "up"
    /\ \/ pc = "init" /\ pc' = "loop"
       \/ pc = "init_again" /\ pc' = "poll"
    /\ changed' = FALSE /\ ticks' = 0 /\ gremlinsTime' = 0
    /\ Only(<<browser, counting, loops, fresh>>)

\* The top of the loop; += reads the counter before it waits for the scan.
BeginScan ==
    /\ pc = "loop" /\ cnt < timeoutLoops /\ pc' = "scan"
    /\ requestsAdded' = ParseInt(requestsAdded)
    /\ base' = requestsAdded.n /\ scanned' = 0
    /\ Only(<<browser, loops, polling, fresh>>)

\* addDataFromBrowser: forms, frames and links of the page.
ScanFinds ==
    /\ pc = "scan" /\ browser = "up"
    /\ \E r \in Links : addRequest(r)
    /\ scanned' = scanned + 1 /\ fresh' = fresh + 1
    /\ UNCHANGED <<attempts, currentURLRound, currentRequest, files, pc, browser,
                   requestsAdded, base, loops, polling, crashes, fruitless>>

EndScan ==
    /\ pc = "scan"
    /\ requestsAdded' = [n |-> Plus(base, scanned), text |-> FALSE]
    /\ \/ browser = "closed" /\ pc' = "judge" /\ UNCHANGED cnt  \* the browser was killed
       \/ /\ pc' = "settle"
          /\ cnt' = IF base # NaN /\ scanned > 0 THEN Max({cnt - 3, 0}) ELSE cnt
    /\ Only(<<browser, base, scanned, tries, errorLoopcnt, thrown, polling, fresh>>)

\* The page is still the one it was, or was loaded again without success.
SamePage ==
    /\ pc = "settle" /\ pc' = "poll"
    /\ changed' = FALSE /\ ticks' = 0 /\ gremlinsTime' = 0
    /\ Only(<<browser, counting, loops, fresh>>)

\* Loading it again, in the scan or after it, or initpage, throws: the outer catch.
LoopThrows ==
    /\ pc \in {"scan", "settle", "init_again"} /\ pc' = "judge" /\ thrown' = TRUE
    /\ Only(<<browser, counting, tries, cnt, errorLoopcnt, polling, fresh>>)

\* A pass of the loop that waits for the gremlins. NaN differs from itself.
Poll ==
    /\ pc = "poll" /\ browser = "up" /\ ticks < Patience /\ gremlinsTime < Horde
    /\ changed' = FALSE
    /\ \E started \in {0, 1} :
         IF changed \/ requestsAdded = [n |-> NaN, text |-> FALSE]
         THEN ticks' = 0 /\ gremlinsTime' = 0
         ELSE ticks' = ticks + 1 /\ gremlinsTime' = gremlinsTime + started
    /\ Only(<<pc, browser, counting, loops, fresh>>)

GremlinsDone ==
    /\ pc = "poll" /\ browser = "up" /\ pc' = "count"
    /\ Only(<<browser, counting, loops, polling, fresh>>)

GremlinsLate ==
    /\ pc = "poll" /\ gremlinsTime = Horde /\ pc' = "count"
    /\ Only(<<browser, counting, loops, polling, fresh>>)

PollThrows ==
    /\ pc = "poll"
    /\ IF errorLoopcnt + 1 < Errors
       THEN errorLoopcnt' = errorLoopcnt + 1 /\ cnt' = cnt + 1 /\ pc' = "loop"
       ELSE pc' = "judge" /\ UNCHANGED <<errorLoopcnt, cnt>>
    /\ Only(<<browser, counting, tries, thrown, polling, fresh>>)

\* The gremlins' total has stood still too often, or the loop goes on.
CountGremlins ==
    /\ pc = "count"
    /\ \/ pc' = "judge" /\ UNCHANGED cnt
       \/ pc' = "loop" /\ cnt' = cnt + 1
    /\ Only(<<browser, counting, tries, errorLoopcnt, thrown, polling, fresh>>)

EndLoop ==
    /\ pc = "loop" /\ cnt >= timeoutLoops /\ pc' = "judge"
    /\ Only(<<browser, counting, loops, polling, fresh>>)

\* resetRequestsAttempts
resetRequestsAttempts(r) == attempts' = [attempts EXCEPT ![r] = currentURLRound - 1]

\* Slip: nothing needs to be found.
WorthAgainAlways == Exceeds(requestsAdded, Many) \/ (~thrown /\ Exceeds(requestsAdded, -1))

\* A number that compares as more than 10, or more than 0 without an error.
WorthAgain == Exceeds(requestsAdded, Many) \/ (~thrown /\ Exceeds(requestsAdded, 0))

\* The end of exerciseTarget.
Judge ==
    /\ pc = "judge" /\ pc' = "close"
    /\ IF WorthAgain
       THEN /\ resetRequestsAttempts(currentRequest)
            /\ fruitless' = [fruitless EXCEPT ![currentRequest] = 0]
       ELSE UNCHANGED <<attempts, fruitless>>
    /\ UNCHANGED <<keys, currentURLRound, currentRequest, files, browser, counting, loops,
                   polling, crashes, fresh>>

\* The browser is closed, and the explorer is not used again.
Close ==
    /\ pc = "close" /\ browser' = "off" /\ pc' = "update"
    /\ DropExplorer
    /\ UNCHANGED <<pool, files, crashes, fruitless>>

explorationWorker ==
    \/ Load \/ getNextRequest \/ save \/ updateReqsFromExternal \/ Launch \/ do_login
    \/ exerciseTarget \/ LoadThrows \/ BadResponse \/ InitPage \/ PageReady \/ BeginScan \/ EndScan
    \/ SamePage \/ LoopThrows \/ Poll \/ GremlinsDone \/ GremlinsLate \/ PollThrows
    \/ CountGremlins \/ EndLoop \/ Judge \/ Close

Next ==
    \/ explorationWorker \/ ScanFinds \/ processRequest \/ targetChanged
    \/ PageTimer \/ GremlinsErrorTest \/ ScannerReports \/ Crash

Spec == Init /\ [][Next]_vars

-----------------------------------------------------------------------------
(* Fairness: node goes on with whatever can go on, and its timers fire.    *)
(* Nothing is asked of the gremlins.                                       *)
FairSpec == Spec /\ WF_vars(explorationWorker) /\ WF_vars(PageTimer)

-----------------------------------------------------------------------------
(* Properties.                                                             *)

\* A counter that is a number never counts more than was added, whatever handlers and
\* scans run into each other: a request is tried again only when something was found.
CounterIsSound == requestsAdded.n # NaN => requestsAdded.n <= fresh

\* While a request is explored, the file says that it was tried, and what it lists
\* is still listed: a kill at any moment costs at most what this exploration found.
StartedIsOnDisk ==
    pc \in Exploring \cup {"launch", "login", "exercise", "judge"} =>
        /\ disk.text = "whole" /\ IsPrefix(disk.keys, keys)
        /\ disk.attempts[currentRequest] = attempts[currentRequest]

\* No request is explored more than MAX_NUM_ROUNDS times without anything new being
\* found, however often the crawler is killed and started again.
EffortBounded == \A r \in Requests : fruitless[r] <= MAX_NUM_ROUNDS

\* The crawler comes to an end, or it waits for ever for the gremlins of one page: which
\* takes a counter that is a text or NaN, since a number stops changing, and then a
\* timer ends the wait.
CrawlEnds ==
    \/ <>(pc \in {"over", "dead"})
    \/ <>[](pc = "poll" /\ browser = "up" /\ (requestsAdded.text \/ requestsAdded.n = NaN))
=============================================================================
