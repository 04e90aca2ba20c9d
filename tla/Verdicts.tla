------------------------------ MODULE Verdicts ------------------------------
(***************************************************************************)
(* How POCFactory turns what a POC script returned, and what the database  *)
(* hook logged, into a verdict. No state: PocVerdict runs these decisions  *)
(* against a real script and server, PatchLoop acts on them.               *)
(***************************************************************************)
EXTENDS Integers, Sequences, FiniteSets

CONSTANT LogWindow   \* characters of a log that are compared (200 in the code)

ASSUME LogWindowAssumption == LogWindow \in Nat \ {0}

\* Exit codes of a POC script (0, 1, 2), any other one, and the value that
\* stands for subprocess.TimeoutExpired. (A missing script, -1, and an error of
\* starting one, -3, are treated the same way as a timeout.)
Clean      == 0
Detected   == 1
NoAnswer   == 2
Unexpected == 3
TimedOut   == -2

NoLog == << >>   \* an empty or absent log file is read as None

Min2(a, b) == IF a < b THEN a ELSE b
Max2(a, b) == IF a > b THEN a ELSE b

\* The first characters of a log.
Window(log) == SubSeq(log, 1, Min2(Len(log), LogWindow))

\* Position-by-position agreement of two windows.
Matches(a, b) ==
    Cardinality({i \in 1 .. Min2(Len(a), Len(b)) : a[i] = b[i]})

\* Slip: similarity and difference confused.
DissimilarInverted(pre, post) ==
    Matches(Window(pre), Window(post)) * 100 >= 80 * Max2(Len(Window(pre)), Len(Window(post)))

\* similarity < 80.0, where similarity is matches / longer length, in percent,
\* and 0 when either log is empty.
Dissimilar(pre, post) ==
    LET a == Window(pre)
        b == Window(post)
    IN  \/ pre = NoLog
        \/ post = NoLog
        \/ Matches(a, b) * 100 < 80 * Max2(Len(a), Len(b))

\* run_poc_verification: the status of a script that ended or was killed.
PocStatus(code) == [vulnerable |-> code \notin {Clean, TimedOut}, exit |-> code]

\* verify_pre_patch_vulnerability: the pipeline continues on a detection only.
PreContinues(code) == PocStatus(code).vulnerable /\ code = Detected

\* verify_post_patch_vulnerability: a stored pre-patch log overrides the exit
\* code, by the similarity of the two logs or by the absence of a second one.
PostVerdict(pre, post, code) ==
    IF pre = NoLog THEN PocStatus(code)
    ELSE IF post # NoLog
         THEN IF Dissimilar(pre, post)
              THEN [vulnerable |-> FALSE, exit |-> Clean]
              ELSE [vulnerable |-> TRUE, exit |-> Detected]
    ELSE IF code # NoAnswer THEN [vulnerable |-> FALSE, exit |-> Clean]
    ELSE PocStatus(code)

\* What generate_and_apply_patch_with_factory requires of a verdict.
Accepted(verdict) == ~verdict.vulnerable /\ verdict.exit = Clean
=============================================================================
