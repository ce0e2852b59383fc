------------------------------- MODULE Reporter -------------------------------
(***************************************************************************)
(* The HTTP reporter (HttpReporter, packages/harness/src/reporter.ts): the *)
(* calls a test process makes to the platform, the run they all belong to, *)
(* the retries behind each, flush, and what strict reporting reads.        *)
(*                                                                         *)
(* A report is one round of `fetch`: up to Retries + 1 requests, each      *)
(* answered, refused, lost or answered too late.  A request the reporter   *)
(* gave up on is still on the wire, and the platform may yet apply it.     *)
(* The start of the run is a report too, one that other reports await.     *)
(***************************************************************************)
EXTENDS Naturals, FiniteSets

CONSTANTS
    Call,        \* calls of the reporter's methods
    RunStart,    \* POSTs of the run: as many as ensureRun would start
    NoRun,       \* runIdPromise = null
    Retries      \* REPORT_BACKOFF_MS.length

ASSUME ReporterAssumption ==
    /\ Retries \in Nat
    /\ Call \cap RunStart = {}
    /\ NoRun \notin RunStart
    /\ IsFiniteSet(Call) /\ IsFiniteSet(RunStart)

Report == Call \cup RunStart

VARIABLES
    kind,        \* the method called
    phase,       \* where a report is
    tries,       \* `attempt` of its fetch loop
    memo,        \* runIdPromise
    runOf,       \* the run start a call awaits
    successes,   \* the counters strict mode reads
    failures,
    fatalFailures,
    handoff,     \* run starts whose handoff file was written
    flush,       \* a flush() of the harness
    awaited,     \* the tracked steps it waits for
    earlier,     \* history: every step called before it
    wire,        \* requests in transit, by the try that sent them
    applied      \* how many requests of a report the platform applied

counters == <<successes, failures, fatalFailures>>
flushing == <<flush, awaited, earlier>>
network  == <<wire, applied>>
vars == <<kind, phase, tries, memo, runOf, counters, handoff, flushing, network>>

Kind    == {"startScenario", "skipScenario", "step", "finishScenario", "video"}
Ended   == {"ok", "lost", "refused", "torn", "unnoted", "orphan"}
Pending == {"waiting", "sending", "backoff"}

TypeOK ==
    /\ kind \in [Report -> Kind \cup {"none", "run"}]
    /\ phase \in [Report -> {"new"} \cup Pending \cup Ended]
    /\ tries \in [Report -> 0..Retries]
    /\ memo \in RunStart \cup {NoRun}
    /\ runOf \in [Call -> RunStart \cup {NoRun}]
    /\ successes \in Nat /\ failures \in Nat /\ fatalFailures \in Nat
    /\ handoff \subseteq RunStart
    /\ flush \in {"idle", "waiting", "drained", "overdue"}
    /\ awaited \subseteq Call /\ earlier \subseteq Call
    /\ wire \in [Report -> SUBSET (0..Retries)]
    /\ applied \in [Report -> Nat]

Init ==
    /\ kind = [f \in Report |-> IF f \in RunStart THEN "run" ELSE "none"]
    /\ phase = [f \in Report |-> "new"]
    /\ tries = [f \in Report |-> 0]
    /\ memo = NoRun
    /\ runOf = [c \in Call |-> NoRun]
    /\ successes = 0 /\ failures = 0 /\ fatalFailures = 0
    /\ handoff = {}
    /\ flush = "idle" /\ awaited = {} /\ earlier = {}
    /\ wire = [f \in Report |-> {}]
    /\ applied = [f \in Report |-> 0]

Steps == {c \in Call : kind[c] = "step"}

\* reportingFailed: what strict mode fails the run on.
ReportingFailed == fatalFailures > 0 \/ (failures > 0 /\ successes = 0)

-----------------------------------------------------------------------------
(***************************************************************************)
(* Calls.  Every method first awaits the run, started by whoever comes     *)
(* first.                                                                  *)
(***************************************************************************)

\* ensureRun: start the run and memoize its promise, or await the memoized
\* one, whatever became of it.
EnsureRun(c, r) ==
    /\ IF memo = NoRun THEN phase[r] = "new" ELSE r = memo
    /\ memo' = r
    /\ runOf' = [runOf EXCEPT ![c] = r]
    /\ phase' = [phase EXCEPT ![c] = "waiting",
                              ![r] = IF memo = NoRun THEN "sending" ELSE @]
    /\ wire' = [wire EXCEPT ![r] = IF memo = NoRun THEN {0} ELSE @]

Invoke(c, k, r) ==
    /\ kind[c] = "none"
    /\ kind' = [kind EXCEPT ![c] = k]
    /\ EnsureRun(c, r)
    /\ UNCHANGED <<tries, counters, handoff, flushing, applied>>

\* The run is known (and a step's screenshot encoded, a video read): send.
Proceed(c) ==
    /\ phase[c] = "waiting"
    /\ phase[runOf[c]] = "ok"
    /\ phase' = [phase EXCEPT ![c] = "sending"]
    /\ wire' = [wire EXCEPT ![c] = {0}]
    /\ UNCHANGED <<kind, tries, memo, runOf, counters, handoff, flushing, applied>>

\* The memoized run start had been rejected: the call rejects with it, and
\* no failure is noted but the run's own.
GoWithout(c) ==
    /\ phase[c] = "waiting"
    /\ phase[runOf[c]] \in Ended \ {"ok"}
    /\ phase' = [phase EXCEPT ![c] = "orphan"]
    /\ UNCHANGED <<kind, tries, memo, runOf, counters, handoff, flushing, network>>

\* The file of a video cannot be read: nothing is sent.
Unreadable(c) ==
    /\ phase[c] = "waiting" /\ kind[c] = "video"
    /\ phase[runOf[c]] = "ok"
    /\ phase' = [phase EXCEPT ![c] = "lost"]
    /\ UNCHANGED <<kind, tries, memo, runOf, counters, handoff, flushing, network>>

-----------------------------------------------------------------------------
(***************************************************************************)
(* fetch and attempt.  A video is one request, and touches no counter.     *)
(***************************************************************************)

\* A mutant: every failed attempt is noted, not the report it belongs to.
FailEachAttempt(f, end) ==
    LET again == end = "lost" /\ tries[f] < Retries /\ kind[f] # "video"
        noted == kind[f] # "video" IN
    /\ phase' = [phase EXCEPT ![f] = IF again THEN "backoff" ELSE end]
    /\ failures' = IF noted THEN failures + 1 ELSE failures
    /\ fatalFailures' = IF noted /\ end # "lost" THEN fatalFailures + 1
                                                ELSE fatalFailures
    /\ UNCHANGED successes

\* A mutant: only what no retry can fix is noted.
FailNotingFatal(f, end) ==
    LET again == end = "lost" /\ tries[f] < Retries /\ kind[f] # "video"
        noted == end # "lost" /\ kind[f] # "video" IN
    /\ phase' = [phase EXCEPT ![f] = IF again THEN "backoff" ELSE end]
    /\ failures' = IF noted THEN failures + 1 ELSE failures
    /\ fatalFailures' = IF noted THEN fatalFailures + 1 ELSE fatalFailures
    /\ UNCHANGED successes

\* The request failed: back off while a retry could help and is left, else
\* note the failure, fatal unless it is a mere loss, and reject.
Fail(f, end) ==
    LET again == end = "lost" /\ tries[f] < Retries /\ kind[f] # "video"
        noted == ~again /\ kind[f] # "video" IN
    /\ phase' = [phase EXCEPT ![f] = IF again THEN "backoff" ELSE end]
    /\ failures' = IF noted THEN failures + 1 ELSE failures
    /\ fatalFailures' = IF noted /\ end # "lost" THEN fatalFailures + 1
                                                ELSE fatalFailures
    /\ UNCHANGED successes

\* startRun writes the handoff file before it resolves; a write that fails is
\* ignored.
Succeed(f) ==
    /\ phase' = [phase EXCEPT ![f] = "ok"]
    /\ successes' = IF kind[f] = "video" THEN successes ELSE successes + 1
    /\ UNCHANGED <<failures, fatalFailures>>
    /\ \/ f \in RunStart /\ handoff' = handoff \cup {f}
       \/ UNCHANGED handoff

\* `await response.text()` of an error answer threw: out of attempt and out of
\* fetch, past noteFailure.
Escape(f) ==
    /\ phase' = [phase EXCEPT ![f] = "unnoted"]
    /\ UNCHANGED <<counters, handoff>>

\* A mutant: a 200 whose body is no JSON passes for an answer.
ReactLeniently(f, answer) ==
    CASE answer \in {"ok", "garbled"} -> Succeed(f)
      [] answer = "busy"              -> Fail(f, "lost") /\ UNCHANGED handoff
      [] answer = "tornError"         -> Escape(f)
      [] answer = "tornReply"         -> Fail(f, "torn") /\ UNCHANGED handoff
      [] OTHER                        -> Fail(f, "refused") /\ UNCHANGED handoff

\* How `attempt` classifies an answer: busy is a 5xx or a 429; refused a 3xx or
\* another 4xx; garbled a 200 that is not JSON, to which no video pays heed;
\* torn ones stop after their headers.
React(f, answer) ==
    LET taken == \/ answer = "ok"
                 \/ kind[f] = "video" /\ answer \in {"garbled", "tornReply"} IN
    CASE taken                           -> Succeed(f)
      [] answer = "busy"                 -> Fail(f, "lost") /\ UNCHANGED handoff
      [] answer = "tornError"            -> Escape(f)
      [] answer = "tornReply" /\ ~taken  -> Fail(f, "torn") /\ UNCHANGED handoff
      [] OTHER                           -> Fail(f, "refused") /\ UNCHANGED handoff

\* A request reaches the platform.  An error answer may follow a write that was
\* made; an answer that is lost, or whose request was given up on, is heard by
\* nobody.
Reach(f, n, answer, written) ==
    /\ n \in wire[f]
    /\ answer \in {"ok", "tornReply"} => written
    /\ answer \in {"refused", "garbled"} => ~written
    /\ wire' = [wire EXCEPT ![f] = @ \ {n}]
    /\ applied' = IF written THEN [applied EXCEPT ![f] = @ + 1] ELSE applied
    /\ IF phase[f] = "sending" /\ tries[f] = n /\ answer # "unheard"
       THEN React(f, answer)
       ELSE UNCHANGED <<phase, counters, handoff>>
    /\ UNCHANGED <<kind, tries, memo, runOf, flushing>>

\* A mutant: no AbortSignal; only an error of the connection ends a request.
ExpireUnlessSent(f) ==
    /\ phase[f] = "sending"
    /\ tries[f] \in wire[f]
    /\ Fail(f, "lost")
    /\ UNCHANGED <<kind, tries, memo, runOf, handoff, flushing, network>>

\* The connection failed, or REQUEST_TIMEOUT_MS elapsed.
Expire(f) ==
    /\ phase[f] = "sending"
    /\ Fail(f, "lost")
    /\ UNCHANGED <<kind, tries, memo, runOf, handoff, flushing, network>>

\* REPORT_BACKOFF_MS[attempt] elapsed.
Retry(f) ==
    /\ phase[f] = "backoff"
    /\ phase' = [phase EXCEPT ![f] = "sending"]
    /\ tries' = [tries EXCEPT ![f] = @ + 1]
    /\ wire' = [wire EXCEPT ![f] = @ \cup {tries[f] + 1}]
    /\ UNCHANGED <<kind, memo, runOf, counters, handoff, flushing, applied>>

-----------------------------------------------------------------------------
(***************************************************************************)
(* flush.                                                                  *)
(***************************************************************************)

\* A mutant: a step is tracked from its request on.
TrackedOnceSent == {c \in Steps : phase[c] \in {"sending", "backoff"}}

\* The promises flush takes: a step is tracked from its call until it settles.
Tracked == {c \in Steps : phase[c] \in Pending}

FlushBegins ==
    /\ flush # "waiting"
    /\ flush' = "waiting"
    /\ awaited' = Tracked
    /\ earlier' = Steps
    /\ UNCHANGED <<kind, phase, tries, memo, runOf, counters, handoff, network>>

\* Everything it waits for settled, or FLUSH_BUDGET_MS elapsed.
FlushReturns(drained) ==
    /\ flush = "waiting"
    /\ drained => \A c \in awaited : phase[c] \in Ended
    /\ flush' = IF drained THEN "drained" ELSE "overdue"
    /\ UNCHANGED <<kind, phase, tries, memo, runOf, counters, handoff, awaited, earlier,
                   network>>

-----------------------------------------------------------------------------
Answer == {"ok", "busy", "refused", "garbled", "tornReply", "tornError", "unheard"}

Advance(f) == Expire(f) \/ Retry(f)

Next ==
    \/ \E c \in Call, k \in Kind, r \in RunStart : Invoke(c, k, r)
    \/ \E c \in Call : Proceed(c) \/ GoWithout(c) \/ Unreadable(c)
    \/ \E f \in Report, n \in 0..Retries, a \in Answer, w \in BOOLEAN : Reach(f, n, a, w)
    \/ \E f \in Report : Advance(f)
    \/ FlushBegins
    \/ \E drained \in BOOLEAN : FlushReturns(drained)

\* The process runs on, and its timers fire.  Nothing is assumed of the
\* network or of the platform.
Fairness ==
    /\ \A c \in Call : WF_vars(Proceed(c) \/ GoWithout(c))
    /\ \A f \in Report : WF_vars(Advance(f))

Spec     == Init /\ [][Next]_vars
FairSpec == Spec /\ Fairness

-----------------------------------------------------------------------------
(***************************************************************************)
(* Properties.                                                             *)
(***************************************************************************)

\* A report the harness saw succeed was applied by the platform, and one that
\* needed no retry was applied exactly once.
AcknowledgedIsRecorded ==
    \A f \in Report :
        phase[f] = "ok" /\ kind[f] # "video" =>
            /\ applied[f] >= 1
            /\ tries[f] = 0 => applied[f] = 1

\* However many methods are called before the run is known, the process starts
\* one run, and every call that is sent goes to it.
OneRunPerProcess ==
    \A r1, r2 \in RunStart : phase[r1] # "new" /\ phase[r2] # "new" => r1 = r2

\* Strict mode: red exactly when some report was given up on as beyond repair,
\* or some was lost and none got through.  A blip that a retry clears counts for
\* nothing.
StrictIsExact ==
    LET Counted(p) == {f \in Report : kind[f] # "video" /\ phase[f] = p} IN
    ReportingFailed <=> \/ Counted("refused") \cup Counted("torn") # {}
                        \/ Counted("lost") # {} /\ Counted("ok") = {}

\* Green under strict mode: when every call has settled, one of them counted and
\* strict mode sees nothing wrong, the platform has something of this run,
\* provided no error answer was cut off.
GreenIsRecorded ==
    /\ \A f \in Report : phase[f] \notin Pending \cup {"unnoted"}
    /\ \E c \in Call : kind[c] \notin {"none", "video"}
    /\ ~ReportingFailed
    => \E f \in Report : applied[f] >= 1

\* A flush that did not run out of budget saw every step called before it to
\* its end, also those that were still waiting for the run.
FlushCoversEarlierSteps ==
    flush = "drained" => \A c \in earlier : phase[c] \in Ended

\* Every call settles, whatever the network does.
EveryCallSettles ==
    \A c \in Call : phase[c] = "waiting" ~> phase[c] \in Ended

=============================================================================
