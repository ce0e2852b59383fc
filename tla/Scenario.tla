------------------------------- MODULE Scenario -------------------------------
(***************************************************************************)
(* The scenario runner (packages/harness/src/scenario.ts) in one `bun      *)
(* test` process: the hooks and the walkthrough body of every scenario,    *)
(* the retries, and the module-level variables they all share.             *)
(*                                                                         *)
(* bun runs the scenarios one after another, but a hook or a test that     *)
(* exceeds its timeout is only abandoned: its promise goes on, and what it *)
(* does after its next await lands in the variables of whatever bun runs   *)
(* by then.  So every hook and every invocation of a body is a thread with *)
(* its own program counter, and bun is one more.                           *)
(*                                                                         *)
(* The reporter is seen as its callers see it: startScenario resolves to   *)
(* an id or rejects, finishScenario settles, recordStep returns at once.   *)
(***************************************************************************)
EXTENDS Naturals

CONSTANTS
    Last,          \* the process runs scenarios 1, 2, ..., Last
    Legacy,        \* those in the registrar form: several tests, no retries
    Skipped,       \* those the tier gate excludes
    LastTry,       \* meta.retries; in the registrar form, its last test
    NoId,          \* currentScenarioId = null
    NotTold,       \* a row whose verdict was never sent
    MayTimeOut,    \* a fault: the slots whose timeout may strike
    MayStray,      \* a fault: whether a body may throw outside of its steps
    MaxTimeouts,   \* bound of a model: timeouts in a behaviour
    MaxUnits       \* bound of a model: steps an invocation of a scenario's body calls

ASSUME ScenarioAssumption ==
    /\ Last \in Nat \ {0}
    /\ Legacy \subseteq 1..Last
    /\ Skipped \subseteq 1..Last
    /\ LastTry \in Nat
    /\ NoId \notin 1..Last
    /\ MayTimeOut \subseteq {"before", "test", "after"}
    /\ MayStray \in BOOLEAN
    /\ MaxTimeouts \in Nat

ASSUME UnitsAssumption == MaxUnits \in [1..Last -> Nat]

Scenarios == 1..Last
Body      == Scenarios \X (0..LastTry)   \* one invocation of a test body

VARIABLES
    scenarioId,    \* currentScenarioId
    failures,      \* currentScenarioFailures
    stepSeq,       \* currentScenarioStepSeq
    attempt,       \* currentAttempt
    at,            \* bun: the scenario it runs, Last + 1 once the process exited
    slot,          \* bun: the hook or test it waits for
    try,           \* bun: the invocation of the test it waits for
    outcome,       \* bun: what it prints for the scenario
    before,        \* beforeAll threads
    body,          \* test body threads
    unit,          \* a body's step: its captured sequence, and whether it failed
    called,        \* how many steps a body called
    after,         \* afterAll threads
    rowed,         \* scenarios whose startScenario resolved
    told,          \* the last finishScenario sent for a row
    posted,        \* the steps handed to recordStep
    timeouts       \* timeouts that struck

globals == <<scenarioId, failures, stepSeq, attempt>>
bun     == <<at, slot, try, outcome, timeouts>>
threads == <<before, body, unit, called, after>>
sent    == <<rowed, told, posted>>
vars    == <<globals, bun, threads, sent>>

Verdict    == {"passed", "failed"}
Told == [status : Verdict, attempts : 1..(LastTry + 1), sure : BOOLEAN]
Step == [row : Scenarios, attempt : 0..LastTry, seq : Nat, by : Body, nth : Nat,
         sure : BOOLEAN]

ASSUME NotToldAssumption == NotTold \notin Told

TypeOK ==
    /\ scenarioId \in Scenarios \cup {NoId}
    /\ failures \in Nat /\ stepSeq \in Nat /\ attempt \in 0..LastTry
    /\ at \in 1..(Last + 1)
    /\ slot \in {"next", "before", "test", "after", "skip"}
    /\ try \in 0..LastTry
    /\ outcome \in [Scenarios -> Verdict \cup {"none"}]
    /\ before \in [Scenarios -> {"new", "starting", "setup", "recording",
                                 "finishing", "done", "threw"}]
    /\ body \in [Body -> {"new", "opening", "recording", "free", "running",
                          "shooting", "done", "threw", "strayed"}]
    /\ unit \in [Body -> [seq : Nat, failed : BOOLEAN]]
    /\ called \in [Body -> Nat]
    /\ after \in [Scenarios -> {"new", "closing", "flushing", "finishing", "done"}]
    /\ rowed \subseteq Scenarios
    /\ told \in [Scenarios -> Told \cup {NotTold}]
    /\ posted \subseteq Step
    /\ timeouts \in 0..MaxTimeouts

Init ==
    /\ scenarioId = NoId /\ failures = 0 /\ stepSeq = 0 /\ attempt = 0
    /\ at = 1 /\ slot = "next" /\ try = 0
    /\ outcome = [s \in Scenarios |-> "none"]
    /\ before = [s \in Scenarios |-> "new"]
    /\ body = [b \in Body |-> "new"]
    /\ unit = [b \in Body |-> [seq |-> 0, failed |-> FALSE]]
    /\ called = [b \in Body |-> 0]
    /\ after = [s \in Scenarios |-> "new"]
    /\ rowed = {}
    /\ told = [s \in Scenarios |-> NotTold]
    /\ posted = {}
    /\ timeouts = 0

Running == at <= Last     \* the process has not exited
Settled == timeouts = 0   \* no thread was ever abandoned

-----------------------------------------------------------------------------
(***************************************************************************)
(* Reports.                                                                *)
(***************************************************************************)

\* recordStep, called with the row and the attempt of this very moment.  by and
\* nth are history: which call of which invocation of the body it reports.
Post(b, seq, nth) ==
    posted' = IF scenarioId = NoId THEN posted
              ELSE posted \cup {[row |-> scenarioId, attempt |-> attempt, seq |-> seq,
                                 by |-> b, nth |-> nth, sure |-> Settled]}

\* finishScenario for the current row; with no current row it reaches no row.
Tell(status, attempts, sure) ==
    told' = IF scenarioId = NoId THEN told
            ELSE [told EXCEPT ![scenarioId] =
                    [status |-> status, attempts |-> attempts, sure |-> sure]]

\* recordSetupFailure: count the failure, and record it if there is a row.
RecordSetupFailure(b) ==
    /\ failures' = failures + 1
    /\ stepSeq' = IF scenarioId = NoId THEN stepSeq ELSE stepSeq + 1
    /\ Post(b, stepSeq, 0)

-----------------------------------------------------------------------------
(***************************************************************************)
(* beforeAll.                                                              *)
(***************************************************************************)
BeforeAll ==
    /\ slot = "next" /\ Running /\ at \notin Skipped
    /\ failures' = 0 /\ stepSeq' = 0 /\ attempt' = 0
    /\ before' = [before EXCEPT ![at] = "starting"]
    /\ slot' = "before"
    /\ UNCHANGED <<scenarioId, at, try, outcome, timeouts, body, unit, called, after,
                   sent>>

StartSettles(s, resolved) ==
    /\ before[s] = "starting" /\ Running
    /\ scenarioId' = IF resolved THEN s ELSE NoId
    /\ rowed' = IF resolved THEN rowed \cup {s} ELSE rowed
    /\ before' = [before EXCEPT ![s] = "setup"]
    /\ UNCHANGED <<failures, stepSeq, attempt, bun, body, unit, called, after, told,
                   posted>>

\* meta.setup and, in the registrar form, opening the shared page.
SetupSucceeds(s) ==
    /\ before[s] = "setup" /\ Running
    /\ before' = [before EXCEPT ![s] = "done"]
    /\ UNCHANGED <<globals, bun, body, unit, called, after, sent>>

SetupThrows(s) ==
    /\ before[s] = "setup" /\ Running
    /\ RecordSetupFailure(<<s, 0>>)
    /\ before' = [before EXCEPT ![s] = "recording"]
    /\ UNCHANGED <<scenarioId, attempt, bun, body, unit, called, after, rowed, told>>

\* A mutant: the scenario of a failed setup is left to afterAll.
SetupFailureLeft(s) ==
    /\ before[s] = "recording" /\ Running
    /\ before' = [before EXCEPT ![s] = "threw"]
    /\ UNCHANGED <<globals, bun, body, unit, called, after, sent>>

SetupFailureRecorded(s) ==
    /\ before[s] = "recording" /\ Running
    /\ Tell("failed", 1, Settled)
    /\ before' = [before EXCEPT ![s] = IF scenarioId = NoId THEN "threw" ELSE "finishing"]
    /\ UNCHANGED <<globals, bun, body, unit, called, after, rowed, posted>>

SetupFailureFinished(s) ==
    /\ before[s] = "finishing" /\ Running
    /\ scenarioId' = NoId
    /\ before' = [before EXCEPT ![s] = "threw"]
    /\ UNCHANGED <<failures, stepSeq, attempt, bun, body, unit, called, after, sent>>

-----------------------------------------------------------------------------
(***************************************************************************)
(* The walkthrough body and its steps (step, invariant: runUnit).          *)
(***************************************************************************)

\* A mutant: the counters of the failed attempt are kept.
LaunchKeepingFailures(b) ==
    /\ body' = [body EXCEPT ![b] = IF b[1] \in Legacy THEN "free" ELSE "opening"]
    /\ attempt' = IF b[1] \in Legacy THEN attempt ELSE b[2]
    /\ stepSeq' = IF b[1] \in Legacy THEN stepSeq ELSE 0
    /\ UNCHANGED failures

\* A mutant: the attempt is not bumped.
LaunchKeepingAttempt(b) ==
    /\ body' = [body EXCEPT ![b] = IF b[1] \in Legacy THEN "free" ELSE "opening"]
    /\ failures' = IF b[1] \in Legacy THEN failures ELSE 0
    /\ stepSeq' = IF b[1] \in Legacy THEN stepSeq ELSE 0
    /\ UNCHANGED attempt

\* bun invokes a test.  The wrapper of the body form bumps the attempt and
\* resets the counters; a registrar's tests share them.
Launch(b) ==
    /\ body' = [body EXCEPT ![b] = IF b[1] \in Legacy THEN "free" ELSE "opening"]
    /\ attempt' = IF b[1] \in Legacy THEN attempt ELSE b[2]
    /\ failures' = IF b[1] \in Legacy THEN failures ELSE 0
    /\ stepSeq' = IF b[1] \in Legacy THEN stepSeq ELSE 0

OpenSucceeds(b) ==
    /\ body[b] = "opening" /\ Running
    /\ body' = [body EXCEPT ![b] = "free"]
    /\ UNCHANGED <<globals, bun, before, unit, called, after, sent>>

OpenThrows(b) ==
    /\ body[b] = "opening" /\ Running
    /\ RecordSetupFailure(b)
    /\ body' = [body EXCEPT ![b] = "recording"]
    /\ UNCHANGED <<scenarioId, attempt, bun, before, unit, called, after, rowed, told>>

OpenFailureRecorded(b) ==
    /\ body[b] = "recording" /\ Running
    /\ body' = [body EXCEPT ![b] = "threw"]
    /\ UNCHANGED <<globals, bun, before, unit, called, after, sent>>

\* A unit without a body: recorded at once as pending.
Stub(b) ==
    /\ body[b] = "free" /\ Running /\ called[b] < MaxUnits[b[1]]
    /\ called' = [called EXCEPT ![b] = @ + 1]
    /\ stepSeq' = stepSeq + 1
    /\ Post(b, stepSeq, called[b] + 1)
    /\ UNCHANGED <<scenarioId, failures, attempt, bun, before, body, unit, after, rowed,
                   told>>

CallUnit(b) ==
    /\ body[b] = "free" /\ Running /\ called[b] < MaxUnits[b[1]]
    /\ called' = [called EXCEPT ![b] = @ + 1]
    /\ stepSeq' = stepSeq + 1
    /\ unit' = [unit EXCEPT ![b].seq = stepSeq]
    /\ body' = [body EXCEPT ![b] = "running"]
    /\ UNCHANGED <<scenarioId, failures, attempt, bun, before, after, sent>>

\* The unit's function settles.  A failure is counted here, before the
\* screenshot is awaited; that of a .fixme is none.
UnitSettles(b, failed) ==
    /\ body[b] = "running" /\ Running
    /\ failures' = IF failed THEN failures + 1 ELSE failures
    /\ unit' = [unit EXCEPT ![b].failed = failed]
    /\ body' = [body EXCEPT ![b] = "shooting"]
    /\ UNCHANGED <<scenarioId, stepSeq, attempt, bun, before, called, after, sent>>

\* The screenshot settled: record the step and rethrow what it threw.
RecordUnit(b) ==
    /\ body[b] = "shooting" /\ Running
    /\ Post(b, unit[b].seq, called[b])
    /\ body' = [body EXCEPT ![b] = IF unit[b].failed THEN "threw" ELSE "free"]
    /\ UNCHANGED <<globals, bun, before, unit, called, after, rowed, told>>

BodyReturns(b) ==
    /\ body[b] = "free" /\ Running
    /\ body' = [body EXCEPT ![b] = "done"]
    /\ UNCHANGED <<globals, bun, before, unit, called, after, sent>>

\* The body throws between its steps: a bare expect, a helper, navigation.
BodyStrays(b) ==
    /\ body[b] = "free" /\ Running /\ MayStray
    /\ body' = [body EXCEPT ![b] = "strayed"]
    /\ UNCHANGED <<globals, bun, before, unit, called, after, sent>>

-----------------------------------------------------------------------------
(***************************************************************************)
(* afterAll.  Its last statement, strict reporting's throw, changes the    *)
(* exit code of bun and nothing that is kept here.                         *)
(***************************************************************************)

\* A scenario's last invocation, or any test of a registrar, threw outside of
\* its steps: the harness counted no failure.
Strayed(s) ==
    \E a \in 0..LastTry :
        /\ body[<<s, a>>] = "strayed"
        /\ s \in Legacy \/ a = LastTry \/ body[<<s, a + 1>>] = "new"

\* The page is closed and meta.teardown settled (it never throws out).
Closed(s) ==
    /\ after[s] = "closing" /\ Running
    /\ after' = [after EXCEPT ![s] = IF scenarioId = NoId THEN "done" ELSE "flushing"]
    /\ UNCHANGED <<globals, bun, before, body, unit, called, sent>>

\* flush settled: the verdict is taken from the globals as they are now.
Flushed(s) ==
    /\ after[s] = "flushing" /\ Running
    /\ Tell(IF failures > 0 THEN "failed" ELSE "passed", attempt + 1,
            Settled /\ ~Strayed(s))
    /\ after' = [after EXCEPT ![s] = "finishing"]
    /\ UNCHANGED <<globals, bun, before, body, unit, called, rowed, posted>>

Finished(s) ==
    /\ after[s] = "finishing" /\ Running
    /\ scenarioId' = NoId
    /\ after' = [after EXCEPT ![s] = "done"]
    /\ UNCHANGED <<failures, stepSeq, attempt, bun, before, body, unit, called, sent>>

-----------------------------------------------------------------------------
(***************************************************************************)
(* bun: hooks and tests in order, retries, timeouts.  When beforeAll fails *)
(* it runs neither the tests nor afterAll.                                 *)
(***************************************************************************)
Current == <<at, try>>

NextScenario ==
    /\ at' = at + 1
    /\ slot' = "next"

\* registerSkipped: the report of a skip gets a bounded wait and is never
\* rethrown, so the only outcome is a pass.
RunSkipped ==
    /\ slot = "next" /\ Running /\ at \in Skipped
    /\ slot' = "skip"
    /\ UNCHANGED <<globals, at, try, outcome, timeouts, threads, sent>>

SkipSettles ==
    /\ slot = "skip"
    /\ outcome' = [outcome EXCEPT ![at] = "passed"]
    /\ NextScenario
    /\ UNCHANGED <<globals, try, timeouts, threads, sent>>

\* beforeAll returned: the first invocation of the test.
RunTest ==
    /\ slot = "before" /\ before[at] = "done"
    /\ slot' = "test"
    /\ try' = 0
    /\ Launch(<<at, 0>>)
    /\ UNCHANGED <<scenarioId, at, outcome, timeouts, before, unit, called, after, sent>>

TimesOut(waitedFor, ended) ==
    /\ slot = waitedFor /\ waitedFor \in MayTimeOut
    /\ ~ended
    /\ timeouts < MaxTimeouts
    /\ timeouts' = timeouts + 1

\* beforeAll threw or timed out.
BeforeFails ==
    /\ \/ slot = "before" /\ before[at] = "threw" /\ UNCHANGED timeouts
       \/ TimesOut("before", before[at] \in {"done", "threw"})
    /\ outcome' = [outcome EXCEPT ![at] = "failed"]
    /\ NextScenario
    /\ UNCHANGED <<globals, try, threads, sent>>

Ended == {"done", "threw", "strayed"}

\* How the invocation bun waits for ended, by itself or by its timeout.
TestEnds(passed) ==
    \/ /\ slot = "test"
       /\ body[Current] = "done" /\ passed /\ UNCHANGED timeouts
    \/ /\ slot = "test"
       /\ body[Current] \in Ended \ {"done"} /\ ~passed /\ UNCHANGED timeouts
    \/ TimesOut("test", body[Current] \in Ended) /\ ~passed

\* A failed attempt is retried; a registrar has its next test run.
RunAgain(passed) ==
    /\ TestEnds(passed)
    /\ try < LastTry
    /\ at \in Legacy \/ ~passed
    /\ try' = try + 1
    /\ Launch(<<at, try + 1>>)
    /\ outcome' = IF at \in Legacy /\ ~passed
                  THEN [outcome EXCEPT ![at] = "failed"] ELSE outcome
    /\ UNCHANGED <<scenarioId, at, slot, before, unit, called, after, sent>>

RunAfter(passed) ==
    /\ TestEnds(passed)
    /\ try = LastTry \/ (at \notin Legacy /\ passed)
    /\ outcome' = [outcome EXCEPT ![at] =
                     IF passed /\ @ = "none" THEN "passed" ELSE "failed"]
    /\ slot' = "after"
    /\ after' = [after EXCEPT ![at] = "closing"]
    /\ UNCHANGED <<globals, at, try, before, body, unit, called, sent>>

AfterEnds ==
    /\ \/ slot = "after" /\ after[at] = "done" /\ UNCHANGED timeouts
       \/ TimesOut("after", after[at] = "done")
    /\ NextScenario
    /\ UNCHANGED <<globals, try, outcome, threads, sent>>

\* The process exited, and every abandoned thread with it.
Exited == ~Running /\ UNCHANGED vars

-----------------------------------------------------------------------------
Hook(s) ==
    \/ \E resolved \in BOOLEAN : StartSettles(s, resolved)
    \/ SetupSucceeds(s) \/ SetupThrows(s)
    \/ SetupFailureRecorded(s) \/ SetupFailureFinished(s)
    \/ Closed(s) \/ Flushed(s) \/ Finished(s)

Walk(b) ==
    \/ OpenSucceeds(b) \/ OpenThrows(b) \/ OpenFailureRecorded(b)
    \/ Stub(b) \/ CallUnit(b)
    \/ \E failed \in BOOLEAN : UnitSettles(b, failed)
    \/ RecordUnit(b)
    \/ BodyReturns(b) \/ BodyStrays(b)

Bun ==
    \/ BeforeAll \/ RunTest \/ BeforeFails
    \/ \E passed \in BOOLEAN : RunAgain(passed) \/ RunAfter(passed)
    \/ AfterEnds
    \/ RunSkipped \/ SkipSettles

Next ==
    \/ \E s \in Scenarios : Hook(s)
    \/ \E b \in Body : Walk(b)
    \/ Bun
    \/ Exited

Spec == Init /\ [][Next]_vars

-----------------------------------------------------------------------------
(***************************************************************************)
(* Properties.                                                             *)
(***************************************************************************)

\* Invocations of the test, as the dashboard counts attempts.
Tries(s) ==
    IF s \in Legacy \/ body[<<s, 0>>] = "new" THEN 1
    ELSE CHOOSE n \in 1..(LastTry + 1) :
           /\ body[<<s, n - 1>>] # "new"
           /\ n = LastTry + 1 \/ body[<<s, n>>] = "new"

\* What the platform is told of a scenario is what bun prints for it, with the
\* number of attempts it took, through failed setups, failed attempts and
\* retries, provided the failure was a step's and nothing had timed out.
FaithfulVerdict ==
    \A s \in Scenarios :
        /\ told[s] # NotTold
        /\ told[s].sure
        /\ outcome[s] # "none"
        => /\ told[s].status = outcome[s]
           /\ told[s].attempts = Tries(s)

\* A recorded step carries the row and the attempt of the invocation that ran
\* it: the record is written after awaits, from shared variables.
StepsAreOwn ==
    \A p \in posted :
        p.sure => /\ p.row = p.by[1]
                  /\ p.by[1] \in Legacy \/ p.attempt = p.by[2]

\* Once the process exited every row it opened was given a verdict, whatever
\* failed and however many test bodies were abandoned at their timeout, as
\* long as no hook was.
NoRowLeftRunning ==
    ~Running => \A s \in rowed : told[s] # NotTold

=============================================================================
