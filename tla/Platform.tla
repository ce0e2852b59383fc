------------------------------- MODULE Platform -------------------------------
(***************************************************************************)
(* The reporting platform's record of runs (packages/worker/src/db.ts and  *)
(* routes/ingest.ts): the rows of D1, the ingest handlers that write them, *)
(* the cron reaper, and the status a reader of the dashboard is shown.     *)
(*                                                                         *)
(* One Worker invocation is a Handler.  Every D1 statement is an await, so *)
(* a handler's statements are separate steps and the statements of other   *)
(* handlers, and of the reaper, fall between them.  The rows are kept as   *)
(* functions from row ids; "none" is a row that does not exist yet.        *)
(*                                                                         *)
(* Time enters the code only as "now - last_activity_at", so what is kept  *)
(* is that difference, idle[r], in ticks and saturating one past the       *)
(* threshold: the code compares it with STALE_RUN_MS and nothing else.     *)
(***************************************************************************)
EXTENDS Naturals

CONSTANTS
    Run,          \* ids of run rows
    Scenario,     \* ids of scenario rows
    Handler,      \* concurrent Worker invocations
    NoRun,        \* run_id of a scenario row that does not exist
    NoRequest,    \* what an idle handler holds
    StaleAfter,   \* STALE_RUN_MS in ticks
    LastAttempt,  \* attempts of a scenario are 0..LastAttempt
    MaxRequests   \* bound of a model: requests admitted in a behaviour

ASSUME PlatformAssumption ==
    /\ NoRun \notin Run
    /\ StaleAfter \in Nat
    /\ LastAttempt \in Nat
    /\ MaxRequests \in Nat

VARIABLES
    runStatus,    \* runs.status
    runFinished,  \* runs.finished_at IS NOT NULL
    runReaped,    \* runs.reaped_at IS NOT NULL
    idle,         \* now - last_activity_at
    scRun,        \* scenarios.run_id
    scStatus,     \* scenarios.status
    scSkipped,    \* scenarios.skipped_at IS NOT NULL
    steps,        \* rows of steps, per scenario
    pc,           \* the statement a handler runs next
    req,          \* the request a handler serves
    verdict,      \* finishRun's `status` local, between SELECT and UPDATE
    admitted,     \* requests admitted so far
    unheard,      \* history: ticks since a scenario write of the run was let in
    fresh,        \* history: no scenario row changed since the handler's SELECT
    exact         \* history: none changed since the SELECT behind runs.status

runVars   == <<runStatus, runFinished, runReaped>>
scVars    == <<scRun, scStatus, scSkipped, steps>>
jobVars   == <<pc, req, verdict, fresh>>
clockVars == <<idle, unheard>>
vars == <<runVars, clockVars, scVars, jobVars, admitted, exact>>

(***************************************************************************)
(* Data.  A step row keeps what the reads test: the attempt that produced  *)
(* it and the class of its status ("plain" is passed or failed, "warning"  *)
(* is fixme or fixmepass).                                                 *)
(***************************************************************************)
Attempts  == 0..LastAttempt
StepClass == {"plain", "warning", "pending"}
StepRow   == [attempt : Attempts, class : StepClass]

RunVerdict  == {"passed", "failed"}
RowStatus   == {"none", "running"} \cup RunVerdict

CreateScenarioReq == [op : {"createScenario"}, run : Run, skipped : BOOLEAN]
FinishScenarioReq ==
    [op : {"finishScenario"}, run : Run, scenario : Scenario, status : RunVerdict]
CreateStepReq ==
    [op : {"createStep"}, run : Run, scenario : Scenario, step : StepRow]
FinishRunReq == [op : {"finishRun"}, run : Run]
Request == CreateScenarioReq \cup FinishScenarioReq \cup CreateStepReq
              \cup FinishRunReq

Ticks == 0..(StaleAfter + 1)

Exists(r)      == runStatus[r] # "none"
ScenariosOf(r) == {s \in Scenario : scRun[s] = r}

TypeOK ==
    /\ runStatus \in [Run -> RowStatus]
    /\ runFinished \in [Run -> BOOLEAN]
    /\ runReaped \in [Run -> BOOLEAN]
    /\ idle \in [Run -> Ticks]
    /\ scRun \in [Scenario -> Run \cup {NoRun}]
    /\ scStatus \in [Scenario -> RowStatus]
    /\ scSkipped \in [Scenario -> BOOLEAN]
    /\ steps \in [Scenario -> SUBSET StepRow]
    /\ pc \in [Handler -> {"idle", "touch", "write", "count", "update"}]
    /\ req \in [Handler -> Request \cup {NoRequest}]
    /\ verdict \in [Handler -> RunVerdict]
    /\ admitted \in Nat
    /\ unheard \in [Run -> Ticks]
    /\ fresh \in [Handler -> BOOLEAN]
    /\ exact \in [Run -> BOOLEAN]

-----------------------------------------------------------------------------
(***************************************************************************)
(* Reads: what the dashboard shows.                                        *)
(***************************************************************************)

Stale(r) == idle[r] > StaleAfter

\* deriveStatus: the stored lifecycle, with 'incomplete' computed.
DeriveStatus(r) ==
    IF runReaped[r] \/ (runStatus[r] = "running" /\ ~runFinished[r] /\ Stale(r))
    THEN "incomplete"
    ELSE runStatus[r]

\* Only the steps of a scenario's last attempt colour it.
LatestSteps(s) ==
    {st \in steps[s] : \A other \in steps[s] : other.attempt <= st.attempt}
HasPending(s) == \E st \in LatestSteps(s) : st.class = "pending"
HasWarning(s) == \E st \in LatestSteps(s) : st.class = "warning"

ScenarioDisplay(s) ==
    CASE scSkipped[s]                              -> "skipped"
      [] ~scSkipped[s] /\ scStatus[s] # "passed"   -> scStatus[s]
      [] OTHER -> IF HasPending(s) THEN "incomplete"
                  ELSE IF HasWarning(s) THEN "warning" ELSE "passed"

\* A mutant of the tally that forgets the status of the scenario.
IncompleteWhateverStatus(r) == {s \in ScenariosOf(r) : HasPending(s)}

\* getRun's tallies are live: they count the rows as they are at the read.
LiveIncomplete(r) ==
    {s \in ScenariosOf(r) : scStatus[s] = "passed" /\ HasPending(s)}
LiveWarning(r) ==
    {s \in ScenariosOf(r) :
        scStatus[s] = "passed" /\ HasWarning(s) /\ ~HasPending(s)}

RunDisplay(r) ==
    IF DeriveStatus(r) # "passed" THEN DeriveStatus(r)
    ELSE IF LiveIncomplete(r) # {} THEN "incomplete"
    ELSE IF LiveWarning(r) # {} THEN "warning" ELSE "passed"

-----------------------------------------------------------------------------
(***************************************************************************)
(* Writes.                                                                 *)
(***************************************************************************)

Init ==
    /\ runStatus = [r \in Run |-> "none"]
    /\ runFinished = [r \in Run |-> FALSE]
    /\ runReaped = [r \in Run |-> FALSE]
    /\ idle = [r \in Run |-> 0]
    /\ scRun = [s \in Scenario |-> NoRun]
    /\ scStatus = [s \in Scenario |-> "none"]
    /\ scSkipped = [s \in Scenario |-> FALSE]
    /\ steps = [s \in Scenario |-> {}]
    /\ pc = [h \in Handler |-> "idle"]
    /\ req = [h \in Handler |-> NoRequest]
    /\ verdict = [h \in Handler |-> "failed"]
    /\ admitted = 0
    /\ unheard = [r \in Run |-> 0]
    /\ fresh = [h \in Handler |-> FALSE]
    /\ exact = [r \in Run |-> FALSE]

\* POST runs: one INSERT, which starts the activity clock.
CreateRun(r) ==
    /\ ~Exists(r)
    /\ runStatus' = [runStatus EXCEPT ![r] = "running"]
    /\ idle' = [idle EXCEPT ![r] = 0]
    /\ unheard' = [unheard EXCEPT ![r] = 0]
    /\ UNCHANGED <<runFinished, runReaped, scVars, jobVars, admitted, exact>>

\* What a reporter sends: scenario ids are the ones the platform gave it for
\* that run, and the id of a skipped scenario is never used again.
WellFormed(q) ==
    q.op \in {"finishScenario", "createStep"} =>
        scRun[q.scenario] = q.run /\ ~scSkipped[q.scenario]

\* A mutant: the heartbeat of step uploads is forgotten.
TouchedByScenarios(q) ==
    q.op \in {"createScenario", "finishScenario"} /\ ~runFinished[q.run]

\* touchRun: a run that already finished is not touched (the UPDATE's WHERE).
Touched(q) == ~runFinished[q.run]

\* The run is looked up.
Admit(h, q) ==
    /\ pc[h] = "idle"
    /\ admitted < MaxRequests
    /\ Exists(q.run)
    /\ WellFormed(q)
    /\ admitted' = admitted + 1
    /\ pc' = [pc EXCEPT ![h] = IF q.op = "finishRun" THEN "count" ELSE "touch"]
    /\ req' = [req EXCEPT ![h] = q]
    /\ UNCHANGED <<runVars, clockVars, scVars, verdict, fresh, exact>>

\* The heartbeat of every scenario and step write, before the write itself.
Touch(h) ==
    LET q == req[h] IN
    /\ pc[h] = "touch"
    /\ pc' = [pc EXCEPT ![h] = "write"]
    /\ idle' = IF Touched(q) THEN [idle EXCEPT ![q.run] = 0] ELSE idle
    /\ unheard' = [unheard EXCEPT ![q.run] = 0]
    /\ UNCHANGED <<runVars, scVars, req, verdict, admitted, fresh, exact>>

\* The history variables notice that a scenario row of run r changed.
NoteChange(h, r) ==
    /\ fresh' = [g \in Handler |->
                    IF pc[g] = "update" /\ req[g].run = r THEN FALSE ELSE fresh[g]]
    /\ exact' = [exact EXCEPT ![r] = FALSE]

Done(h) ==
    /\ pc' = [pc EXCEPT ![h] = "idle"]
    /\ req' = [req EXCEPT ![h] = NoRequest]

CreateScenario(h, s) ==
    /\ pc[h] = "write"
    /\ req[h].op = "createScenario"
    /\ scRun[s] = NoRun
    /\ scRun' = [scRun EXCEPT ![s] = req[h].run]
    /\ scStatus' = [scStatus EXCEPT ![s] = "running"]
    /\ scSkipped' = [scSkipped EXCEPT ![s] = req[h].skipped]
    /\ NoteChange(h, req[h].run)
    /\ Done(h)
    /\ UNCHANGED <<runVars, clockVars, steps, verdict, admitted>>

\* PATCH scenarios/<id>: unconditional, whatever the row or its run holds.
FinishScenario(h) ==
    /\ pc[h] = "write"
    /\ req[h].op = "finishScenario"
    /\ scStatus' = [scStatus EXCEPT ![req[h].scenario] = req[h].status]
    /\ NoteChange(h, req[h].run)
    /\ Done(h)
    /\ UNCHANGED <<runVars, clockVars, scRun, scSkipped, steps, verdict, admitted>>

CreateStep(h) ==
    /\ pc[h] = "write"
    /\ req[h].op = "createStep"
    /\ steps' = [steps EXCEPT ![req[h].scenario] = @ \cup {req[h].step}]
    /\ Done(h)
    /\ UNCHANGED <<runVars, clockVars, scRun, scStatus, scSkipped, verdict,
                   fresh, admitted, exact>>

\* A mutant of the verdict: an empty run is green.
VerdictByFailures(r) ==
    IF \E s \in ScenariosOf(r) : scStatus[s] = "failed" THEN "failed" ELSE "passed"

\* finishRun's SELECT and the status it derives from the counts.
VerdictOf(r) ==
    IF (\E s \in ScenariosOf(r) : scStatus[s] = "failed") \/ ScenariosOf(r) = {}
    THEN "failed"
    ELSE "passed"

CountScenarios(h) ==
    /\ pc[h] = "count"
    /\ verdict' = [verdict EXCEPT ![h] = VerdictOf(req[h].run)]
    /\ fresh' = [fresh EXCEPT ![h] = TRUE]
    /\ pc' = [pc EXCEPT ![h] = "update"]
    /\ UNCHANGED <<runVars, clockVars, scVars, req, admitted, exact>>

\* finishRun's UPDATE: by id alone, and it leaves reaped_at as it is.
StoreVerdict(h) ==
    LET r == req[h].run IN
    /\ pc[h] = "update"
    /\ runStatus' = [runStatus EXCEPT ![r] = verdict[h]]
    /\ runFinished' = [runFinished EXCEPT ![r] = TRUE]
    /\ exact' = [exact EXCEPT ![r] = fresh[h]]
    /\ Done(h)
    /\ verdict' = [verdict EXCEPT ![h] = "failed"]
    /\ fresh' = [fresh EXCEPT ![h] = FALSE]
    /\ UNCHANGED <<runReaped, clockVars, scVars, admitted>>

\* A D1 error or an evicted invocation ends a handler between statements.
Abort(h) ==
    /\ pc[h] # "idle"
    /\ Done(h)
    /\ verdict' = [verdict EXCEPT ![h] = "failed"]
    /\ fresh' = [fresh EXCEPT ![h] = FALSE]
    /\ UNCHANGED <<runVars, clockVars, scVars, admitted, exact>>

\* A mutant: the reaper spares a run with a scenario that has not finished.
ReapableWhenSettled(r) ==
    /\ runStatus[r] = "running"
    /\ ~runReaped[r]
    /\ ~runFinished[r]
    /\ \A s \in ScenariosOf(r) : scStatus[s] # "running"
    /\ Stale(r)

\* reapStaleRuns: one UPDATE over every run that matches its WHERE.
Reapable(r) ==
    /\ runStatus[r] = "running"
    /\ ~runReaped[r]
    /\ ~runFinished[r]
    /\ Stale(r)

Reap ==
    /\ \E r \in Run : Reapable(r)
    /\ runReaped' = [r \in Run |-> runReaped[r] \/ Reapable(r)]
    /\ runFinished' = [r \in Run |-> runFinished[r] \/ Reapable(r)]
    /\ UNCHANGED <<runStatus, clockVars, scVars, jobVars, admitted, exact>>

Later(age) == [r \in Run |-> IF age[r] <= StaleAfter THEN age[r] + 1 ELSE age[r]]

Tick ==
    /\ idle' = Later(idle)
    /\ unheard' = Later(unheard)
    /\ UNCHANGED <<runVars, scVars, jobVars, admitted, exact>>

Handle(h) ==
    \/ Touch(h)
    \/ \E s \in Scenario : CreateScenario(h, s)
    \/ FinishScenario(h)
    \/ CreateStep(h)
    \/ CountScenarios(h)
    \/ StoreVerdict(h)

Next ==
    \/ \E r \in Run : CreateRun(r)
    \/ \E h \in Handler, q \in Request : Admit(h, q)
    \/ \E h \in Handler : Handle(h) \/ Abort(h)
    \/ Reap
    \/ Tick

\* Time passes and the cron fires every five minutes.  Nothing says that a
\* client sends a request, or that an invocation that took one completes it.
Fairness == WF_vars(Tick) /\ WF_vars(Reap)

Spec     == Init /\ [][Next]_vars
FairSpec == Spec /\ Fairness

-----------------------------------------------------------------------------
(***************************************************************************)
(* Properties.                                                             *)
(***************************************************************************)

\* finishRun's verdict is the one its scenarios call for ('passed' takes at least
\* one scenario and no failed one), as long as no scenario
\* row of the run changed after its SELECT, however many handlers, aborted
\* finishes and reaps came between.
VerdictIsExact ==
    \A r \in Run : exact[r] =>
        runStatus[r] = IF /\ ScenariosOf(r) # {}
                          /\ \A s \in ScenariosOf(r) : scStatus[s] # "failed"
                       THEN "passed" ELSE "failed"

\* The severity order of types.ts: a run is shown as its worst scenario.
WorstOf(r) ==
    LET shown == {ScenarioDisplay(s) : s \in ScenariosOf(r)} IN
    IF shown = {} \/ "failed" \in shown THEN "failed"
    ELSE IF "incomplete" \in shown THEN "incomplete"
    ELSE IF "warning" \in shown THEN "warning" ELSE "passed"

\* The run's badge, computed by SQL tallies over step rows, and the badges of
\* its scenarios, computed row by row, agree: a finished run that was not
\* reaped shows its worst scenario, also when steps keep arriving after it.
RunShowsWorstScenario ==
    \A r \in Run : exact[r] /\ ~runReaped[r] => RunDisplay(r) = WorstOf(r)

\* The heartbeat: the reaper gives up only on a run none of whose scenario, step or
\* finish-scenario requests got as far as its touch for longer than STALE_RUN_MS.
ReaperTakesOnlySilentRuns ==
    [][\A r \in Run : ~runReaped[r] /\ runReaped'[r] => unheard[r] > StaleAfter]_vars

\* A run that ended, by its verdict or by the reaper, never reads 'running'
\* again, and the reaper's 'incomplete' is never replaced by a late finish.
EndIsFinal ==
    [][\A r \in Run :
         /\ runFinished[r] => RunDisplay(r)' # "running"
         /\ runReaped[r] => RunDisplay(r)' = "incomplete"]_vars

\* The rows, the handlers' statements and the reaper implement the life of a
\* run that clients rely on, however they interleave: opened once, never passed
\* without a scenario, and for ever given up once reaped.
LifeOf(r) ==
    IF ~Exists(r) THEN "none"
    ELSE IF runReaped[r] THEN "given up"
    ELSE IF runFinished[r] THEN runStatus[r] ELSE "open"

Lifecycle == INSTANCE RunLifecycle WITH
    life    <- [r \in Run |-> LifeOf(r)],
    peopled <- [r \in Run |-> ScenariosOf(r) # {}]

ImplementsLifecycle == Lifecycle!Spec

\* A run whose verdict is stored, or that was given up, never goes silent in
\* the 'running' state: every run ends.
EveryRunEnds == \A r \in Run : Exists(r) ~> runFinished[r]

=============================================================================
