---------------------------- MODULE Platform_proofs ----------------------------
(***************************************************************************)
(* Theorems about Platform, for every number of runs, scenarios, handlers  *)
(* and requests.                                                           *)
(***************************************************************************)
EXTENDS Platform, TLAPS

(***************************************************************************)
(* The inductive invariant.  A handler's request names a scenario of its   *)
(* run, so the history variables see every change that can make a count    *)
(* stale; a skipped row keeps its stored 'running'; a run ends only by a   *)
(* verdict or by the reaper; until it ends its two clocks agree.           *)
(***************************************************************************)
JobOK(h) ==
    /\ pc[h] # "idle" => req[h] \in Request
    /\ pc[h] \in {"count", "update"} => req[h].op = "finishRun"
    /\ pc[h] \in {"touch", "write"} => req[h].op # "finishRun" /\ WellFormed(req[h])

FreshVerdict(h) ==
    pc[h] = "update" /\ fresh[h] => verdict[h] = VerdictOf(req[h].run)

SkippedStaysRunning ==
    \A s \in Scenario : scSkipped[s] => scStatus[s] = "running"

EndHasCause ==
    \A r \in Run :
        /\ runFinished[r] => runStatus[r] \in RunVerdict \/ runReaped[r]
        /\ runReaped[r] => runFinished[r] /\ Exists(r)

ClocksAgree == \A r \in Run : ~runFinished[r] => idle[r] = unheard[r]

IInv ==
    /\ TypeOK
    /\ \A h \in Handler : JobOK(h) /\ FreshVerdict(h)
    /\ SkippedStaysRunning
    /\ EndHasCause
    /\ ClocksAgree
    /\ VerdictIsExact

-----------------------------------------------------------------------------
\* The initial rows and idle handlers satisfy the invariant.
LEMMA InitIInv == Init => IInv
<1> SUFFICES ASSUME Init PROVE IInv
    OBVIOUS
<1>1. TypeOK
    BY PlatformAssumption DEF Init, TypeOK, RowStatus, RunVerdict, Ticks
<1>2. \A h \in Handler : JobOK(h) /\ FreshVerdict(h)
    BY DEF Init, JobOK, FreshVerdict
<1>3. SkippedStaysRunning /\ EndHasCause /\ ClocksAgree /\ VerdictIsExact
    BY DEF Init, SkippedStaysRunning, EndHasCause, ClocksAgree, VerdictIsExact
<1> QED
    BY <1>1, <1>2, <1>3 DEF IInv

\* Every step keeps the variables in their types.
LEMMA NextTypeOK == IInv /\ [Next]_vars => TypeOK'
<1> SUFFICES ASSUME IInv, [Next]_vars PROVE TypeOK'
    OBVIOUS
<1> USE DEF IInv, TypeOK, RowStatus, RunVerdict
<1>1. ASSUME NEW r \in Run, CreateRun(r) PROVE TypeOK'
    BY <1>1, PlatformAssumption DEF CreateRun, scVars, jobVars, Ticks
<1>2. ASSUME NEW h \in Handler, NEW q \in Request, Admit(h, q) PROVE TypeOK'
  <2>1. q.run \in Run
    BY DEF Request, CreateScenarioReq, FinishScenarioReq, CreateStepReq, FinishRunReq
  <2>2. QED
    BY <1>2, <2>1, PlatformAssumption DEF Admit, runVars, scVars, clockVars
<1>12. ASSUME NEW h \in Handler, Touch(h) PROVE TypeOK'
  <2>1. 0 \in Ticks
    BY PlatformAssumption DEF Ticks
  <2>2. idle' \in [Run -> Ticks] /\ unheard' \in [Run -> Ticks]
    BY <1>12, <2>1 DEF Touch
  <2> QED
    BY <1>12, <2>2 DEF Touch, runVars, scVars
<1>3. ASSUME NEW h \in Handler, NEW s \in Scenario, CreateScenario(h, s) PROVE TypeOK'
  <2>1. req[h] \in CreateScenarioReq
    BY <1>3 DEF CreateScenario, JobOK, Request, CreateScenarioReq,
                FinishScenarioReq, CreateStepReq, FinishRunReq
  <2>2. req[h].run \in Run /\ req[h].skipped \in BOOLEAN
    BY <2>1 DEF CreateScenarioReq
  <2>3. fresh' \in [Handler -> BOOLEAN]
    BY <1>3 DEF CreateScenario, NoteChange
  <2>4. QED
    BY <1>3, <2>2, <2>3 DEF CreateScenario, NoteChange, Done, runVars, clockVars
<1>4. ASSUME NEW h \in Handler, FinishScenario(h) PROVE TypeOK'
  <2>1. req[h] \in FinishScenarioReq
    BY <1>4 DEF FinishScenario, JobOK, Request, CreateScenarioReq,
                FinishScenarioReq, CreateStepReq, FinishRunReq
  <2>2. req[h].status \in RunVerdict
    BY <2>1 DEF FinishScenarioReq
  <2>3. fresh' \in [Handler -> BOOLEAN]
    BY <1>4 DEF FinishScenario, NoteChange
  <2>4. QED
    BY <1>4, <2>2, <2>3 DEF FinishScenario, NoteChange, Done, runVars, clockVars
<1>5. ASSUME NEW h \in Handler, CreateStep(h) PROVE TypeOK'
  <2>1. req[h] \in CreateStepReq
    BY <1>5 DEF CreateStep, JobOK, Request, CreateScenarioReq,
                FinishScenarioReq, CreateStepReq, FinishRunReq
  <2>2. req[h].scenario \in Scenario /\ req[h].step \in StepRow
    BY <2>1 DEF CreateStepReq
  <2>3. QED
    BY <1>5, <2>2 DEF CreateStep, Done, runVars, clockVars
<1>6. ASSUME NEW h \in Handler, CountScenarios(h) PROVE TypeOK'
    BY <1>6 DEF CountScenarios, VerdictOf, runVars, scVars, clockVars
<1>7. ASSUME NEW h \in Handler, StoreVerdict(h) PROVE TypeOK'
    BY <1>7 DEF StoreVerdict, Done, scVars, clockVars
<1>8. ASSUME NEW h \in Handler, Abort(h) PROVE TypeOK'
    BY <1>8 DEF Abort, Done, runVars, scVars, clockVars
<1>9. CASE Reap
  <2>1. runReaped' \in [Run -> BOOLEAN] /\ runFinished' \in [Run -> BOOLEAN]
    BY <1>9 DEF Reap
  <2>2. QED
    BY <1>9, <2>1 DEF Reap, scVars, jobVars, clockVars
<1>10. CASE Tick
    BY <1>10, PlatformAssumption DEF Tick, Later, Ticks, runVars, scVars, jobVars
<1>11. CASE UNCHANGED vars
    BY <1>11 DEF vars, runVars, clockVars, scVars, jobVars
<1> QED
    BY <1>1, <1>2, <1>3, <1>4, <1>5, <1>6, <1>7, <1>8, <1>9, <1>10, <1>11,
       <1>12
       DEF Next, Handle

\* Handlers keep serving requests that fit the rows, and a fresh count is the
\* verdict the rows call for.
LEMMA NextJobs ==
    IInv /\ [Next]_vars => \A g \in Handler : JobOK(g)' /\ FreshVerdict(g)'
<1> SUFFICES ASSUME IInv, [Next]_vars, NEW g \in Handler
             PROVE  JobOK(g)' /\ FreshVerdict(g)'
    OBVIOUS
<1> USE DEF IInv, TypeOK, JobOK, FreshVerdict
<1>0. \A q \in Request :
        /\ q.run \in Run
        /\ q.op \in {"finishScenario", "createStep"} => q.scenario \in Scenario
        /\ q.op \in {"createScenario", "finishScenario", "createStep", "finishRun"}
    BY DEF Request, CreateScenarioReq, FinishScenarioReq, CreateStepReq, FinishRunReq
<1>1. ASSUME NEW r \in Run, CreateRun(r) PROVE JobOK(g)' /\ FreshVerdict(g)'
    BY <1>1 DEF CreateRun, scVars, jobVars, WellFormed, VerdictOf, ScenariosOf
<1>2. ASSUME NEW h \in Handler, NEW q \in Request, Admit(h, q)
      PROVE  JobOK(g)' /\ FreshVerdict(g)'
    BY <1>0, <1>2 DEF Admit, runVars, scVars, WellFormed, VerdictOf, ScenariosOf
<1>12. ASSUME NEW h \in Handler, Touch(h)
       PROVE  JobOK(g)' /\ FreshVerdict(g)'
    BY <1>0, <1>12 DEF Touch, runVars, scVars, WellFormed, VerdictOf, ScenariosOf
<1>3. ASSUME NEW h \in Handler, NEW s \in Scenario, CreateScenario(h, s)
      PROVE  JobOK(g)' /\ FreshVerdict(g)'
  <2>1. req[h] \in Request /\ req[h].run \in Run
    BY <1>0, <1>3 DEF CreateScenario
  <2>2. JobOK(g)'
    BY <1>0, <1>3, <2>1, PlatformAssumption
       DEF CreateScenario, NoteChange, Done, WellFormed
  <2>3. ASSUME pc'[g] = "update", fresh'[g]
        PROVE  verdict'[g] = VerdictOf(req[g].run)' /\ req'[g] = req[g]
    <3>1. g # h /\ pc[g] = "update" /\ fresh[g] /\ req'[g] = req[g]
      BY <1>3, <2>3 DEF CreateScenario, NoteChange, Done
    <3>2. req[g].run # req[h].run
      BY <1>3, <2>3, <3>1 DEF CreateScenario, NoteChange
    <3>3. ScenariosOf(req[g].run)' = ScenariosOf(req[g].run)
      BY <1>0, <1>3, <2>1, <3>1, <3>2, PlatformAssumption
         DEF CreateScenario, Done, ScenariosOf
    <3>4. \A t \in ScenariosOf(req[g].run) : scStatus'[t] = scStatus[t]
      BY <1>0, <1>3, <3>1, PlatformAssumption DEF CreateScenario, ScenariosOf
    <3>5. VerdictOf(req[g].run)' = VerdictOf(req[g].run)
      BY <3>1, <3>3, <3>4 DEF VerdictOf
    <3>6. verdict' = verdict
      BY <1>3 DEF CreateScenario
    <3> QED
      BY <3>1, <3>5, <3>6
  <2> QED
    BY <2>2, <2>3
<1>4. ASSUME NEW h \in Handler, FinishScenario(h)
      PROVE  JobOK(g)' /\ FreshVerdict(g)'
  <2>1. /\ req[h] \in Request /\ req[h].run \in Run
        /\ req[h].scenario \in Scenario
        /\ scRun[req[h].scenario] = req[h].run
    BY <1>0, <1>4 DEF FinishScenario, WellFormed
  <2>2. JobOK(g)'
    BY <1>0, <1>4, <2>1 DEF FinishScenario, NoteChange, Done, WellFormed
  <2>3. ASSUME pc'[g] = "update", fresh'[g]
        PROVE  verdict'[g] = VerdictOf(req[g].run)' /\ req'[g] = req[g]
    <3>1. g # h /\ pc[g] = "update" /\ fresh[g] /\ req'[g] = req[g]
      BY <1>4, <2>3 DEF FinishScenario, NoteChange, Done
    <3>2. req[g].run # req[h].run
      BY <1>4, <2>3, <3>1 DEF FinishScenario, NoteChange
    <3>3. ScenariosOf(req[g].run)' = ScenariosOf(req[g].run)
      BY <1>4, <3>1 DEF FinishScenario, ScenariosOf
    <3>4. \A t \in ScenariosOf(req[g].run) : scStatus'[t] = scStatus[t]
      BY <1>4, <2>1, <3>2 DEF FinishScenario, ScenariosOf
    <3>5. VerdictOf(req[g].run)' = VerdictOf(req[g].run)
      BY <3>1, <3>3, <3>4 DEF VerdictOf
    <3>6. verdict' = verdict
      BY <1>4 DEF FinishScenario
    <3> QED
      BY <3>1, <3>5, <3>6
  <2> QED
    BY <2>2, <2>3
<1>5. ASSUME NEW h \in Handler, CreateStep(h) PROVE JobOK(g)' /\ FreshVerdict(g)'
    BY <1>0, <1>5 DEF CreateStep, Done, runVars, WellFormed, VerdictOf, ScenariosOf
<1>6. ASSUME NEW h \in Handler, CountScenarios(h)
      PROVE  JobOK(g)' /\ FreshVerdict(g)'
    BY <1>0, <1>6 DEF CountScenarios, scVars, WellFormed, VerdictOf, ScenariosOf
<1>7. ASSUME NEW h \in Handler, StoreVerdict(h)
      PROVE  JobOK(g)' /\ FreshVerdict(g)'
    BY <1>0, <1>7 DEF StoreVerdict, Done, scVars, WellFormed, VerdictOf, ScenariosOf
<1>8. ASSUME NEW h \in Handler, Abort(h) PROVE JobOK(g)' /\ FreshVerdict(g)'
    BY <1>0, <1>8 DEF Abort, Done, runVars, scVars, WellFormed, VerdictOf, ScenariosOf
<1>9. CASE Reap
    BY <1>9 DEF Reap, scVars, jobVars, WellFormed, VerdictOf, ScenariosOf
<1>10. CASE Tick
    BY <1>10 DEF Tick, runVars, scVars, jobVars, WellFormed, VerdictOf, ScenariosOf
<1>11. CASE UNCHANGED vars
    BY <1>11 DEF vars, runVars, scVars, jobVars, WellFormed, VerdictOf, ScenariosOf
<1> QED
    BY <1>1, <1>2, <1>3, <1>4, <1>5, <1>6, <1>7, <1>8, <1>9, <1>10, <1>11,
       <1>12
       DEF Next, Handle

\* The verdict stored with an exact count stays the one the rows call for.
LEMMA NextVerdict == IInv /\ [Next]_vars => VerdictIsExact'
<1> SUFFICES ASSUME IInv, [Next]_vars, NEW r \in Run, exact'[r]
             PROVE  runStatus'[r] = VerdictOf(r)'
    BY DEF VerdictIsExact, VerdictOf
<1> USE DEF IInv, TypeOK
<1>0. /\ exact[r] => runStatus[r] = VerdictOf(r) /\ runStatus[r] \in RunVerdict
      /\ \A q \in Request : q.run \in Run
    BY DEF VerdictIsExact, VerdictOf, RunVerdict, Request, CreateScenarioReq, FinishScenarioReq,
           CreateStepReq, FinishRunReq
<1>1. ASSUME NEW n \in Run, CreateRun(n) PROVE runStatus'[r] = VerdictOf(r)'
    BY <1>0, <1>1 DEF CreateRun, Exists, scVars, RunVerdict, VerdictOf, ScenariosOf
<1>2. ASSUME NEW h \in Handler, NEW q \in Request, Admit(h, q)
      PROVE  runStatus'[r] = VerdictOf(r)'
    BY <1>0, <1>2 DEF Admit, runVars, scVars, VerdictOf, ScenariosOf
<1>12. ASSUME NEW h \in Handler, Touch(h)
       PROVE  runStatus'[r] = VerdictOf(r)'
    BY <1>0, <1>12 DEF Touch, runVars, scVars, VerdictOf, ScenariosOf
<1>3. ASSUME NEW h \in Handler, NEW s \in Scenario, CreateScenario(h, s)
      PROVE  runStatus'[r] = VerdictOf(r)'
  <2>1. req[h].run \in Run /\ scRun' = [scRun EXCEPT ![s] = req[h].run]
    BY <1>0, <1>3 DEF CreateScenario, JobOK
  <2>2. exact[r] /\ req[h].run # r
    BY <1>3, <2>1 DEF CreateScenario, NoteChange
  <2>3. ScenariosOf(r)' = ScenariosOf(r) /\ s \notin ScenariosOf(r)
    BY <1>3, <2>1, <2>2, PlatformAssumption DEF CreateScenario, ScenariosOf
  <2>4. \A t \in ScenariosOf(r) : scStatus'[t] = scStatus[t]
    BY <1>3, <2>3 DEF CreateScenario, ScenariosOf
  <2>5. VerdictOf(r)' = VerdictOf(r)
    BY <2>3, <2>4 DEF VerdictOf
  <2> QED
    BY <1>0, <1>3, <2>2, <2>5 DEF CreateScenario, runVars
<1>4. ASSUME NEW h \in Handler, FinishScenario(h)
      PROVE  runStatus'[r] = VerdictOf(r)'
  <2>1. /\ req[h].run \in Run
        /\ req[h].scenario \in Scenario
        /\ scRun[req[h].scenario] = req[h].run
    BY <1>0, <1>4 DEF FinishScenario, JobOK, WellFormed, Request, CreateScenarioReq,
                      FinishScenarioReq, CreateStepReq, FinishRunReq
  <2>2. exact[r] /\ req[h].run # r
    BY <1>4, <2>1 DEF FinishScenario, NoteChange
  <2>3. ScenariosOf(r)' = ScenariosOf(r)
    BY <1>4 DEF FinishScenario, ScenariosOf
  <2>4. \A t \in ScenariosOf(r) : scStatus'[t] = scStatus[t]
    BY <1>4, <2>1, <2>2 DEF FinishScenario, ScenariosOf
  <2>5. VerdictOf(r)' = VerdictOf(r)
    BY <2>3, <2>4 DEF VerdictOf
  <2> QED
    BY <1>0, <1>4, <2>2, <2>5 DEF FinishScenario, runVars
<1>5. ASSUME NEW h \in Handler, CreateStep(h) PROVE runStatus'[r] = VerdictOf(r)'
    BY <1>0, <1>5 DEF CreateStep, runVars, VerdictOf, ScenariosOf
<1>6. ASSUME NEW h \in Handler, CountScenarios(h) PROVE runStatus'[r] = VerdictOf(r)'
    BY <1>0, <1>6 DEF CountScenarios, runVars, scVars, VerdictOf, ScenariosOf
<1>7. ASSUME NEW h \in Handler, StoreVerdict(h) PROVE runStatus'[r] = VerdictOf(r)'
  <2>1. VerdictOf(r)' = VerdictOf(r)
    BY <1>7 DEF StoreVerdict, scVars, VerdictOf, ScenariosOf
  <2>2. CASE req[h].run = r
    BY <1>7, <2>1, <2>2 DEF StoreVerdict, FreshVerdict
  <2>3. CASE req[h].run # r
    BY <1>0, <1>7, <2>1, <2>3 DEF StoreVerdict
  <2> QED
    BY <2>2, <2>3
<1>8. ASSUME NEW h \in Handler, Abort(h) PROVE runStatus'[r] = VerdictOf(r)'
    BY <1>0, <1>8 DEF Abort, runVars, scVars, VerdictOf, ScenariosOf
<1>9. CASE Reap
    BY <1>0, <1>9 DEF Reap, scVars, jobVars, VerdictOf, ScenariosOf
<1>10. CASE Tick
    BY <1>0, <1>10 DEF Tick, runVars, scVars, jobVars, VerdictOf, ScenariosOf
<1>11. CASE UNCHANGED vars
    BY <1>0, <1>11 DEF vars, runVars, scVars, jobVars, VerdictOf, ScenariosOf
<1> QED
    BY <1>1, <1>2, <1>3, <1>4, <1>5, <1>6, <1>7, <1>8, <1>9, <1>10, <1>11,
       <1>12
       DEF Next, Handle

\* Skipped rows, the causes of an end and the two clocks.
LEMMA NextRows ==
    IInv /\ [Next]_vars => SkippedStaysRunning' /\ EndHasCause' /\ ClocksAgree'
<1> SUFFICES ASSUME IInv, [Next]_vars
             PROVE  SkippedStaysRunning' /\ EndHasCause' /\ ClocksAgree'
    OBVIOUS
<1> DEFINE Goal == SkippedStaysRunning' /\ EndHasCause' /\ ClocksAgree'
<1> USE DEF IInv, TypeOK, SkippedStaysRunning, EndHasCause, ClocksAgree
<1>0. \A q \in Request :
        /\ q.run \in Run
        /\ q.op \in {"createScenario", "finishScenario", "createStep", "finishRun"}
        /\ q.op = "finishScenario" => q.scenario \in Scenario /\ q.status \in RunVerdict
    BY DEF Request, CreateScenarioReq, FinishScenarioReq, CreateStepReq, FinishRunReq
<1>1. ASSUME NEW n \in Run, CreateRun(n) PROVE Goal
    BY <1>1 DEF CreateRun, Exists, scVars, RunVerdict
<1>2. ASSUME NEW h \in Handler, NEW q \in Request, Admit(h, q) PROVE Goal
    BY <1>0, <1>2 DEF Admit, Exists, runVars, scVars, clockVars
<1>12. ASSUME NEW h \in Handler, Touch(h) PROVE Goal
  <2>1. req[h].run \in Run
    BY <1>0, <1>12 DEF Touch, JobOK
  <2> QED
    BY <1>12, <2>1 DEF Touch, Touched, Exists, runVars, scVars
<1>3. ASSUME NEW h \in Handler, NEW s \in Scenario, CreateScenario(h, s) PROVE Goal
    BY <1>3 DEF CreateScenario, Exists, runVars, clockVars
<1>4. ASSUME NEW h \in Handler, FinishScenario(h) PROVE Goal
  <2>1. req[h].scenario \in Scenario /\ ~scSkipped[req[h].scenario]
    BY <1>0, <1>4 DEF FinishScenario, JobOK, WellFormed
  <2> QED
    BY <1>4, <2>1 DEF FinishScenario, Exists, runVars, clockVars
<1>5. ASSUME NEW h \in Handler, CreateStep(h) PROVE Goal
    BY <1>5 DEF CreateStep, Exists, runVars, clockVars
<1>6. ASSUME NEW h \in Handler, CountScenarios(h) PROVE Goal
    BY <1>6 DEF CountScenarios, Exists, runVars, scVars, clockVars
<1>7. ASSUME NEW h \in Handler, StoreVerdict(h) PROVE Goal
  <2>1. req[h].run \in Run /\ verdict[h] \in RunVerdict /\ verdict[h] # "none"
    BY <1>0, <1>7 DEF StoreVerdict, JobOK, RunVerdict
  <2> QED
    BY <1>7, <2>1 DEF StoreVerdict, Exists, scVars, clockVars
<1>8. ASSUME NEW h \in Handler, Abort(h) PROVE Goal
    BY <1>8 DEF Abort, Exists, runVars, scVars, clockVars
<1>9. CASE Reap
    BY <1>9 DEF Reap, Reapable, Exists, scVars, clockVars
<1>10. CASE Tick
    BY <1>10 DEF Tick, Later, Exists, runVars, scVars
<1>11. CASE UNCHANGED vars
    BY <1>11 DEF vars, Exists, runVars, clockVars, scVars
<1> QED
    BY <1>1, <1>2, <1>3, <1>4, <1>5, <1>6, <1>7, <1>8, <1>9, <1>10, <1>11,
       <1>12
       DEF Next, Handle

-----------------------------------------------------------------------------
\* The inductive invariant holds throughout.
THEOREM Invariance == Spec => []IInv
<1>1. IInv /\ [Next]_vars => IInv'
    BY NextTypeOK, NextJobs, NextVerdict, NextRows DEF IInv
<1> QED
    BY InitIInv, <1>1, PTL DEF Spec

\* Every variable keeps its type: in particular no interleaving of handlers
\* stores a run or scenario status the tables' CHECK constraints refuse.
THEOREM TypeCorrect == Spec => []TypeOK
<1>1. IInv => TypeOK
    BY DEF IInv
<1> QED
    BY <1>1, Invariance, PTL

\* finishRun's non-atomic SELECT and UPDATE store the right verdict whenever
\* no scenario row of the run changed since the SELECT.
THEOREM VerdictIsAlwaysExact == Spec => []VerdictIsExact
<1>1. IInv => VerdictIsExact
    BY DEF IInv
<1> QED
    BY <1>1, Invariance, PTL

\* The run's badge and its scenarios' badges agree for any number of scenarios
\* and step rows.
THEOREM BadgesAgree == Spec => []RunShowsWorstScenario
<1>1. ASSUME IInv, NEW r \in Run, exact[r], ~runReaped[r]
      PROVE  RunDisplay(r) = WorstOf(r)
  <2> DEFINE Shown == {ScenarioDisplay(s) : s \in ScenariosOf(r)}
  <2>0. runStatus[r] = VerdictOf(r) /\ DeriveStatus(r) = VerdictOf(r)
    BY <1>1 DEF IInv, VerdictIsExact, DeriveStatus, VerdictOf
  <2>1. \A s \in Scenario :
          /\ ScenarioDisplay(s) = "failed" <=> scStatus[s] = "failed"
          /\ ScenarioDisplay(s) = "incomplete" <=> scStatus[s] = "passed" /\ HasPending(s)
          /\ ScenarioDisplay(s) = "warning"
                <=> scStatus[s] = "passed" /\ HasWarning(s) /\ ~HasPending(s)
    BY <1>1 DEF ScenarioDisplay, IInv, SkippedStaysRunning, TypeOK, RowStatus, RunVerdict
  <2>2. /\ "failed" \in Shown <=> \E s \in ScenariosOf(r) : scStatus[s] = "failed"
        /\ "incomplete" \in Shown <=> LiveIncomplete(r) # {}
        /\ "warning" \in Shown <=> LiveWarning(r) # {}
        /\ Shown = {} <=> ScenariosOf(r) = {}
    BY <2>1 DEF ScenariosOf, LiveIncomplete, LiveWarning
  <2> QED
    BY <2>0, <2>2 DEF RunDisplay, WorstOf, VerdictOf
<1>2. IInv => RunShowsWorstScenario
    BY <1>1 DEF RunShowsWorstScenario
<1> QED
    BY <1>2, Invariance, PTL

\* However heartbeats, reaps and finishes interleave, a run is reaped only
\* after a silence longer than the threshold.
THEOREM HeartbeatHolds == Spec => ReaperTakesOnlySilentRuns
<1>1. ASSUME IInv, [Next]_vars, NEW r \in Run, ~runReaped[r], runReaped'[r]
      PROVE  unheard[r] > StaleAfter
  <2>1. Reap
    BY <1>1 DEF Next, Handle, CreateRun, Admit, Touch, CreateScenario, FinishScenario,
                CreateStep, CountScenarios, StoreVerdict, Abort, Tick, vars, runVars
  <2> QED
    BY <1>1, <2>1 DEF Reap, Reapable, Stale, IInv, TypeOK, ClocksAgree
<1>2. IInv /\ [Next]_vars =>
        [\A r \in Run : ~runReaped[r] /\ runReaped'[r] => unheard[r] > StaleAfter]_vars
    BY <1>1
<1> QED
    BY <1>2, Invariance, PTL DEF Spec, ReaperTakesOnlySilentRuns

\* An ended run stays ended on every screen.
THEOREM EndStaysFinal == Spec => EndIsFinal
<1> DEFINE Final == \A r \in Run :
        /\ runFinished[r] => RunDisplay(r)' # "running"
        /\ runReaped[r] => RunDisplay(r)' = "incomplete"
<1>1. ASSUME IInv, [Next]_vars, IInv' PROVE Final
  <2>1. SUFFICES ASSUME NEW r \in Run, runFinished[r] \/ runReaped[r]
                 PROVE  /\ RunDisplay(r)' # "running"
                        /\ runReaped[r] => RunDisplay(r)' = "incomplete"
    OBVIOUS
  <2>2. /\ runReaped[r] => runReaped'[r]
        /\ runFinished[r] => runFinished'[r]
    BY <1>1 DEF Next, Handle, CreateRun, Admit, Touch, CreateScenario, FinishScenario,
                CreateStep, CountScenarios, StoreVerdict, Abort, Reap, Tick, vars,
                runVars, IInv, TypeOK
  <2>3. runFinished'[r]
    BY <1>1, <2>1, <2>2 DEF IInv, EndHasCause
  <2>4. runReaped'[r] \/ runStatus'[r] \in RunVerdict
    BY <1>1, <2>3 DEF IInv, EndHasCause
  <2>5. DeriveStatus(r)' # "running" /\ (runReaped'[r] => DeriveStatus(r)' = "incomplete")
    BY <2>3, <2>4 DEF DeriveStatus, RunVerdict
  <2> QED
    BY <2>2, <2>5 DEF RunDisplay
<1>2. IInv /\ IInv' /\ [Next]_vars => [Final]_vars
    BY <1>1
<1> QED
    BY <1>2, Invariance, PTL DEF Spec, EndIsFinal

-----------------------------------------------------------------------------
(***************************************************************************)
(* The refinement.  A handler holds the id of a run that exists, and one   *)
(* that decided 'passed' saw a scenario, which is still there: rows are    *)
(* never deleted.                                                          *)
(***************************************************************************)
Grounded(h) ==
    /\ pc[h] # "idle" => Exists(req[h].run)
    /\ pc[h] = "update" /\ verdict[h] = "passed" => ScenariosOf(req[h].run) # {}

AllGrounded == \A h \in Handler : Grounded(h)

\* Every step keeps the handlers grounded.
LEMMA NextGrounded == IInv /\ AllGrounded /\ [Next]_vars => AllGrounded'
<1> SUFFICES ASSUME IInv, AllGrounded, [Next]_vars, NEW g \in Handler
             PROVE  Grounded(g)'
    BY DEF AllGrounded
<1> USE DEF AllGrounded, Grounded, IInv, TypeOK
<1>0. pc[g] # "idle" => req[g].run \in Run
    BY DEF JobOK, Request, CreateScenarioReq, FinishScenarioReq, CreateStepReq, FinishRunReq
<1>1. ASSUME NEW n \in Run, CreateRun(n) PROVE Grounded(g)'
    BY <1>0, <1>1 DEF CreateRun, Exists, ScenariosOf, scVars, jobVars
<1>2. ASSUME NEW h \in Handler, NEW q \in Request, Admit(h, q) PROVE Grounded(g)'
    BY <1>0, <1>2 DEF Admit, Exists, ScenariosOf, runVars, scVars
<1>12. ASSUME NEW h \in Handler, Touch(h) PROVE Grounded(g)'
    BY <1>0, <1>12 DEF Touch, Exists, ScenariosOf, runVars, scVars
<1>3. ASSUME NEW h \in Handler, NEW s \in Scenario, CreateScenario(h, s) PROVE Grounded(g)'
  <2>1. req[h].run \in Run /\ req[h].run # NoRun
    BY <1>3, PlatformAssumption DEF CreateScenario, JobOK, Request, CreateScenarioReq,
                    FinishScenarioReq, CreateStepReq, FinishRunReq
  <2>2. \A r \in Run : ScenariosOf(r) \subseteq ScenariosOf(r)'
    BY <1>3, <2>1, PlatformAssumption DEF CreateScenario, ScenariosOf
  <2>3. runStatus' = runStatus /\ verdict' = verdict
    BY <1>3 DEF CreateScenario, runVars
  <2>4. pc'[g] # "idle" => pc'[g] = pc[g] /\ req'[g] = req[g]
    BY <1>3 DEF CreateScenario, Done
  <2> QED
    BY <1>0, <2>2, <2>3, <2>4 DEF Exists
<1>4. ASSUME NEW h \in Handler, FinishScenario(h) PROVE Grounded(g)'
    BY <1>0, <1>4 DEF FinishScenario, Done, Exists, ScenariosOf, runVars
<1>5. ASSUME NEW h \in Handler, CreateStep(h) PROVE Grounded(g)'
    BY <1>0, <1>5 DEF CreateStep, Done, Exists, ScenariosOf, runVars
<1>6. ASSUME NEW h \in Handler, CountScenarios(h) PROVE Grounded(g)'
    BY <1>0, <1>6 DEF CountScenarios, VerdictOf, Exists, ScenariosOf, runVars, scVars
<1>7. ASSUME NEW h \in Handler, StoreVerdict(h) PROVE Grounded(g)'
    BY <1>0, <1>7 DEF StoreVerdict, Done, Exists, ScenariosOf, scVars, RunVerdict
<1>8. ASSUME NEW h \in Handler, Abort(h) PROVE Grounded(g)'
    BY <1>0, <1>8 DEF Abort, Done, Exists, ScenariosOf, runVars, scVars
<1>9. CASE Reap
    BY <1>0, <1>9 DEF Reap, Exists, ScenariosOf, scVars, jobVars
<1>10. CASE Tick
    BY <1>0, <1>10 DEF Tick, Exists, ScenariosOf, runVars, scVars, jobVars
<1>11. CASE UNCHANGED vars
    BY <1>0, <1>11 DEF vars, Exists, ScenariosOf, runVars, scVars, jobVars
<1> QED
    BY <1>1, <1>2, <1>3, <1>4, <1>5, <1>6, <1>7, <1>8, <1>9, <1>10, <1>11,
       <1>12
       DEF Next, Handle

LifeMap    == [r \in Run |-> LifeOf(r)]
PeopledMap == [r \in Run |-> ScenariosOf(r) # {}]

\* A step that changes no run's life and peoples none is a stutter of RunLifecycle.
LEMMA StepStutters ==
    ASSUME \A r \in Run : LifeOf(r)' = LifeOf(r) /\ ScenariosOf(r)' = ScenariosOf(r)
    PROVE  UNCHANGED <<LifeMap, PeopledMap>>
BY DEF LifeMap, PeopledMap

\* The tables, the handlers and the reaper are an implementation of RunLifecycle.
THEOREM LifecycleImplemented == Spec => ImplementsLifecycle
<1> USE DEF Lifecycle!Life, Lifecycle!Verdict
<1>1. ASSUME Init PROVE Lifecycle!Init
  <2>1. \A r \in Run : LifeOf(r) = "none"
    BY <1>1 DEF Init, LifeOf, Exists
  <2>2. \A r \in Run : (ScenariosOf(r) # {}) = FALSE
    BY <1>1, PlatformAssumption DEF Init, ScenariosOf
  <2> QED
    BY <2>1, <2>2 DEF Lifecycle!Init
<1>2. ASSUME IInv, AllGrounded, [Next]_vars
      PROVE  Lifecycle!Next \/ UNCHANGED <<LifeMap, PeopledMap>>
  <2> USE <1>2 DEF IInv, TypeOK
  <2>0. \A h \in Handler : pc[h] # "idle" => req[h].run \in Run /\ Exists(req[h].run)
    BY DEF AllGrounded, Grounded, JobOK, Request, CreateScenarioReq, FinishScenarioReq,
           CreateStepReq, FinishRunReq
  <2>1. ASSUME NEW n \in Run, CreateRun(n) PROVE Lifecycle!Next
    <3>1. LifeOf(n) = "none" /\ LifeOf(n)' = "open"
      BY <2>1 DEF CreateRun, LifeOf, Exists, EndHasCause, RunVerdict
    <3>2. \A r \in Run : r # n => LifeOf(r)' = LifeOf(r)
      BY <2>1 DEF CreateRun, LifeOf, Exists
    <3>3. PeopledMap' = PeopledMap
      BY <2>1 DEF CreateRun, PeopledMap, ScenariosOf, scVars
    <3>4. LifeMap' = [LifeMap EXCEPT ![n] = "open"] /\ LifeMap[n] = "none"
      BY <3>1, <3>2 DEF LifeMap
    <3> QED
      BY <3>3, <3>4 DEF Lifecycle!Next, Lifecycle!Open, LifeMap, PeopledMap
  <2>2. ASSUME NEW h \in Handler, NEW s \in Scenario, CreateScenario(h, s)
        PROVE Lifecycle!Next
    <3>0. PICK n \in Run : n = req[h].run
      BY <2>0, <2>2 DEF CreateScenario
    <3>1. n \in Run /\ Exists(n) /\ n # NoRun
      BY <2>0, <2>2, <3>0, PlatformAssumption DEF CreateScenario
    <3>2. LifeMap' = LifeMap /\ LifeMap[n] # "none"
      <4>1. UNCHANGED runVars
        BY <2>2 DEF CreateScenario
      <4>2. LifeMap' = LifeMap
        BY <4>1 DEF LifeMap, LifeOf, Exists, runVars
      <4>3. LifeOf(n) # "none"
        BY <3>1 DEF LifeOf, Exists
      <4> QED
        BY <3>1, <4>2, <4>3 DEF LifeMap
    <3>3. s \in ScenariosOf(n)'
      BY <2>2, <3>0, <3>1 DEF CreateScenario, ScenariosOf
    <3>4. \A r \in Run : r # n => ScenariosOf(r)' = ScenariosOf(r)
      BY <2>2, <3>0, <3>1, PlatformAssumption DEF CreateScenario, ScenariosOf
    <3>5. PeopledMap' = [PeopledMap EXCEPT ![n] = TRUE]
      BY <3>1, <3>3, <3>4 DEF PeopledMap
    <3> QED
      BY <3>1, <3>2, <3>5 DEF Lifecycle!Next, Lifecycle!Feed, LifeMap, PeopledMap
  <2>3. ASSUME NEW h \in Handler, StoreVerdict(h)
        PROVE Lifecycle!Next \/ UNCHANGED <<LifeMap, PeopledMap>>
    <3>0. PICK n \in Run : n = req[h].run
      BY <2>0, <2>3 DEF StoreVerdict
    <3>1. n \in Run /\ Exists(n)
      BY <2>0, <2>3, <3>0 DEF StoreVerdict
    <3>2. verdict[h] \in RunVerdict /\ (verdict[h] = "passed" => ScenariosOf(n) # {})
      BY <2>3, <3>0 DEF StoreVerdict, AllGrounded, Grounded
    <3>3. \A r \in Run : r # n => LifeOf(r)' = LifeOf(r)
      BY <2>3, <3>0 DEF StoreVerdict, LifeOf, Exists
    <3>4. PeopledMap' = PeopledMap
      BY <2>3 DEF StoreVerdict, PeopledMap, ScenariosOf, scVars
    <3>5. LifeOf(n)' = IF runReaped[n] THEN "given up" ELSE verdict[h]
      BY <2>3, <3>0, <3>1, <3>2 DEF StoreVerdict, LifeOf, Exists, RunVerdict
    <3>6. CASE runReaped[n]
      <4>1. LifeOf(n) = "given up"
        BY <3>1, <3>6 DEF LifeOf
      <4>2. LifeMap' = LifeMap
        BY <3>3, <3>5, <3>6, <4>1 DEF LifeMap
      <4> QED
        BY <3>4, <4>2
    <3>7. CASE ~runReaped[n]
      <4>1. LifeOf(n) \in {"open", "passed", "failed"}
        BY <3>1, <3>7 DEF LifeOf, EndHasCause, RunVerdict
      <4>2. LifeMap' = [LifeMap EXCEPT ![n] = verdict[h]]
        BY <3>1, <3>3, <3>5, <3>7 DEF LifeMap
      <4>3. LifeMap[n] \in {"open", "passed", "failed"} /\ PeopledMap[n] = (ScenariosOf(n) # {})
        BY <3>1, <4>1 DEF LifeMap, PeopledMap
      <4> QED
        BY <3>1, <3>2, <3>4, <4>2, <4>3
           DEF Lifecycle!Next, Lifecycle!Close, LifeMap, PeopledMap, RunVerdict
    <3> QED
      BY <3>6, <3>7
  <2>4. CASE Reap
    <3> DEFINE gone == {r \in Run : Reapable(r)}
    <3>1. gone \in SUBSET Run /\ \A r \in gone : LifeOf(r) = "open"
      BY DEF Reapable, LifeOf, Exists
    <3>2. \A r \in Run : LifeOf(r)' = IF r \in gone THEN "given up" ELSE LifeOf(r)
      BY <2>4 DEF Reap, Reapable, LifeOf, Exists
    <3>3. PeopledMap' = PeopledMap
      BY <2>4 DEF Reap, PeopledMap, ScenariosOf, scVars
    <3>4. LifeMap' = [r \in Run |-> IF r \in gone THEN "given up" ELSE LifeMap[r]]
      BY <3>2 DEF LifeMap
    <3>5. \A r \in gone : LifeMap[r] = "open"
      BY <3>1 DEF LifeMap
    <3> HIDE DEF gone
    <3> QED
      BY <3>1, <3>3, <3>4, <3>5 DEF Lifecycle!Next, Lifecycle!GiveUp, LifeMap, PeopledMap
  <2>5. ASSUME \/ \E h \in Handler, q \in Request : Admit(h, q)
               \/ \E h \in Handler : Touch(h) \/ FinishScenario(h) \/ CreateStep(h)
                                       \/ CountScenarios(h) \/ Abort(h)
               \/ Tick
               \/ UNCHANGED vars
        PROVE  UNCHANGED <<LifeMap, PeopledMap>>
    <3>1. UNCHANGED <<runVars, scRun>>
      BY <2>5 DEF Admit, Touch, FinishScenario, CreateStep, CountScenarios, Abort, Tick, vars, scVars
    <3> QED
      BY <3>1, StepStutters DEF LifeOf, Exists, ScenariosOf, runVars
  <2> QED
    BY <2>1, <2>2, <2>3, <2>4, <2>5 DEF Next, Handle
<1>3. IInv /\ AllGrounded /\ [Next]_vars => [Lifecycle!Next]_<<LifeMap, PeopledMap>>
    BY <1>2
<1>4. Init => AllGrounded
    BY DEF Init, AllGrounded, Grounded
<1>5. Spec => []AllGrounded
    BY <1>4, NextGrounded, Invariance, PTL DEF Spec
<1> QED
    BY <1>1, <1>3, <1>5, Invariance, PTL
       DEF Spec, ImplementsLifecycle, Lifecycle!Spec, LifeMap, PeopledMap

\* What RunLifecycle promises of every implementation, and so of the rows: a run that
\* never had a scenario does not pass, whichever finishes and writes interleave.
THEOREM EmptyRunsNeverPass ==
    Spec => [](\A r \in Run : LifeOf(r) = "passed" => ScenariosOf(r) # {})
<1> DEFINE Promise == \A r \in Run : LifeMap[r] = "passed" => PeopledMap[r]
<1>1. Lifecycle!Init => Promise
  BY DEF Lifecycle!Init, LifeMap, PeopledMap
<1>2. Promise /\ [Lifecycle!Next]_<<LifeMap, PeopledMap>> => Promise'
  <2> SUFFICES ASSUME Promise, [Lifecycle!Next]_<<LifeMap, PeopledMap>>, NEW r \in Run,
                      LifeMap'[r] = "passed"
               PROVE  PeopledMap'[r]
    OBVIOUS
  <2>1. CASE \E n \in Run : Lifecycle!Open(n)
    <3>1. LifeMap[r] = "passed" /\ PeopledMap' = PeopledMap
      BY <2>1 DEF Lifecycle!Open, LifeMap, PeopledMap
    <3> QED
      BY <3>1
  <2>2. CASE \E n \in Run : Lifecycle!Feed(n)
    <3>1. PICK n \in Run : /\ LifeMap' = LifeMap
                           /\ PeopledMap' = [PeopledMap EXCEPT ![n] = TRUE]
      BY <2>2 DEF Lifecycle!Feed, LifeMap, PeopledMap
    <3>2. DOMAIN PeopledMap = Run
      BY DEF PeopledMap
    <3> QED
      BY <3>1, <3>2
  <2>3. CASE \E n \in Run, v \in Lifecycle!Verdict : Lifecycle!Close(n, v)
    <3>1. PICK n \in Run, v \in Lifecycle!Verdict :
              /\ v = "passed" => PeopledMap[n]
              /\ LifeMap' = [LifeMap EXCEPT ![n] = v] /\ PeopledMap' = PeopledMap
      BY <2>3 DEF Lifecycle!Close, LifeMap, PeopledMap
    <3>2. DOMAIN LifeMap = Run
      BY DEF LifeMap
    <3> QED
      BY <3>1, <3>2
  <2>4. CASE \E gone \in SUBSET Run : Lifecycle!GiveUp(gone)
    <3>1. LifeMap[r] = "passed" /\ PeopledMap' = PeopledMap
      BY <2>4 DEF Lifecycle!GiveUp, LifeMap, PeopledMap
    <3> QED
      BY <3>1
  <2>5. CASE UNCHANGED <<LifeMap, PeopledMap>>
    BY <2>5
  <2> QED
    BY <2>1, <2>2, <2>3, <2>4, <2>5 DEF Lifecycle!Next
<1>3. Promise => \A r \in Run : LifeOf(r) = "passed" => ScenariosOf(r) # {}
  BY DEF LifeMap, PeopledMap
<1> HIDE DEF Promise
<1> QED
  BY <1>1, <1>2, <1>3, LifecycleImplemented, PTL
     DEF ImplementsLifecycle, Lifecycle!Spec, LifeMap, PeopledMap

=============================================================================
