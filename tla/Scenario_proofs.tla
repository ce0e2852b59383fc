---------------------------- MODULE Scenario_proofs ----------------------------
(***************************************************************************)
(* Theorems about Scenario, for any number of scenarios, retries and steps *)
(* and any choice of legacy and skipped scenarios.                         *)
(***************************************************************************)
EXTENDS Scenario, TLAPS

(***************************************************************************)
(* Where bun is in a scenario that it has not left yet.                    *)
(***************************************************************************)
Awaiting == {"starting", "setup", "recording", "finishing"}
Closing  == {"closing", "flushing", "finishing"}

\* As long as hooks do not time out, bun and the hooks go in step: a hook that
\* is under way is the one bun waits for.
HooksInStep ==
    /\ slot # "next" => at \in Scenarios
    /\ \A s \in Scenarios :
         /\ before[s] \in Awaiting => at = s /\ slot = "before"
         /\ after[s] \in Closing => at = s /\ slot = "after"
         /\ s > at \/ (s = at /\ slot \in {"next", "skip"})
            => before[s] = "new" /\ after[s] = "new"
         /\ s = at /\ slot \in {"before", "test"} => after[s] = "new"
         /\ s = at /\ slot = "before" => before[s] # "new"
         /\ s = at /\ slot \in {"test", "after"} => before[s] = "done"
         /\ s = at /\ slot = "after" => after[s] # "new"

\* A row without a verdict is the current one, on its way to a finishScenario.
OnItsWay(s) ==
    /\ at = s /\ scenarioId = s
    /\ \/ slot = "before" /\ before[s] \in {"setup", "recording", "done"}
       \/ slot = "test"
       \/ slot = "after" /\ after[s] \in {"closing", "flushing"}

RowsOnTheirWay == \A s \in rowed : told[s] = NotTold => OnItsWay(s)

BunOK == slot # "next" => at \in Scenarios
TInv  == TypeOK /\ BunOK
IInv  == TypeOK /\ HooksInStep /\ RowsOnTheirWay

-----------------------------------------------------------------------------
\* The initial state is typed.
LEMMA InitTInv == Init => TInv
BY ScenarioAssumption
   DEF Init, TInv, TypeOK, BunOK, Scenarios, Body, Verdict

\* recordStep posts typed steps.
LEMMA PostTyped ==
    ASSUME TypeOK, NEW b \in Body, NEW q \in Nat, NEW n \in Nat, Post(b, q, n)
    PROVE  posted' \subseteq Step
<1> DEFINE p == [row |-> scenarioId, attempt |-> attempt, seq |-> q, by |-> b,
                 nth |-> n, sure |-> Settled]
<1>1. Settled \in BOOLEAN
    BY DEF Settled
<1>2. scenarioId # NoId => p \in Step
    BY <1>1 DEF TypeOK, Step
<1>3. posted' = IF scenarioId = NoId THEN posted ELSE posted \cup {p}
    BY DEF Post
<1> QED
    BY <1>2, <1>3 DEF TypeOK

\* finishScenario tells typed verdicts.
LEMMA TellTyped ==
    ASSUME TypeOK, NEW v \in Verdict, NEW n \in 1..(LastTry + 1), NEW t \in BOOLEAN,
           Tell(v, n, t)
    PROVE  told' \in [Scenarios -> Told \cup {NotTold}]
BY DEF TypeOK, Tell, Told

\* Every step of every thread, and of bun, keeps the variables in their types.
LEMMA NextTInv == TInv /\ [Next]_vars => TInv'
<1> SUFFICES ASSUME TInv, [Next]_vars PROVE TInv'
    OBVIOUS
<1> USE ScenarioAssumption DEF TInv, BunOK
<1>1. ASSUME NEW s \in Scenarios, Hook(s) PROVE TInv'
  <2> USE DEF Running
  <2>1. ASSUME NEW r \in BOOLEAN, StartSettles(s, r) PROVE TInv'
    BY <2>1 DEF StartSettles, TypeOK, bun
  <2>2. CASE SetupSucceeds(s)
    BY <2>2 DEF SetupSucceeds, TypeOK, bun, globals, sent
  <2>3. CASE SetupThrows(s)
    <3>1. <<s, 0>> \in Body /\ stepSeq \in Nat /\ Post(<<s, 0>>, stepSeq, 0)
      BY <2>3 DEF SetupThrows, RecordSetupFailure, Body, TypeOK
    <3>2. posted' \subseteq Step
      BY <3>1, PostTyped
    <3> QED
      BY <2>3, <3>2 DEF SetupThrows, RecordSetupFailure, TypeOK, bun
  <2>4. CASE SetupFailureRecorded(s)
    <3>1. Tell("failed", 1, Settled)
      BY <2>4 DEF SetupFailureRecorded
    <3>2. "failed" \in Verdict /\ 1 \in 1..(LastTry + 1) /\ Settled \in BOOLEAN
      BY DEF Verdict, Settled
    <3>3. told' \in [Scenarios -> Told \cup {NotTold}]
      BY <3>1, <3>2, TellTyped
    <3> QED
      BY <2>4, <3>3 DEF SetupFailureRecorded, TypeOK, bun, globals
  <2>5. CASE SetupFailureFinished(s)
    BY <2>5 DEF SetupFailureFinished, TypeOK, bun, sent
  <2>6. CASE Closed(s)
    BY <2>6 DEF Closed, TypeOK, bun, globals, sent
  <2>7. CASE Flushed(s)
    <3>1. told' \in [Scenarios -> Told \cup {NotTold}]
      <4> DEFINE v == IF failures > 0 THEN "failed" ELSE "passed"
                 t == Settled /\ ~Strayed(s)
      <4>1. Tell(v, attempt + 1, t)
        BY <2>7 DEF Flushed
      <4>2. v \in Verdict /\ attempt + 1 \in 1..(LastTry + 1) /\ t \in BOOLEAN
        BY DEF Verdict, TypeOK
      <4> HIDE DEF v, t
      <4> QED
        BY <4>1, <4>2, TellTyped
    <3> QED
      BY <2>7, <3>1 DEF Flushed, TypeOK, bun, globals
  <2>8. CASE Finished(s)
    BY <2>8 DEF Finished, TypeOK, bun, sent
  <2> QED
    BY <1>1, <2>1, <2>2, <2>3, <2>4, <2>5, <2>6, <2>7, <2>8 DEF Hook
<1>2. ASSUME NEW b \in Body, Walk(b) PROVE TInv'
  <2> USE DEF Running
  <2>1. CASE OpenSucceeds(b)
    BY <2>1 DEF OpenSucceeds, TypeOK, bun, globals, sent
  <2>2. CASE OpenThrows(b)
    <3>1. posted' \subseteq Step
      BY <2>2, PostTyped DEF OpenThrows, RecordSetupFailure, TypeOK
    <3> QED
      BY <2>2, <3>1 DEF OpenThrows, RecordSetupFailure, TypeOK, bun
  <2>3. CASE OpenFailureRecorded(b)
    BY <2>3 DEF OpenFailureRecorded, TypeOK, bun, globals, sent
  <2>4. CASE Stub(b)
    <3>1. posted' \subseteq Step
      BY <2>4, PostTyped DEF Stub, TypeOK
    <3> QED
      BY <2>4, <3>1 DEF Stub, TypeOK, bun
  <2>5. CASE CallUnit(b)
    BY <2>5 DEF CallUnit, TypeOK, bun, sent
  <2>6. ASSUME NEW f \in BOOLEAN, UnitSettles(b, f) PROVE TInv'
    BY <2>6 DEF UnitSettles, TypeOK, bun, sent
  <2>7. CASE RecordUnit(b)
    <3>1. posted' \subseteq Step
      BY <2>7, PostTyped DEF RecordUnit, TypeOK
    <3> QED
      BY <2>7, <3>1 DEF RecordUnit, TypeOK, bun, globals
  <2>8. CASE BodyReturns(b)
    BY <2>8 DEF BodyReturns, TypeOK, bun, globals, sent
  <2>9. CASE BodyStrays(b)
    BY <2>9 DEF BodyStrays, TypeOK, bun, globals, sent
  <2> QED
    BY <1>2, <2>1, <2>2, <2>3, <2>4, <2>5, <2>6, <2>7, <2>8, <2>9 DEF Walk
<1>3. CASE Bun
  <2> USE DEF Running, Scenarios
  <2>1. CASE BeforeAll
    BY <2>1 DEF BeforeAll, TypeOK, sent
  <2>2. CASE RunTest
    BY <2>2 DEF RunTest, Launch, TypeOK, sent, Body
  <2>3. CASE BeforeFails
    BY <2>3 DEF BeforeFails, TimesOut, NextScenario, TypeOK, Verdict, globals, threads,
                sent
  <2>4. ASSUME NEW p \in BOOLEAN, RunAgain(p) PROVE TInv'
    <3>1. slot = "test" /\ timeouts' \in 0..MaxTimeouts
      BY <2>4 DEF RunAgain, TestEnds, TimesOut, TypeOK
    <3>2. try' \in 0..LastTry /\ <<at, try + 1>> \in Body
      BY <2>4, <3>1 DEF RunAgain, TypeOK, Body
    <3>3. /\ body' = [body EXCEPT ![<<at, try + 1>>] =
                        IF at \in Legacy THEN "free" ELSE "opening"]
          /\ attempt' \in 0..LastTry /\ failures' \in Nat /\ stepSeq' \in Nat
      BY <2>4, <3>2 DEF RunAgain, Launch, TypeOK, Body
    <3>4. outcome' \in [Scenarios -> Verdict \cup {"none"}]
      BY <2>4 DEF RunAgain, TypeOK, Verdict
    <3>5. UNCHANGED <<scenarioId, at, slot, before, unit, called, after, sent>>
      BY <2>4 DEF RunAgain
    <3> QED
      BY <3>1, <3>2, <3>3, <3>4, <3>5 DEF TypeOK, sent
  <2>5. ASSUME NEW p \in BOOLEAN, RunAfter(p) PROVE TInv'
    BY <2>5 DEF RunAfter, TestEnds, TimesOut, TypeOK, Verdict, globals, sent
  <2>6. CASE AfterEnds
    BY <2>6 DEF AfterEnds, TimesOut, NextScenario, TypeOK, globals, threads, sent
  <2>7. CASE RunSkipped
    BY <2>7 DEF RunSkipped, TypeOK, globals, threads, sent
  <2>8. CASE SkipSettles
    BY <2>8 DEF SkipSettles, NextScenario, TypeOK, Verdict, globals, threads, sent
  <2> QED
    BY <1>3, <2>1, <2>2, <2>3, <2>4, <2>5, <2>6, <2>7, <2>8 DEF Bun
<1>4. CASE UNCHANGED vars
    BY <1>4 DEF TypeOK, vars, globals, bun, threads, sent
<1> QED
    BY <1>1, <1>2, <1>3, <1>4 DEF Next, Exited

-----------------------------------------------------------------------------
NoHookTimesOut == MayTimeOut \subseteq {"test"}

\* The initial state: nothing is under way.
LEMMA InitIInv == Init => IInv
<1> SUFFICES ASSUME Init PROVE IInv
    OBVIOUS
<1>1. TypeOK
    BY InitTInv DEF TInv
<1>2. HooksInStep /\ RowsOnTheirWay
    BY DEF Init, HooksInStep, RowsOnTheirWay, Awaiting, Closing, Scenarios
<1> QED
    BY <1>1, <1>2 DEF IInv

\* Hooks keep in step with bun, since bun leaves a hook only when it ended.
LEMMA NextHooks ==
    ASSUME NoHookTimesOut \/ timeouts' = 0, TypeOK, HooksInStep, [Next]_vars
    PROVE  HooksInStep'
<1> USE ScenarioAssumption DEF HooksInStep, Awaiting, Closing
<1>1. ASSUME NEW s \in Scenarios, Hook(s) PROVE HooksInStep'
  <2>0. at' = at /\ slot' = slot
    BY <1>1 DEF Hook, StartSettles, SetupSucceeds, SetupThrows, SetupFailureRecorded,
                SetupFailureFinished, Closed, Flushed, Finished, bun
  <2>1. \/ /\ before[s] \in Awaiting /\ after' = after
           /\ \E x \in Awaiting \cup {"done", "threw"} :
                before' = [before EXCEPT ![s] = x]
        \/ /\ after[s] \in Closing /\ before' = before
           /\ \E x \in Closing \cup {"done"} : after' = [after EXCEPT ![s] = x]
    BY <1>1 DEF Hook, StartSettles, SetupSucceeds, SetupThrows, SetupFailureRecorded,
                SetupFailureFinished, Closed, Flushed, Finished
  <2> QED
    BY <2>0, <2>1 DEF TypeOK
<1>2. ASSUME NEW b \in Body, Walk(b) PROVE HooksInStep'
  <2>1. UNCHANGED <<at, slot, before, after>>
    BY <1>2 DEF Walk, OpenSucceeds, OpenThrows, OpenFailureRecorded, Stub, CallUnit,
                UnitSettles, RecordUnit, BodyReturns, BodyStrays, bun
  <2> QED
    BY <2>1
<1>3. CASE Bun
  <2> USE DEF Running, Scenarios, TypeOK
  <2>1. CASE BeforeAll
    BY <2>1 DEF BeforeAll
  <2>2. CASE RunTest
    BY <2>2 DEF RunTest
  <2>3. CASE BeforeFails
    <3>1. slot = "before" /\ before[at] = "threw"
      BY <2>3 DEF BeforeFails, TimesOut, NoHookTimesOut, TypeOK
    <3> QED
      BY <2>3, <3>1 DEF BeforeFails, NextScenario, threads
  <2>4. ASSUME NEW p \in BOOLEAN, RunAgain(p) PROVE HooksInStep'
    BY <2>4 DEF RunAgain
  <2>5. ASSUME NEW p \in BOOLEAN, RunAfter(p) PROVE HooksInStep'
    BY <2>5 DEF RunAfter, TestEnds, TimesOut
  <2>6. CASE AfterEnds
    <3>1. slot = "after" /\ after[at] = "done"
      BY <2>6 DEF AfterEnds, TimesOut, NoHookTimesOut, TypeOK
    <3> QED
      BY <2>6, <3>1 DEF AfterEnds, NextScenario, threads
  <2>7. CASE RunSkipped
    BY <2>7 DEF RunSkipped, threads
  <2>8. CASE SkipSettles
    BY <2>8 DEF SkipSettles, NextScenario, threads
  <2> QED
    BY <1>3, <2>1, <2>2, <2>3, <2>4, <2>5, <2>6, <2>7, <2>8 DEF Bun
<1>4. CASE UNCHANGED vars
    BY <1>4 DEF vars, bun, threads
<1> QED
    BY <1>1, <1>2, <1>3, <1>4 DEF Next, Exited

\* The row has its verdict, and every other row keeps what it had.
RowTold(row) ==
    \A s \in Scenarios : IF s = row THEN told'[s] # NotTold ELSE told'[s] = told[s]

\* finishScenario gives the current row its verdict and no other row one.
LEMMA TellTells ==
    ASSUME TypeOK, NEW status \in Verdict, NEW n \in 1..(LastTry + 1),
           NEW sure \in BOOLEAN, Tell(status, n, sure)
    PROVE  RowTold(scenarioId)
<1> DEFINE t == [status |-> status, attempts |-> n, sure |-> sure]
<1>1. t \in Told
    BY DEF Told
<1>2. t # NotTold
    BY <1>1, NotToldAssumption
<1>3. told' = IF scenarioId = NoId THEN told ELSE [told EXCEPT ![scenarioId] = t]
    BY DEF Tell
<1> HIDE DEF t
<1> QED
    BY <1>2, <1>3, ScenarioAssumption DEF RowTold, TypeOK, Scenarios

\* The current row stays current until it is told: whoever clears or replaces
\* currentScenarioId is the hook that bun waits for.
LEMMA NextRows == NoHookTimesOut /\ IInv /\ [Next]_vars => RowsOnTheirWay'
<1> SUFFICES ASSUME NoHookTimesOut, IInv, [Next]_vars PROVE RowsOnTheirWay'
    OBVIOUS
<1> USE ScenarioAssumption, NotToldAssumption
    DEF IInv, HooksInStep, Awaiting, Closing, RowsOnTheirWay, OnItsWay
<1>1. ASSUME NEW s \in Scenarios, Hook(s) PROVE RowsOnTheirWay'
  <2>1. ASSUME NEW r \in BOOLEAN, StartSettles(s, r) PROVE RowsOnTheirWay'
    BY <2>1 DEF StartSettles, TypeOK, bun
  <2>2. CASE SetupSucceeds(s)
    BY <2>2 DEF SetupSucceeds, TypeOK, bun, globals, sent
  <2>3. CASE SetupThrows(s)
    BY <2>3 DEF SetupThrows, TypeOK, bun
  <2>4. CASE SetupFailureRecorded(s)
    <3>1. Tell("failed", 1, Settled)
      BY <2>4 DEF SetupFailureRecorded
    <3>2. "failed" \in Verdict /\ 1 \in 1..(LastTry + 1) /\ Settled \in BOOLEAN
      BY DEF Verdict, Settled
    <3>3. RowTold(scenarioId)
      BY <3>1, <3>2, TellTells
    <3> QED
      BY <2>4, <3>3 DEF SetupFailureRecorded, RowTold, TypeOK, bun, globals
  <2>5. CASE SetupFailureFinished(s)
    BY <2>5 DEF SetupFailureFinished, TypeOK, bun, sent
  <2>6. CASE Closed(s)
    BY <2>6 DEF Closed, Scenarios, TypeOK, bun, globals, sent
  <2>7. CASE Flushed(s)
    <3> DEFINE v == IF failures > 0 THEN "failed" ELSE "passed"
               t == Settled /\ ~Strayed(s)
    <3>1. Tell(v, attempt + 1, t)
      BY <2>7 DEF Flushed
    <3>2. v \in Verdict /\ attempt + 1 \in 1..(LastTry + 1) /\ t \in BOOLEAN
      BY DEF Verdict, TypeOK
    <3> HIDE DEF v, t
    <3>3. RowTold(scenarioId)
      BY <3>1, <3>2, TellTells
    <3> QED
      BY <2>7, <3>3 DEF Flushed, RowTold, TypeOK, bun, globals
  <2>8. CASE Finished(s)
    BY <2>8 DEF Finished, TypeOK, bun, sent
  <2> QED
    BY <1>1, <2>1, <2>2, <2>3, <2>4, <2>5, <2>6, <2>7, <2>8 DEF Hook
<1>2. ASSUME NEW b \in Body, Walk(b) PROVE RowsOnTheirWay'
  <2>1. UNCHANGED <<at, slot, scenarioId, before, after, rowed, told>>
    BY <1>2 DEF Walk, OpenSucceeds, OpenThrows, OpenFailureRecorded, Stub, CallUnit,
                UnitSettles, RecordUnit, BodyReturns, BodyStrays, bun, globals, sent
  <2> QED
    BY <2>1
<1>3. CASE Bun
  <2> USE DEF Running, Scenarios, TypeOK
  <2>1. CASE BeforeAll
    BY <2>1 DEF BeforeAll, sent
  <2>2. CASE RunTest
    BY <2>2 DEF RunTest, sent
  <2>3. CASE BeforeFails
    <3>1. slot = "before" /\ before[at] = "threw"
      BY <2>3 DEF BeforeFails, TimesOut, NoHookTimesOut, TypeOK
    <3> QED
      BY <2>3, <3>1 DEF BeforeFails, NextScenario, threads, sent
  <2>4. ASSUME NEW p \in BOOLEAN, RunAgain(p) PROVE RowsOnTheirWay'
    BY <2>4 DEF RunAgain, TestEnds, TimesOut, sent
  <2>5. ASSUME NEW p \in BOOLEAN, RunAfter(p) PROVE RowsOnTheirWay'
    BY <2>5 DEF RunAfter, TestEnds, TimesOut, globals, sent
  <2>6. CASE AfterEnds
    <3>1. slot = "after" /\ after[at] = "done"
      BY <2>6 DEF AfterEnds, TimesOut, NoHookTimesOut, TypeOK
    <3> QED
      BY <2>6, <3>1 DEF AfterEnds, NextScenario, threads, sent
  <2>7. CASE RunSkipped
    BY <2>7 DEF RunSkipped, threads, sent
  <2>8. CASE SkipSettles
    BY <2>8 DEF SkipSettles, NextScenario, threads, sent
  <2> QED
    BY <1>3, <2>1, <2>2, <2>3, <2>4, <2>5, <2>6, <2>7, <2>8 DEF Bun
<1>4. CASE UNCHANGED vars
    BY <1>4 DEF vars, bun, globals, threads, sent
<1> QED
    BY <1>1, <1>2, <1>3, <1>4 DEF Next, Exited

-----------------------------------------------------------------------------
(***************************************************************************)
(* Invocations of a test are launched in order, under their own scenario,  *)
(* and a scenario has no outcome before its test.                          *)
(***************************************************************************)
Tested == slot \in {"test", "after"}

LaunchOrder ==
    /\ slot # "next" => at \in Scenarios
    /\ \A s \in Scenarios :
         /\ s > at \/ (s = at /\ ~Tested) =>
                outcome[s] = "none" /\ \A a \in 0..LastTry : body[<<s, a>>] = "new"
         /\ s = at /\ Tested => \A a \in 0..LastTry : body[<<s, a>>] # "new" <=> a <= try

(***************************************************************************)
(* As long as nothing has timed out, the row, the attempt and the body     *)
(* that runs are those of the scenario bun is in.                          *)
(***************************************************************************)
RowInStep ==
    /\ scenarioId \in {at, NoId}
    /\ \/ slot \in {"next", "skip"}
       \/ slot = "before" /\ before[at] \in {"starting", "threw"}
       \/ slot = "after" /\ after[at] = "done"
       => scenarioId = NoId
    /\ slot = "before" => attempt = 0
    /\ Tested => attempt = IF at \in Legacy THEN 0 ELSE try

BodyInStep == \A b \in Body : body[b] \in {"new"} \cup Ended \/ (b = Current /\ slot = "test")

\* The invocations that decide about the scenario bun is in.
Judged == IF at \in Legacy THEN 0..try ELSE {try}

\* The failure of an invocation that was counted: its page, or one of its steps.
Counted(b) == body[b] \in {"recording", "threw"} \/ (body[b] = "shooting" /\ unit[b].failed = TRUE)

\* What the harness counts and what bun takes down.
ScoreInStep ==
    /\ slot = "before" /\ before[at] \in {"starting", "setup", "done"} => failures = 0
    /\ Tested => (failures > 0 <=> \E a \in Judged : Counted(<<at, a>>))
    /\ slot = "test" =>
         outcome[at] = IF \E a \in Judged \ {try} : body[<<at, a>>] # "done"
                       THEN "failed" ELSE "none"
    /\ slot = "after" =>
         outcome[at] = IF \E a \in Judged : body[<<at, a>>] # "done"
                       THEN "failed" ELSE "passed"

(***************************************************************************)
(* A verdict that is sure stays what it was when it was told, whatever     *)
(* times out later.                                                        *)
(***************************************************************************)
TookTries(s, n) ==
    IF s \in Legacy \/ body[<<s, 0>>] = "new" THEN n = 1
    ELSE \A a \in 0..LastTry : body[<<s, a>>] # "new" <=> a < n

Sure(s) == told[s] # NotTold /\ told[s].sure

\* Where such a scenario is.
Decided(s) ==
    \/ /\ s < at \/ (s = at /\ slot = "after" /\ after[s] \in {"finishing", "done"})
       /\ told[s].status = outcome[s]
    \/ /\ s = at /\ slot = "before" /\ before[s] \in {"finishing", "threw"}
       /\ told[s].status = "failed"

SureVerdicts ==
    \A s \in Scenarios : Sure(s) => TookTries(s, told[s].attempts) /\ Decided(s)

InStep == HooksInStep /\ RowInStep /\ BodyInStep /\ ScoreInStep

VInv == TypeOK /\ LaunchOrder /\ (Settled => InStep) /\ SureVerdicts /\ StepsAreOwn

\* What stays of the invocations under any step of a body: only the body's own
\* progress, which neither begins nor goes on after its end.
LEMMA WalkMoves ==
    ASSUME TypeOK, NEW b \in Body, Walk(b)
    PROVE  /\ UNCHANGED <<scenarioId, attempt, bun, before, after, rowed, told>>
           /\ body[b] \notin {"new"} \cup Ended /\ body'[b] # "new"
           /\ \A c \in Body \ {b} : body'[c] = body[c] /\ unit'[c] = unit[c]
BY DEF Walk, OpenSucceeds, OpenThrows, OpenFailureRecorded, Stub, CallUnit, UnitSettles,
       RecordUnit, BodyReturns, BodyStrays, RecordSetupFailure, TypeOK, Ended, globals, sent

\* A failure of an invocation is counted when it happens, and once.
LEMMA WalkCounts ==
    ASSUME TypeOK, NEW b \in Body, Walk(b)
    PROVE  \/ failures' = failures /\ (Counted(b)' <=> Counted(b))
           \/ failures' = failures + 1 /\ Counted(b)'
<1> USE DEF TypeOK, Counted
<1>1. CASE OpenSucceeds(b)
  BY <1>1 DEF OpenSucceeds, globals
<1>2. CASE OpenThrows(b)
  BY <1>2 DEF OpenThrows, RecordSetupFailure
<1>3. CASE OpenFailureRecorded(b)
  BY <1>3 DEF OpenFailureRecorded, globals
<1>4. CASE Stub(b)
  BY <1>4 DEF Stub
<1>5. CASE CallUnit(b)
  BY <1>5 DEF CallUnit
<1>6. ASSUME NEW f \in BOOLEAN, UnitSettles(b, f)
      PROVE  \/ failures' = failures /\ (Counted(b)' <=> Counted(b))
             \/ failures' = failures + 1 /\ Counted(b)'
  <2>1. body[b] = "running" /\ body'[b] = "shooting" /\ unit'[b].failed = f
    BY <1>6 DEF UnitSettles
  <2> QED
    BY <1>6, <2>1 DEF UnitSettles
<1>7. CASE RecordUnit(b)
  BY <1>7 DEF RecordUnit, globals
<1>8. CASE BodyReturns(b)
  BY <1>8 DEF BodyReturns, globals
<1>9. CASE BodyStrays(b)
  BY <1>9 DEF BodyStrays, globals
<1> QED
  BY <1>1, <1>2, <1>3, <1>4, <1>5, <1>6, <1>7, <1>8, <1>9 DEF Walk

\* What a hook leaves alone.
LEMMA HookMoves ==
    ASSUME NEW s \in Scenarios, Hook(s)
    PROVE  UNCHANGED <<attempt, bun, body, unit, called>>
BY DEF Hook, StartSettles, SetupSucceeds, SetupThrows, SetupFailureRecorded,
       SetupFailureFinished, Closed, Flushed, Finished, RecordSetupFailure, globals

LEMMA InitVInv == Init => VInv
<1> SUFFICES ASSUME Init PROVE VInv
    OBVIOUS
<1>1. TypeOK
    BY InitTInv DEF TInv
<1>2. HooksInStep
    BY InitIInv DEF IInv
<1>3. /\ at = 1 /\ slot = "next" /\ scenarioId = NoId /\ posted = {}
      /\ \A b \in Body : body[b] = "new"
      /\ \A s \in Scenarios : outcome[s] = "none" /\ told[s] = NotTold
    BY DEF Init
<1>4. LaunchOrder /\ RowInStep /\ BodyInStep /\ ScoreInStep /\ SureVerdicts /\ StepsAreOwn
    BY <1>3 DEF LaunchOrder, Tested, RowInStep, BodyInStep, ScoreInStep, SureVerdicts, Sure,
                StepsAreOwn, Body
<1> QED
    BY <1>1, <1>2, <1>4 DEF VInv, InStep

\* bun's first test of a scenario.
LEMMA RunTestLaunches ==
    ASSUME TypeOK, LaunchOrder, RunTest
    PROVE  LaunchOrder'
<1>1. /\ slot = "before" /\ slot' = "test" /\ try' = 0 /\ UNCHANGED <<at, outcome>>
      /\ at \in Nat /\ Scenarios \subseteq Nat /\ at \in Scenarios /\ 0 \in 0..LastTry
  BY ScenarioAssumption DEF RunTest, LaunchOrder, TypeOK, Scenarios
<1>2. \A b \in Body : body'[b] # "new" <=> body[b] # "new" \/ b = <<at, 0>>
  BY <1>1 DEF RunTest, Launch, TypeOK, Body
<1>3. \A s \in Scenarios, a \in 0..LastTry : s >= at => body[<<s, a>>] = "new"
  <2>1. \A s \in Scenarios : s >= at => s > at \/ s = at
    BY <1>1
  <2> QED
    BY <1>1, <2>1 DEF LaunchOrder, Tested
<1>4. ASSUME NEW s \in Scenarios, s > at, NEW a \in 0..LastTry PROVE body'[<<s, a>>] = "new"
  <2>1. <<s, a>> \in Body /\ s # at /\ s >= at
    BY <1>1, <1>4 DEF Body
  <2> QED
    BY <1>2, <1>3, <2>1
<1>5. ASSUME NEW a \in 0..LastTry PROVE body'[<<at, a>>] # "new" <=> a <= 0
  <2>1. <<at, a>> \in Body /\ (a <= 0 <=> a = 0) /\ at >= at
    BY <1>1, ScenarioAssumption DEF Body
  <2> QED
    BY <1>1, <1>2, <1>3, <2>1
<1> QED
  BY <1>1, <1>4, <1>5 DEF LaunchOrder, Tested

\* Its next one.
LEMMA RunAgainLaunches ==
    ASSUME TypeOK, LaunchOrder, NEW passed \in BOOLEAN, RunAgain(passed)
    PROVE  LaunchOrder'
<1>1. /\ slot = "test" /\ slot' = "test" /\ try' = try + 1 /\ at' = at /\ try + 1 \in 0..LastTry
      /\ at \in Nat /\ Scenarios \subseteq Nat /\ at \in Scenarios /\ try \in Nat
  BY ScenarioAssumption DEF RunAgain, TestEnds, TimesOut, LaunchOrder, TypeOK, Scenarios
<1>2. \A b \in Body : body'[b] # "new" <=> body[b] # "new" \/ b = <<at, try + 1>>
  BY <1>1 DEF RunAgain, Launch, TypeOK, Body
<1>3. \A s \in Scenarios : s > at => outcome'[s] = outcome[s]
  BY <1>1 DEF RunAgain, TypeOK
<1>4. ASSUME NEW s \in Scenarios, s > at, NEW a \in 0..LastTry PROVE body'[<<s, a>>] = "new"
  <2>1. <<s, a>> \in Body /\ s # at
    BY <1>1, <1>4 DEF Body
  <2> QED
    BY <1>2, <1>4, <2>1 DEF LaunchOrder
<1>5. ASSUME NEW a \in 0..LastTry PROVE body'[<<at, a>>] # "new" <=> a <= try + 1
  <2>1. <<at, a>> \in Body /\ (a <= try + 1 <=> a <= try \/ a = try + 1)
    BY <1>1, ScenarioAssumption DEF Body
  <2>2. body[<<at, a>>] # "new" <=> a <= try
    BY <1>1 DEF LaunchOrder, Tested
  <2> QED
    BY <1>2, <2>1, <2>2
<1> QED
  BY <1>1, <1>3, <1>4, <1>5 DEF LaunchOrder, Tested

\* bun alone launches tests and takes down outcomes.
LEMMA NextLaunch ==
    ASSUME TypeOK, LaunchOrder, [Next]_vars
    PROVE  LaunchOrder'
<1> USE ScenarioAssumption DEF LaunchOrder, Tested
<1>1. ASSUME NEW s \in Scenarios, Hook(s) PROVE LaunchOrder'
  BY <1>1, HookMoves DEF bun
<1>2. ASSUME NEW b \in Body, Walk(b) PROVE LaunchOrder'
  <2>1. UNCHANGED <<at, slot, try, outcome>>
    BY <1>2, WalkMoves DEF bun
  <2>2. \A c \in Body : body'[c] = "new" <=> body[c] = "new"
    BY <1>2, WalkMoves
  <2> QED
    BY <2>1, <2>2 DEF Body
<1>3. CASE Bun
  <2> USE DEF Running, Scenarios, TypeOK, Body
  <2>1. CASE BeforeAll
    BY <2>1 DEF BeforeAll
  <2>2. CASE RunTest
    BY <2>2, RunTestLaunches
  <2>3. CASE BeforeFails
    <3>1. slot = "before" /\ at' = at + 1 /\ slot' = "next" /\ body' = body
      BY <2>3 DEF BeforeFails, TimesOut, NextScenario, threads
    <3>2. \A s \in Scenarios : s > at => outcome'[s] = outcome[s]
      BY <2>3 DEF BeforeFails
    <3> QED
      BY <3>1, <3>2
  <2>4. ASSUME NEW p \in BOOLEAN, RunAgain(p) PROVE LaunchOrder'
    BY <2>4, RunAgainLaunches
  <2>5. ASSUME NEW p \in BOOLEAN, RunAfter(p) PROVE LaunchOrder'
    <3>1. slot = "test" /\ slot' = "after" /\ UNCHANGED <<at, try, body>>
      BY <2>5 DEF RunAfter, TestEnds, TimesOut
    <3>2. \A s \in Scenarios : s > at => outcome'[s] = outcome[s]
      BY <2>5 DEF RunAfter
    <3> QED
      BY <3>1, <3>2
  <2>6. CASE AfterEnds
    BY <2>6 DEF AfterEnds, TimesOut, NextScenario, threads
  <2>7. CASE RunSkipped
    BY <2>7 DEF RunSkipped, threads
  <2>8. CASE SkipSettles
    BY <2>8 DEF SkipSettles, NextScenario, threads
  <2> QED
    BY <1>3, <2>1, <2>2, <2>3, <2>4, <2>5, <2>6, <2>7, <2>8 DEF Bun
<1>4. CASE UNCHANGED vars
  BY <1>4 DEF vars, bun, threads
<1> QED
  BY <1>1, <1>2, <1>3, <1>4 DEF Next, Exited

-----------------------------------------------------------------------------
(***************************************************************************)
(* Nothing has timed out yet: the shared variables are the current         *)
(* scenario's.                                                             *)
(***************************************************************************)

\* Hooks set the row and clear it; they are the one bun waits for.
LEMMA HookInStep ==
    ASSUME VInv, Settled, InStep, NEW s \in Scenarios, Hook(s)
    PROVE  RowInStep' /\ BodyInStep' /\ ScoreInStep'
<1>1. UNCHANGED <<attempt, at, slot, try, outcome, body, unit>>
  BY HookMoves DEF bun
<1>2. BodyInStep'
  BY <1>1 DEF InStep, BodyInStep, Current
<1>3. /\ before[s] \in Awaiting => at = s /\ slot = "before"
      /\ after[s] \in Closing => at = s /\ slot = "after"
  BY DEF InStep, HooksInStep
<1>4. RowInStep'
  <2> USE <1>1, <1>3 DEF InStep, RowInStep, Tested, Awaiting, Closing, VInv, TypeOK
  <2>1. ASSUME NEW r \in BOOLEAN, StartSettles(s, r) PROVE RowInStep'
    BY <2>1 DEF StartSettles
  <2>2. CASE SetupSucceeds(s)
    BY <2>2 DEF SetupSucceeds, globals
  <2>3. CASE SetupThrows(s)
    BY <2>3 DEF SetupThrows
  <2>4. CASE SetupFailureRecorded(s)
    BY <2>4 DEF SetupFailureRecorded, globals
  <2>5. CASE SetupFailureFinished(s)
    BY <2>5 DEF SetupFailureFinished
  <2>6. CASE Closed(s)
    BY <2>6 DEF Closed, globals
  <2>7. CASE Flushed(s)
    BY <2>7 DEF Flushed, globals
  <2>8. CASE Finished(s)
    BY <2>8 DEF Finished
  <2> QED
    BY <2>1, <2>2, <2>3, <2>4, <2>5, <2>6, <2>7, <2>8 DEF Hook
<1>5. ScoreInStep'
  <2>1. \/ failures' = failures /\ (before'[at] \in {"starting", "setup", "done"} =>
                                      before[at] \in {"starting", "setup", "done"} \/ slot # "before")
        \/ slot = "before" /\ before'[at] = "recording"
    <3> USE <1>3 DEF Awaiting, Closing, VInv, TypeOK
    <3>1. CASE SetupThrows(s)
      BY <3>1 DEF SetupThrows
    <3>2. CASE SetupFailureRecorded(s) \/ SetupFailureFinished(s)
      BY <3>2 DEF SetupFailureRecorded, SetupFailureFinished, globals
    <3>3. CASE SetupSucceeds(s) \/ \E r \in BOOLEAN : StartSettles(s, r)
      BY <3>3 DEF SetupSucceeds, StartSettles, globals
    <3>4. CASE Closed(s) \/ Flushed(s) \/ Finished(s)
      BY <3>4 DEF Closed, Flushed, Finished, globals
    <3> QED
      BY <3>1, <3>2, <3>3, <3>4 DEF Hook
  <2> QED
    BY <1>1, <2>1 DEF InStep, ScoreInStep, Tested, Judged, Counted
<1> QED
  BY <1>2, <1>4, <1>5

\* A body that goes on is the one bun waits for.
LEMMA WalkInStep ==
    ASSUME VInv, Settled, InStep, NEW b \in Body, Walk(b)
    PROVE  RowInStep' /\ BodyInStep' /\ ScoreInStep'
<1>0. TypeOK
  BY DEF VInv
<1>1. /\ UNCHANGED <<scenarioId, attempt, at, slot, try, outcome, before, after>>
      /\ \A c \in Body \ {b} : body'[c] = body[c] /\ unit'[c] = unit[c]
  BY <1>0, WalkMoves DEF bun
<1>2. b = <<at, try>> /\ slot = "test" /\ at \in Scenarios
  BY <1>0, WalkMoves DEF InStep, BodyInStep, Current, VInv, LaunchOrder
<1>3. RowInStep'
  BY <1>1 DEF InStep, RowInStep, Tested
<1>4. BodyInStep'
  BY <1>1, <1>2 DEF InStep, BodyInStep, Current
<1>5. ScoreInStep'
  <2>1. Judged \subseteq 0..LastTry /\ try \in Judged /\ try \in 0..LastTry
    BY <1>0, ScenarioAssumption DEF Judged, TypeOK
  <2> DEFINE Now(a) == \/ body'[<<at, a>>] \in {"recording", "threw"}
                       \/ body'[<<at, a>>] = "shooting" /\ unit'[<<at, a>>].failed = TRUE
  <2>2. \A a \in Judged \ {try} : /\ Now(a) <=> Counted(<<at, a>>)
                                  /\ body'[<<at, a>>] = body[<<at, a>>]
    <3>1. ASSUME NEW a \in Judged \ {try} PROVE <<at, a>> \in Body \ {b}
      BY <1>2, <2>1, <3>1 DEF Body
    <3>2. ASSUME NEW a \in Judged \ {try}
          PROVE  unit'[<<at, a>>] = unit[<<at, a>>] /\ body'[<<at, a>>] = body[<<at, a>>]
      BY <1>1, <3>1
    <3> QED
      BY <3>2 DEF Counted
  <2>3. failures > 0 <=> \E a \in Judged : Counted(<<at, a>>)
    BY <1>2 DEF InStep, ScoreInStep, Tested
  <2>4. \/ failures' = failures /\ (Now(try) <=> Counted(<<at, try>>))
        \/ failures' = failures + 1 /\ Now(try)
    <3>1. Counted(b)' <=> Now(try)
      BY <1>1, <1>2 DEF Counted
    <3>2. Counted(b) <=> Counted(<<at, try>>)
      BY <1>2
    <3> QED
      BY <1>0, <3>1, <3>2, WalkCounts
  <2>5. \A a \in Judged : Counted(<<at, a>>)' <=> Now(a)
    BY <1>1 DEF Counted
  <2> HIDE DEF Now
  <2>6. failures' > 0 <=> \E a \in Judged : Now(a)
    <3>1. CASE failures' = failures /\ (Now(try) <=> Counted(<<at, try>>))
      BY <2>2, <2>3, <3>1
    <3>2. CASE failures' = failures + 1 /\ Now(try)
      BY <1>0, <2>1, <3>2 DEF TypeOK
    <3> QED
      BY <2>4, <3>1, <3>2
  <2>7. outcome[at] = IF \E a \in Judged \ {try} : body'[<<at, a>>] # "done"
                      THEN "failed" ELSE "none"
    BY <1>2, <2>2 DEF InStep, ScoreInStep
  <2>8. Judged' = Judged
    BY <1>1 DEF Judged
  <2> QED
    BY <1>1, <1>2, <2>5, <2>6, <2>7, <2>8 DEF ScoreInStep, Tested
<1> QED
  BY <1>3, <1>4, <1>5

\* A test begins with nothing counted against it; a registrar's next test begins
\* with what its earlier ones left.
LEMMA RunTestInStep ==
    ASSUME VInv, InStep, RunTest
    PROVE  RowInStep' /\ BodyInStep' /\ ScoreInStep'
<1>0. TypeOK /\ LaunchOrder
  BY DEF VInv
<1>1. /\ slot = "before" /\ slot' = "test" /\ try' = 0 /\ before[at] = "done"
      /\ UNCHANGED <<scenarioId, at, outcome>> /\ at \in Scenarios /\ 0 \in 0..LastTry
      /\ at \in Legacy => failures' = failures /\ attempt' = attempt
      /\ at \notin Legacy => failures' = 0 /\ attempt' = 0
  BY <1>0, ScenarioAssumption DEF RunTest, Launch, LaunchOrder
<1>2. body' = [body EXCEPT ![<<at, 0>>] = IF at \in Legacy THEN "free" ELSE "opening"]
  BY DEF RunTest, Launch
<1>3. body'[<<at, 0>>] \in {"free", "opening"} /\ \A c \in Body \ {<<at, 0>>} : body'[c] = body[c]
  BY <1>0, <1>1, <1>2 DEF TypeOK, Body
<1>4. failures = 0 /\ attempt = 0 /\ outcome[at] = "none" /\ scenarioId \in {at, NoId}
  BY <1>0, <1>1 DEF InStep, ScoreInStep, RowInStep, LaunchOrder, Tested
<1>5. RowInStep'
  BY <1>1, <1>4 DEF RowInStep, Tested
<1>6. BodyInStep'
  BY <1>1, <1>3 DEF InStep, BodyInStep, Current
<1>7. Judged' = {0}
  BY <1>1 DEF Judged
<1>8. ScoreInStep'
  <2>1. body'[<<at', 0>>] \notin {"recording", "threw", "shooting"}
    BY <1>1, <1>3
  <2>2. failures' = 0 /\ outcome'[at'] = "none" /\ slot' = "test" /\ Judged' \ {try'} = {}
    BY <1>1, <1>4, <1>7
  <2>3. ~(\E a \in Judged : Counted(<<at, a>>))'
    BY <1>7, <2>1 DEF Counted
  <2>4. outcome'[at'] = IF \E a \in Judged' \ {try'} : body'[<<at', a>>] # "done"
                        THEN "failed" ELSE "none"
    BY <2>2
  <2> QED
    BY <2>2, <2>3, <2>4 DEF ScoreInStep
<1> QED
  BY <1>5, <1>6, <1>8

LEMMA RunAgainInStep ==
    ASSUME VInv, InStep, NEW passed \in BOOLEAN, RunAgain(passed), timeouts' = 0
    PROVE  RowInStep' /\ BodyInStep' /\ ScoreInStep'
<1>0. TypeOK /\ LaunchOrder
  BY DEF VInv
<1> DEFINE next == <<at, try + 1>>
           test == <<at, try>>
           Now(a) == \/ body'[<<at, a>>] \in {"recording", "threw"}
                     \/ body'[<<at, a>>] = "shooting" /\ unit'[<<at, a>>].failed = TRUE
<1>1. /\ slot = "test" /\ slot' = "test" /\ try' = try + 1 /\ try \in Nat /\ try + 1 \in 0..LastTry
      /\ UNCHANGED <<scenarioId, at, unit>> /\ at \in Scenarios
      /\ at \in Legacy \/ ~passed
      /\ at \in Legacy => failures' = failures /\ attempt' = attempt
      /\ at \notin Legacy => failures' = 0 /\ attempt' = try + 1
  BY <1>0, ScenarioAssumption DEF RunAgain, TestEnds, TimesOut, Launch, LaunchOrder, TypeOK
<1>2. body[test] \in Ended /\ (passed <=> body[test] = "done")
  BY <1>0 DEF RunAgain, TestEnds, TimesOut, Current, Ended, TypeOK
<1>3. next \in Body /\ test \in Body /\ next # test
  BY <1>1, ScenarioAssumption DEF Body
<1>4. body'[next] \in {"free", "opening"} /\ \A c \in Body \ {next} : body'[c] = body[c]
  BY <1>0, <1>3 DEF RunAgain, Launch, TypeOK
<1>5. RowInStep'
  BY <1>1 DEF InStep, RowInStep, Tested
<1>6. BodyInStep'
  BY <1>1, <1>2, <1>4 DEF InStep, BodyInStep, Current
<1>7. outcome'[at] = IF at \in Legacy /\ ~passed THEN "failed" ELSE outcome[at]
  BY <1>0, <1>1 DEF RunAgain, TypeOK
<1>8. ~Now(try + 1) /\ \A a \in Judged' : Counted(<<at, a>>)' <=> Now(a)
  BY <1>1, <1>4 DEF Counted
<1>9. CASE at \notin Legacy
  <2>1. Judged = {try} /\ Judged' = {try + 1}
    BY <1>1, <1>9 DEF Judged
  <2>2. outcome'[at] = "none"
    BY <1>1, <1>7, <1>9, <2>1 DEF InStep, ScoreInStep
  <2>3. failures' = 0
    BY <1>1, <1>9
  <2>4. ScoreInStep'
    <3>1. Judged' \ {try'} = {} /\ at' = at /\ slot' = "test"
      BY <1>1, <2>1
    <3>2. ~(\E a \in Judged : Counted(<<at, a>>))'
      BY <1>8, <2>1
    <3>3. outcome'[at'] = IF \E a \in Judged' \ {try'} : body'[<<at', a>>] # "done"
                          THEN "failed" ELSE "none"
      BY <2>2, <3>1
    <3> QED
      BY <2>3, <3>1, <3>2, <3>3 DEF ScoreInStep
  <2> QED
    BY <1>5, <1>6, <2>4
<1>10. CASE at \in Legacy
  <2>1. Judged = 0..try /\ Judged' = Judged \cup {try + 1}
        /\ Judged' \ {try'} = (Judged \ {try}) \cup {try}
    BY <1>1, <1>10 DEF Judged
  <2>2. ASSUME NEW a \in Judged PROVE <<at, a>> \in Body \ {next}
    <3>1. a \in 0..LastTry /\ a # try + 1
      BY <1>1, <2>1, ScenarioAssumption
    <3> QED
      BY <1>1, <3>1 DEF Body
  <2>3. \A a \in Judged : body'[<<at, a>>] = body[<<at, a>>]
    BY <1>4, <2>2
  <2>4. \A a \in Judged : Now(a) <=> Counted(<<at, a>>)
    BY <1>1, <2>3 DEF Counted
  <2>5. failures' = failures /\ (failures > 0 <=> \E a \in Judged : Counted(<<at, a>>))
    BY <1>1, <1>10 DEF InStep, ScoreInStep, Tested
  <2> HIDE DEF Now
  <2>6. failures' > 0 <=> \E a \in Judged' : Now(a)
    BY <1>8, <2>1, <2>4, <2>5
  <2>7. outcome'[at] = IF \E a \in Judged' \ {try'} : body'[<<at, a>>] # "done"
                       THEN "failed" ELSE "none"
    <3>1. outcome[at] = IF \E a \in Judged \ {try} : body[<<at, a>>] # "done"
                        THEN "failed" ELSE "none"
      BY <1>1 DEF InStep, ScoreInStep
    <3>2. try \in Judged
      BY <1>1, <2>1
    <3>3. (\E a \in Judged' \ {try'} : body'[<<at, a>>] # "done") <=>
              \/ \E a \in Judged \ {try} : body[<<at, a>>] # "done"
              \/ body[test] # "done"
      BY <2>1, <2>3, <3>2
    <3> QED
      BY <1>2, <1>7, <1>10, <3>1, <3>3
  <2>8. ScoreInStep'
    BY <1>1, <1>8, <2>6, <2>7 DEF ScoreInStep, Tested
  <2> QED
    BY <1>5, <1>6, <2>8
<1> QED
  BY <1>9, <1>10

LEMMA RunAfterInStep ==
    ASSUME VInv, InStep, NEW passed \in BOOLEAN, RunAfter(passed), timeouts' = 0
    PROVE  RowInStep' /\ BodyInStep' /\ ScoreInStep'
<1>0. TypeOK /\ LaunchOrder
  BY DEF VInv
<1> DEFINE test == <<at, try>>
<1>1. /\ slot = "test" /\ slot' = "after" /\ after'[at] = "closing" /\ try \in 0..LastTry
      /\ UNCHANGED <<scenarioId, failures, attempt, at, try, body, unit>> /\ at \in Scenarios
  BY <1>0 DEF RunAfter, TestEnds, TimesOut, LaunchOrder, TypeOK, globals
<1>2. body[test] \in Ended /\ (passed <=> body[test] = "done")
  BY <1>0 DEF RunAfter, TestEnds, TimesOut, Current, Ended, TypeOK
<1>3. RowInStep'
  BY <1>1 DEF InStep, RowInStep, Tested
<1>4. BodyInStep'
  BY <1>1, <1>2 DEF InStep, BodyInStep, Current
<1>5. outcome'[at] = IF passed /\ outcome[at] = "none" THEN "passed" ELSE "failed"
  BY <1>0, <1>1 DEF RunAfter, TypeOK
<1>6. Judged' = Judged /\ try \in Judged
  BY <1>1 DEF Judged
<1>7. outcome[at] = IF \E a \in Judged \ {try} : body[<<at, a>>] # "done"
                    THEN "failed" ELSE "none"
  BY <1>1 DEF InStep, ScoreInStep
<1>8. outcome'[at] = IF \E a \in Judged : body[<<at, a>>] # "done" THEN "failed" ELSE "passed"
  BY <1>2, <1>5, <1>6, <1>7
<1>9. (\E a \in Judged : Counted(<<at, a>>))' <=> \E a \in Judged : Counted(<<at, a>>)
  BY <1>1, <1>6 DEF Counted
<1>10. failures > 0 <=> \E a \in Judged : Counted(<<at, a>>)
  BY <1>1 DEF InStep, ScoreInStep, Tested
<1>11. ScoreInStep'
  BY <1>1, <1>6, <1>8, <1>9, <1>10 DEF ScoreInStep, Tested
<1> QED
  BY <1>3, <1>4, <1>11

\* bun goes from scenario to scenario with no row left over.
LEMMA BunInStep ==
    ASSUME VInv, InStep, Bun, timeouts' = 0
    PROVE  RowInStep' /\ BodyInStep' /\ ScoreInStep'
<1>0. TypeOK /\ LaunchOrder
  BY DEF VInv
<1>1. ASSUME UNCHANGED <<scenarioId, body>>, slot # "test", slot' \in {"next", "skip"},
             scenarioId = NoId
      PROVE  RowInStep' /\ BodyInStep' /\ ScoreInStep'
  BY <1>1 DEF InStep, RowInStep, BodyInStep, ScoreInStep, Tested
<1>2. CASE BeforeAll
  <2>1. /\ slot = "next" /\ slot' = "before" /\ before'[at] = "starting" /\ failures' = 0
        /\ attempt' = 0 /\ UNCHANGED <<scenarioId, at, body>>
    BY <1>0, <1>2 DEF BeforeAll, TypeOK, Scenarios, Running
  <2> QED
    BY <2>1 DEF InStep, RowInStep, BodyInStep, ScoreInStep, Tested
<1>3. CASE RunTest
  BY <1>3, RunTestInStep
<1>4. CASE BeforeFails
  <2>1. slot = "before" /\ before[at] = "threw" /\ slot' = "next" /\ UNCHANGED <<scenarioId, body>>
    BY <1>0, <1>4 DEF BeforeFails, TimesOut, NextScenario, globals, threads, TypeOK
  <2>2. scenarioId = NoId
    BY <2>1 DEF InStep, RowInStep
  <2> QED
    BY <1>1, <2>1, <2>2
<1>5. ASSUME NEW passed \in BOOLEAN, RunAgain(passed) \/ RunAfter(passed)
      PROVE  RowInStep' /\ BodyInStep' /\ ScoreInStep'
  BY <1>5, RunAgainInStep, RunAfterInStep
<1>6. CASE AfterEnds
  <2>1. slot = "after" /\ after[at] = "done" /\ slot' = "next" /\ UNCHANGED <<scenarioId, body>>
    BY <1>0, <1>6 DEF AfterEnds, TimesOut, NextScenario, globals, threads, TypeOK
  <2>2. scenarioId = NoId
    BY <2>1 DEF InStep, RowInStep
  <2> QED
    BY <1>1, <2>1, <2>2
<1>7. CASE RunSkipped \/ SkipSettles
  <2>1. slot \in {"next", "skip"} /\ slot' \in {"next", "skip"} /\ UNCHANGED <<scenarioId, body>>
    BY <1>7 DEF RunSkipped, SkipSettles, NextScenario, globals, threads
  <2>2. scenarioId = NoId
    BY <2>1 DEF InStep, RowInStep
  <2> QED
    BY <1>1, <2>1, <2>2
<1> QED
  BY <1>2, <1>3, <1>4, <1>5, <1>6, <1>7 DEF Bun

LEMMA NextInStep ==
    ASSUME VInv, [Next]_vars, Settled'
    PROVE  InStep'
<1>0. TypeOK /\ (Settled => InStep) /\ timeouts' = 0
  BY DEF VInv, Settled
<1>1. Settled
  <2>1. ASSUME NEW s \in Scenarios, Hook(s) PROVE timeouts' = timeouts
    BY <2>1, HookMoves DEF bun
  <2>2. ASSUME NEW b \in Body, Walk(b) PROVE timeouts' = timeouts
    BY <1>0, <2>2, WalkMoves DEF bun
  <2>3. CASE Bun
    BY <1>0, <2>3 DEF Bun, BeforeAll, RunTest, BeforeFails, RunAgain, RunAfter, TestEnds, TimesOut,
                      AfterEnds, RunSkipped, SkipSettles, TypeOK, Settled
  <2>4. CASE UNCHANGED vars
    BY <1>0, <2>4 DEF vars, bun, Settled
  <2> QED
    BY <1>0, <2>1, <2>2, <2>3, <2>4 DEF Next, Exited, Settled
<1>2. InStep
  BY <1>0, <1>1
<1>3. HooksInStep'
  BY <1>0, <1>2, NextHooks DEF InStep
<1>4. RowInStep' /\ BodyInStep' /\ ScoreInStep'
  <2>1. ASSUME NEW s \in Scenarios, Hook(s) PROVE RowInStep' /\ BodyInStep' /\ ScoreInStep'
    BY <1>1, <1>2, <2>1, HookInStep
  <2>2. ASSUME NEW b \in Body, Walk(b) PROVE RowInStep' /\ BodyInStep' /\ ScoreInStep'
    BY <1>1, <1>2, <2>2, WalkInStep
  <2>3. CASE Bun
    BY <1>0, <1>2, <2>3, BunInStep
  <2>4. CASE UNCHANGED vars
    BY <1>2, <2>4 DEF vars, globals, bun, threads, InStep, RowInStep, BodyInStep, ScoreInStep,
                      Tested, Judged, Counted, Current
  <2> QED
    BY <2>1, <2>2, <2>3, <2>4 DEF Next, Exited
<1> QED
  BY <1>3, <1>4 DEF InStep

-----------------------------------------------------------------------------
(***************************************************************************)
(* Steps and verdicts.                                                     *)
(***************************************************************************)

\* A step that is recorded while row and attempt are its invocation's is own.
LEMMA PostOwn ==
    ASSUME StepsAreOwn, NEW b \in Body, NEW q, NEW n, Post(b, q, n),
           Settled => /\ scenarioId \in {b[1], NoId}
                      /\ b[1] \in Legacy \/ attempt = b[2]
    PROVE  StepsAreOwn'
<1> DEFINE p == [row |-> scenarioId, attempt |-> attempt, seq |-> q, by |-> b,
                 nth |-> n, sure |-> Settled]
<1>1. posted' = posted \/ (scenarioId # NoId /\ posted' = posted \cup {p})
  BY DEF Post
<1>2. p.row = scenarioId /\ p.by = b /\ p.attempt = attempt /\ (p.sure <=> Settled)
  OBVIOUS
<1> HIDE DEF p
<1> QED
  BY <1>1, <1>2 DEF StepsAreOwn

LEMMA NextSteps ==
    ASSUME VInv, [Next]_vars
    PROVE  StepsAreOwn'
<1>0. TypeOK /\ StepsAreOwn /\ (Settled => InStep)
  BY DEF VInv
<1>1. ASSUME posted' = posted PROVE StepsAreOwn'
  BY <1>0, <1>1 DEF StepsAreOwn
<1>2. ASSUME NEW s \in Scenarios, Hook(s) PROVE StepsAreOwn'
  <2>1. CASE SetupThrows(s)
    <3>1. <<s, 0>> \in Body /\ Post(<<s, 0>>, stepSeq, 0) /\ before[s] = "setup"
      BY <2>1, ScenarioAssumption DEF SetupThrows, RecordSetupFailure, Body
    <3>2. Settled => scenarioId \in {s, NoId} /\ attempt = 0
      BY <1>0, <3>1 DEF InStep, HooksInStep, RowInStep, Awaiting
    <3> QED
      BY <1>0, <3>1, <3>2, PostOwn
  <2>2. CASE ~SetupThrows(s)
    BY <1>1, <1>2, <2>2 DEF Hook, StartSettles, SetupSucceeds, SetupFailureRecorded,
                            SetupFailureFinished, Closed, Flushed, Finished, sent
  <2> QED
    BY <2>1, <2>2
<1>3. ASSUME NEW b \in Body, Walk(b) PROVE StepsAreOwn'
  <2>1. Settled => b = <<at, try>> /\ slot = "test"
    BY <1>0, <1>3, WalkMoves DEF InStep, BodyInStep, Current
  <2>2. Settled => /\ scenarioId \in {b[1], NoId}
                   /\ b[1] \in Legacy \/ attempt = b[2]
    BY <1>0, <2>1 DEF InStep, RowInStep, Tested
  <2>3. \/ posted' = posted
        \/ \E q, n \in Nat : Post(b, q, n)
    BY <1>0, <1>3 DEF Walk, OpenSucceeds, OpenThrows, OpenFailureRecorded, Stub, CallUnit,
         UnitSettles, RecordUnit, BodyReturns, BodyStrays, RecordSetupFailure, TypeOK, sent
  <2> QED
    BY <1>0, <1>1, <2>2, <2>3, PostOwn
<1>4. CASE Bun
  BY <1>1, <1>4 DEF Bun, BeforeAll, RunTest, BeforeFails, RunAgain, RunAfter, AfterEnds,
                    RunSkipped, SkipSettles, sent
<1>5. CASE UNCHANGED vars
  BY <1>1, <1>5 DEF vars, sent
<1> QED
  BY <1>2, <1>3, <1>4, <1>5 DEF Next, Exited

\* A verdict that was told is sure if nothing timed out and nothing strayed.
LEMMA TellSure ==
    ASSUME TypeOK, NEW v \in Verdict, NEW n \in 1..(LastTry + 1), NEW t \in BOOLEAN,
           Tell(v, n, t), NEW s \in Scenarios
    PROVE  \/ told'[s] = told[s]
           \/ /\ s = scenarioId /\ told'[s].status = v /\ told'[s].attempts = n
              /\ told'[s].sure = t
<1> DEFINE rec == [status |-> v, attempts |-> n, sure |-> t]
<1>1. told' = told \/ told' = [told EXCEPT ![scenarioId] = rec]
  BY DEF Tell
<1>2. rec.status = v /\ rec.attempts = n /\ rec.sure = t
  OBVIOUS
<1> HIDE DEF rec
<1>3. \/ told'[s] = told[s]
      \/ s = scenarioId /\ told'[s] = rec
  BY <1>1 DEF TypeOK
<1> QED
  BY <1>2, <1>3

\* The verdict of a flushed scenario is the one bun took down.
LEMMA FlushedIsRight ==
    ASSUME VInv, Settled, NEW s \in Scenarios, after[s] = "flushing", ~Strayed(s)
    PROVE  /\ s = at /\ slot = "after" /\ scenarioId \in {s, NoId}
           /\ outcome[s] = IF failures > 0 THEN "failed" ELSE "passed"
           /\ TookTries(s, attempt + 1)
<1>0. TypeOK /\ LaunchOrder /\ InStep
  BY DEF VInv
<1>1. s = at /\ slot = "after" /\ scenarioId \in {s, NoId} /\ try \in 0..LastTry /\ LastTry \in Nat
  BY <1>0, ScenarioAssumption DEF InStep, HooksInStep, RowInStep, Closing, TypeOK
<1>2. Judged \subseteq 0..try /\ 0..try \subseteq 0..LastTry
  BY <1>1 DEF Judged
<1>3. ASSUME NEW a \in Judged PROVE body[<<s, a>>] \in {"done", "threw"}
  <2>1. <<s, a>> \in Body /\ a \in 0..LastTry /\ a <= try
    BY <1>1, <1>2, <1>3 DEF Body
  <2>2. body[<<s, a>>] \in Ended
    BY <1>0, <1>1, <2>1 DEF InStep, BodyInStep, LaunchOrder, Tested
  <2>3. s \in Legacy \/ a = LastTry \/ body[<<s, a + 1>>] = "new"
    <3>1. CASE s \notin Legacy /\ a # LastTry
      <4>1. a = try /\ a + 1 \in 0..LastTry
        BY <1>1, <2>1, <3>1 DEF Judged
      <4> QED
        BY <1>0, <1>1, <4>1 DEF LaunchOrder, Tested
    <3> QED
      BY <3>1
  <2> QED
    BY <2>1, <2>2, <2>3 DEF Strayed, Ended
<1>4. (\E a \in Judged : Counted(<<at, a>>)) <=> \E a \in Judged : body[<<at, a>>] # "done"
  BY <1>1, <1>3 DEF Counted
<1>5. outcome[s] = IF failures > 0 THEN "failed" ELSE "passed"
  BY <1>0, <1>1, <1>4 DEF InStep, ScoreInStep, Tested
<1>6. TookTries(s, attempt + 1)
  <2>1. \A a \in 0..LastTry : body[<<s, a>>] # "new" <=> a <= try
    BY <1>0, <1>1 DEF LaunchOrder, Tested
  <2>2. attempt = IF s \in Legacy THEN 0 ELSE try
    BY <1>0, <1>1 DEF InStep, RowInStep, Tested
  <2>3. body[<<s, 0>>] # "new"
    BY <1>1, <2>1
  <2>4. \A a \in 0..LastTry : a <= try <=> a < try + 1
    BY <1>1
  <2> QED
    BY <2>1, <2>2, <2>3, <2>4 DEF TookTries
<1> QED
  BY <1>1, <1>5, <1>6

\* A verdict that nobody tells again stays right while no test of its scenario is
\* launched.
LEMMA TriesKept ==
    ASSUME NEW s \in Scenarios, NEW n, TookTries(s, n),
           \A a \in 0..LastTry : body'[<<s, a>>] # "new" <=> body[<<s, a>>] # "new"
    PROVE  TookTries(s, n)'
BY ScenarioAssumption DEF TookTries

\* Hooks tell verdicts: the current scenario's, or of a process that something
\* timed out in.
LEMMA HookVerdicts ==
    ASSUME VInv, NEW r \in Scenarios, Hook(r)
    PROVE  SureVerdicts'
<1>0. TypeOK /\ LaunchOrder /\ (Settled => InStep)
  BY DEF VInv
<1>1. UNCHANGED <<at, slot, try, outcome, timeouts, body>>
  BY HookMoves DEF bun
<1> SUFFICES ASSUME NEW s \in Scenarios, Sure(s)'
             PROVE  TookTries(s, told[s].attempts)' /\ Decided(s)'
  BY DEF SureVerdicts
<1>2. ASSUME told'[s] = told[s], Sure(s)
      PROVE  TookTries(s, told[s].attempts)' /\ Decided(s)'
  <2>1. TookTries(s, told[s].attempts) /\ Decided(s)
    BY <1>2 DEF VInv, SureVerdicts
  <2>2. TookTries(s, told[s].attempts)'
    BY <1>1, <1>2, <2>1 DEF TookTries
  <2>3. /\ before[s] \in {"finishing", "threw"} => before'[s] \in {"finishing", "threw"}
        /\ after[s] \in {"finishing", "done"} => after'[s] \in {"finishing", "done"}
    BY <1>0 DEF Hook, StartSettles, SetupSucceeds, SetupThrows, SetupFailureRecorded,
                SetupFailureFinished, Closed, Flushed, Finished, TypeOK
  <2> QED
    BY <1>1, <1>2, <2>1, <2>2, <2>3 DEF Decided
<1>3. CASE told' = told
  BY <1>2, <1>3 DEF Sure
<1>4. CASE SetupFailureRecorded(r)
  <2>1. Tell("failed", 1, Settled) /\ before[r] = "recording"
    BY <1>4 DEF SetupFailureRecorded
  <2>2. "failed" \in Verdict /\ 1 \in 1..(LastTry + 1) /\ Settled \in BOOLEAN
    BY ScenarioAssumption DEF Verdict, Settled
  <2>3. \/ told'[s] = told[s]
        \/ /\ s = scenarioId /\ told'[s].status = "failed" /\ told'[s].attempts = 1
           /\ told'[s].sure = Settled
    BY <1>0, <2>1, <2>2, TellSure
  <2>4. CASE told'[s] = told[s]
    BY <1>2, <2>4 DEF Sure
  <2>5. CASE s = scenarioId /\ told'[s].status = "failed" /\ told'[s].attempts = 1 /\ Settled
    <3>1. r = at /\ slot = "before" /\ scenarioId \in {at, NoId} /\ s = at /\ scenarioId # NoId
      BY <1>0, <2>1, <2>5, ScenarioAssumption
         DEF InStep, HooksInStep, RowInStep, Awaiting, Scenarios
    <3>2. before'[s] = "finishing"
      BY <1>0, <1>4, <3>1 DEF SetupFailureRecorded, TypeOK
    <3>3. body[<<s, 0>>] = "new"
      BY <1>0, <3>1, ScenarioAssumption DEF LaunchOrder, Tested
    <3> QED
      BY <1>1, <2>5, <3>1, <3>2, <3>3 DEF TookTries, Decided
  <2> QED
    BY <2>3, <2>4, <2>5 DEF Sure
<1>5. CASE Flushed(r)
  <2> DEFINE v == IF failures > 0 THEN "failed" ELSE "passed"
             t == Settled /\ ~Strayed(r)
  <2>1. Tell(v, attempt + 1, t) /\ after[r] = "flushing"
    BY <1>5 DEF Flushed
  <2>2. v \in Verdict /\ attempt + 1 \in 1..(LastTry + 1) /\ t \in BOOLEAN
    BY <1>0, ScenarioAssumption DEF Verdict, TypeOK
  <2> HIDE DEF v, t
  <2>3. \/ told'[s] = told[s]
        \/ s = scenarioId /\ told'[s].status = v /\ told'[s].attempts = attempt + 1
           /\ told'[s].sure = t
    BY <1>0, <2>1, <2>2, TellSure
  <2>4. CASE told'[s] = told[s]
    BY <1>2, <2>4 DEF Sure
  <2>5. CASE s = scenarioId /\ told'[s].status = v /\ told'[s].attempts = attempt + 1 /\ t
    <3>1. /\ r = at /\ slot = "after" /\ scenarioId \in {r, NoId} /\ outcome[r] = v
          /\ TookTries(r, attempt + 1)
      BY <2>1, <2>5, FlushedIsRight DEF t, v
    <3>2. s = r
      BY <2>5, <3>1, ScenarioAssumption DEF Scenarios
    <3>3. after'[s] = "finishing"
      BY <1>0, <1>5, <3>2 DEF Flushed, TypeOK
    <3>4. TookTries(s, told[s].attempts)'
      BY <1>1, <2>5, <3>1, <3>2 DEF TookTries
    <3> QED
      BY <1>1, <2>5, <3>1, <3>2, <3>3, <3>4 DEF Decided
  <2> QED
    BY <2>3, <2>4, <2>5 DEF Sure
<1> QED
  BY <1>3, <1>4, <1>5 DEF Hook, StartSettles, SetupSucceeds, SetupThrows, SetupFailureFinished,
                          Closed, Finished, sent

\* bun takes an outcome down only where no verdict is sure yet, or where it is that.
LEMMA BunVerdicts ==
    ASSUME VInv, Bun
    PROVE  SureVerdicts'
<1>0. TypeOK /\ LaunchOrder
  BY DEF VInv
<1> SUFFICES ASSUME NEW s \in Scenarios, Sure(s)'
             PROVE  TookTries(s, told[s].attempts)' /\ Decided(s)'
  BY DEF SureVerdicts
<1>1. told' = told
  BY DEF Bun, BeforeAll, RunTest, BeforeFails, RunAgain, RunAfter, AfterEnds, RunSkipped,
         SkipSettles, sent
<1>2. TookTries(s, told[s].attempts) /\ Decided(s)
  BY <1>1 DEF VInv, SureVerdicts, Sure
<1>3. at \in Nat /\ s \in Nat /\ (slot # "next" => at \in Scenarios) /\ try \in 0..LastTry
  BY <1>0, ScenarioAssumption DEF TypeOK, Scenarios, LaunchOrder
<1>4. ASSUME \A a \in 0..LastTry : body'[<<s, a>>] # "new" <=> body[<<s, a>>] # "new"
      PROVE  TookTries(s, told[s].attempts)'
  BY <1>1, <1>2, <1>4, TriesKept
<1>5. CASE BeforeAll
  <2>1. s < at /\ told[s].status = outcome[s]
    BY <1>2, <1>5 DEF Decided, BeforeAll
  <2> QED
    BY <1>1, <1>4, <1>5, <2>1 DEF BeforeAll, Decided
<1>6. CASE RunTest \/ \E passed \in BOOLEAN : RunAgain(passed)
  <2>1. s < at /\ told[s].status = outcome[s] /\ at \in Scenarios
    BY <1>2, <1>3, <1>6 DEF Decided, RunTest, RunAgain, TestEnds, TimesOut
  <2>2. at' = at /\ outcome'[s] = outcome[s]
    BY <1>0, <1>3, <1>6, <2>1 DEF RunTest, RunAgain, TypeOK
  <2>3. \E b \in Body : b[1] = at /\ \A c \in Body \ {b} : body'[c] = body[c]
    <3>1. CASE RunTest
      <4>1. <<at, 0>> \in Body /\ \A c \in Body \ {<<at, 0>>} : body'[c] = body[c]
        BY <1>0, <2>1, <3>1, ScenarioAssumption DEF RunTest, Launch, TypeOK, Body
      <4> QED
        BY <4>1
    <3>2. CASE \E passed \in BOOLEAN : RunAgain(passed)
      <4>1. <<at, try + 1>> \in Body /\ \A c \in Body \ {<<at, try + 1>>} : body'[c] = body[c]
        BY <1>0, <1>3, <2>1, <3>2, ScenarioAssumption DEF RunAgain, Launch, TypeOK, Body
      <4> QED
        BY <4>1
    <3> QED
      BY <1>6, <3>1, <3>2
  <2>4. \A a \in 0..LastTry : body'[<<s, a>>] = body[<<s, a>>]
    <3>1. \A a \in 0..LastTry : <<s, a>> \in Body /\ <<s, a>>[1] # at
      BY <1>3, <2>1 DEF Body
    <3> QED
      BY <2>3, <3>1
  <2> QED
    BY <1>1, <1>4, <2>1, <2>2, <2>4 DEF Decided
<1>7. CASE BeforeFails
  <2>1. /\ slot = "before" /\ at' = at + 1 /\ body' = body /\ at \in Scenarios
        /\ outcome'[at] = "failed" /\ (s # at => outcome'[s] = outcome[s])
    BY <1>0, <1>3, <1>7 DEF BeforeFails, TimesOut, NextScenario, threads, TypeOK
  <2>2. s < at' /\ told[s].status = outcome'[s]
    BY <1>2, <1>3, <2>1 DEF Decided
  <2> QED
    BY <1>1, <1>4, <2>1, <2>2 DEF Decided
<1>8. ASSUME NEW passed \in BOOLEAN, RunAfter(passed)
      PROVE  TookTries(s, told[s].attempts)' /\ Decided(s)'
  <2>1. s < at /\ told[s].status = outcome[s]
    BY <1>2, <1>8 DEF Decided, RunAfter, TestEnds, TimesOut
  <2>2. at' = at /\ outcome'[s] = outcome[s] /\ body' = body
    BY <1>0, <1>3, <1>8, <2>1 DEF RunAfter, TypeOK
  <2> QED
    BY <1>1, <1>4, <2>1, <2>2 DEF Decided
<1>9. CASE AfterEnds
  <2>1. slot = "after" /\ at' = at + 1 /\ body' = body /\ outcome' = outcome
    BY <1>9 DEF AfterEnds, TimesOut, NextScenario, threads
  <2>2. s < at' /\ told[s].status = outcome'[s]
    BY <1>2, <1>3, <2>1 DEF Decided
  <2> QED
    BY <1>1, <1>4, <2>1, <2>2 DEF Decided
<1>10. CASE RunSkipped \/ SkipSettles
  <2>1. slot \in {"next", "skip"} /\ at' \in {at, at + 1} /\ body' = body
        /\ (s # at => outcome'[s] = outcome[s])
    BY <1>0, <1>3, <1>10 DEF RunSkipped, SkipSettles, NextScenario, threads, TypeOK
  <2>2. s < at /\ s < at' /\ told[s].status = outcome'[s]
    BY <1>2, <1>3, <2>1 DEF Decided
  <2> QED
    BY <1>1, <1>4, <2>1, <2>2 DEF Decided
<1> QED
  BY <1>5, <1>6, <1>7, <1>8, <1>9, <1>10 DEF Bun

LEMMA NextVInv == VInv /\ [Next]_vars => VInv'
<1> SUFFICES ASSUME VInv, [Next]_vars PROVE VInv'
  OBVIOUS
<1>1. TypeOK' /\ LaunchOrder'
  BY NextTInv, NextLaunch DEF VInv, TInv, LaunchOrder, BunOK
<1>2. Settled' => InStep'
  BY NextInStep
<1>3. StepsAreOwn'
  BY NextSteps
<1>4. SureVerdicts'
  <2>1. ASSUME NEW s \in Scenarios, Hook(s) PROVE SureVerdicts'
    BY <2>1, HookVerdicts
  <2>2. ASSUME NEW b \in Body, Walk(b) PROVE SureVerdicts'
    <3>1. UNCHANGED <<at, slot, outcome, before, after, told>>
      BY <2>2, WalkMoves DEF VInv, bun
    <3>2. \A c \in Body : body'[c] # "new" <=> body[c] # "new"
      BY <2>2, WalkMoves DEF VInv
    <3>3. ASSUME NEW s \in Scenarios, Sure(s) PROVE TookTries(s, told[s].attempts)'
      <4>1. TookTries(s, told[s].attempts)
        BY <3>3 DEF VInv, SureVerdicts
      <4>2. \A a \in 0..LastTry : body'[<<s, a>>] # "new" <=> body[<<s, a>>] # "new"
        BY <3>2 DEF Body
      <4> QED
        BY <3>1, <4>1, <4>2, TriesKept
    <3> QED
      BY <3>1, <3>3 DEF VInv, SureVerdicts, Decided, Sure
  <2>3. CASE Bun
    BY <2>3, BunVerdicts
  <2>4. CASE UNCHANGED vars
    BY <2>4 DEF vars, bun, threads, sent, VInv, SureVerdicts, Decided, Sure, TookTries
  <2> QED
    BY <2>1, <2>2, <2>3, <2>4 DEF Next, Exited
<1> QED
  BY <1>1, <1>2, <1>3, <1>4 DEF VInv

\* The number of tries that a dashboard counts is the one that was told.
LEMMA TriesCounted ==
    ASSUME NEW s \in Scenarios, NEW n \in 1..(LastTry + 1), TookTries(s, n)
    PROVE  n = Tries(s)
<1>1. CASE s \in Legacy \/ body[<<s, 0>>] = "new"
  BY <1>1 DEF TookTries, Tries
<1>2. CASE ~(s \in Legacy \/ body[<<s, 0>>] = "new")
  <2> DEFINE P(k) == /\ body[<<s, k - 1>>] # "new"
                     /\ k = LastTry + 1 \/ body[<<s, k>>] = "new"
  <2>1. \A a \in 0..LastTry : body[<<s, a>>] # "new" <=> a < n
    BY <1>2 DEF TookTries
  <2>2. \A k \in 1..(LastTry + 1) : P(k) => k = n
    <3>1. ASSUME NEW k \in 1..(LastTry + 1), P(k) PROVE k = n
      <4>1. k - 1 < n
        BY <2>1, <3>1, ScenarioAssumption
      <4>2. k = LastTry + 1 \/ ~(k < n)
        BY <2>1, <3>1, ScenarioAssumption
      <4> QED
        BY <3>1, <4>1, <4>2, ScenarioAssumption
    <3> QED
      BY <3>1
  <2>3. P(n)
    <3>1. body[<<s, n - 1>>] # "new"
      BY <2>1, ScenarioAssumption
    <3>2. n = LastTry + 1 \/ body[<<s, n>>] = "new"
      BY <2>1, ScenarioAssumption
    <3> QED
      BY <3>1, <3>2
  <2>4. Tries(s) = CHOOSE k \in 1..(LastTry + 1) : P(k)
    BY <1>2 DEF Tries
  <2> HIDE DEF P
  <2> QED
    BY <2>2, <2>3, <2>4
<1> QED
  BY <1>1, <1>2

-----------------------------------------------------------------------------
\* The harness's variables, bun's and the reports keep their types, whatever
\* times out.
THEOREM TypeCorrect == Spec => []TypeOK
<1>1. TInv => TypeOK
    BY DEF TInv
<1> QED
    BY <1>1, InitTInv, NextTInv, PTL DEF Spec

\* No hook times out: every row the process opened has a verdict when it exits,
\* whatever throws and whichever attempts of a test are abandoned.
THEOREM NoRowStaysRunning == NoHookTimesOut => (Spec => []NoRowLeftRunning)
<1> SUFFICES ASSUME NoHookTimesOut PROVE Spec => []NoRowLeftRunning
    OBVIOUS
<1>1. IInv => NoRowLeftRunning
    BY ScenarioAssumption
       DEF IInv, RowsOnTheirWay, OnItsWay, NoRowLeftRunning, Running, TypeOK, Scenarios
<1>2. IInv /\ [Next]_vars => IInv'
  <2>1. IInv /\ [Next]_vars => TypeOK'
    BY NextTInv DEF IInv, TInv, HooksInStep, BunOK
  <2> QED
    BY <2>1, NextHooks, NextRows DEF IInv
<1> QED
    BY <1>1, <1>2, InitIInv, PTL DEF Spec

\* As long as nothing has timed out, what the platform is told of a scenario is
\* what bun prints for it, with the number of attempts it took, through failed
\* setups, failed attempts and retries; and nothing that times out later makes a
\* verdict wrong that was told before.
THEOREM VerdictsAreFaithful == Spec => []FaithfulVerdict
<1>1. VInv => FaithfulVerdict
  <2> SUFFICES ASSUME VInv, NEW s \in Scenarios, Sure(s), outcome[s] # "none"
               PROVE  told[s].status = outcome[s] /\ told[s].attempts = Tries(s)
    BY DEF FaithfulVerdict, Sure
  <2>1. TypeOK /\ LaunchOrder /\ TookTries(s, told[s].attempts) /\ Decided(s)
    BY DEF VInv, SureVerdicts, Decided
  <2>2. told[s].attempts \in 1..(LastTry + 1)
    BY <2>1 DEF TypeOK, Sure, Told
  <2>3. told[s].status = outcome[s]
    BY <2>1 DEF Decided, LaunchOrder, Tested
  <2> QED
    BY <2>1, <2>2, <2>3, TriesCounted
<1> QED
  BY <1>1, InitVInv, NextVInv, PTL DEF Spec

\* A recorded step carries the row and the attempt of the invocation that ran it,
\* for every step recorded before anything timed out.
THEOREM StepsStayWithTheirRow == Spec => []StepsAreOwn
<1>1. VInv => StepsAreOwn
  BY DEF VInv
<1> QED
  BY <1>1, InitVInv, NextVInv, PTL DEF Spec

=============================================================================
