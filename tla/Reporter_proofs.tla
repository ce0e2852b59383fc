---------------------------- MODULE Reporter_proofs ----------------------------
(***************************************************************************)
(* Theorems about Reporter, for any set of calls and any number of         *)
(* retries.                                                                *)
(***************************************************************************)
EXTENDS Reporter, TLAPS

Counted(f) == kind[f] # "video"

(***************************************************************************)
(* The inductive invariant, in four parts besides the types.               *)
(***************************************************************************)

\* One run is started, by whoever comes first, and every call awaits it.
MemoOK ==
    /\ \A r \in RunStart :
         /\ kind[r] = "run"
         /\ phase[r] \notin {"waiting", "orphan"}
         /\ phase[r] # "new" <=> r = memo
    /\ \A c \in Call :
         /\ kind[c] # "run"
         /\ kind[c] = "none" <=> phase[c] = "new"
         /\ phase[c] # "new" => memo \in RunStart /\ runOf[c] = memo
         /\ phase[c] = "orphan" => phase[memo] \in Ended \ {"ok", "orphan"}

\* What is on the wire was sent by a try so far; the first try is applied at
\* most once, and not while it is still in transit.
WireOK(f) ==
    /\ \A n \in wire[f] : n <= tries[f]
    /\ phase[f] \in {"new", "waiting"} =>
         wire[f] = {} /\ tries[f] = 0 /\ applied[f] = 0
    /\ phase[f] = "backoff" => tries[f] < Retries
    /\ tries[f] = 0 => /\ applied[f] <= 1
                       /\ 0 \in wire[f] => applied[f] = 0
    /\ phase[f] = "ok" /\ Counted(f) => applied[f] >= 1

\* A counter is positive exactly when a report it counts ended that way.
CountersOK ==
    /\ successes > 0 <=> \E f \in Report : Counted(f) /\ phase[f] = "ok"
    /\ failures > 0 <=>
         \E f \in Report : Counted(f) /\ phase[f] \in {"lost", "refused", "torn"}
    /\ fatalFailures > 0 <=>
         \E f \in Report : Counted(f) /\ phase[f] \in {"refused", "torn"}

\* An earlier step is awaited or has settled.
FlushOK ==
    /\ flush \in {"waiting", "drained"} =>
         \A c \in earlier : c \in awaited \/ phase[c] \in Ended
    /\ flush = "drained" => \A c \in awaited : phase[c] \in Ended

IInv == /\ TypeOK
        /\ MemoOK
        /\ \A f \in Report : WireOK(f)
        /\ CountersOK
        /\ FlushOK

-----------------------------------------------------------------------------
\* How a request the reporter still waits for comes out.
Outcome(f, p) ==
    /\ phase[f] = "sending"
    /\ p = "backoff" => tries[f] < Retries
    /\ phase' = [phase EXCEPT ![f] = p]
    /\ successes' = IF Counted(f) /\ p = "ok" THEN successes + 1 ELSE successes
    /\ failures' = IF Counted(f) /\ p \in {"lost", "refused", "torn"} THEN failures + 1
                                                                       ELSE failures
    /\ fatalFailures' = IF Counted(f) /\ p \in {"refused", "torn"}
                        THEN fatalFailures + 1 ELSE fatalFailures

Settling == {"ok", "backoff", "lost", "refused", "torn", "unnoted"}

\* A failed request backs off, or ends the report and counts it.
LEMMA FailOutcome ==
    ASSUME NEW f, phase[f] = "sending", NEW end \in {"lost", "refused", "torn"},
           Fail(f, end)
    PROVE  Outcome(f, end) \/ Outcome(f, "backoff")
BY DEF Fail, Outcome, Counted

\* An answer ends the report as it deserves: a counted success is an "ok".
LEMMA ReactOutcome ==
    ASSUME TypeOK, NEW f \in Report, phase[f] = "sending", NEW a \in Answer, React(f, a)
    PROVE  /\ handoff' \subseteq RunStart
           /\ \E p \in Settling :
                /\ Outcome(f, p)
                /\ p = "ok" /\ Counted(f) => a = "ok"
<1> USE DEF Settling
<1>1. ASSUME Succeed(f), Counted(f) => a = "ok"
      PROVE  /\ handoff' \subseteq RunStart
             /\ Outcome(f, "ok")
    BY <1>1 DEF Succeed, Outcome, Counted, TypeOK
<1>2. ASSUME NEW end \in {"lost", "refused", "torn"}, Fail(f, end), UNCHANGED handoff
      PROVE  /\ handoff' \subseteq RunStart
             /\ Outcome(f, end) \/ Outcome(f, "backoff")
    BY <1>2, FailOutcome DEF TypeOK
<1>3. ASSUME Escape(f)
      PROVE  /\ handoff' \subseteq RunStart
             /\ Outcome(f, "unnoted")
    BY <1>3 DEF Escape, Outcome, counters, TypeOK
<1>4. \/ Succeed(f) /\ (Counted(f) => a = "ok")
      \/ \E end \in {"lost", "refused", "torn"} : Fail(f, end) /\ UNCHANGED handoff
      \/ a = "tornError" /\ Escape(f)
    BY DEF React, Counted, Answer
<1> QED
    BY <1>1, <1>2, <1>3, <1>4

\* A request that arrives is heard, and then settles its try, or it changes
\* nothing the reporter knows.
LEMMA ReachOutcome ==
    ASSUME TypeOK, NEW f \in Report, NEW n \in 0..Retries, NEW a \in Answer,
           NEW w \in BOOLEAN, Reach(f, n, a, w)
    PROVE  /\ n \in wire[f] /\ (a = "ok" => w)
           /\ wire' = [wire EXCEPT ![f] = @ \ {n}]
           /\ applied' = IF w THEN [applied EXCEPT ![f] = @ + 1] ELSE applied
           /\ handoff' \subseteq RunStart
           /\ UNCHANGED <<kind, tries, memo, runOf, flushing>>
           /\ \/ UNCHANGED <<phase, counters>>
              \/ \E p \in Settling :
                   /\ Outcome(f, p) /\ tries[f] = n
                   /\ p = "ok" /\ Counted(f) => a = "ok"
<1>1. CASE phase[f] = "sending" /\ tries[f] = n /\ a # "unheard"
    BY <1>1, ReactOutcome DEF Reach
<1>2. CASE ~(phase[f] = "sending" /\ tries[f] = n /\ a # "unheard")
    BY <1>2 DEF Reach, TypeOK
<1> QED
    BY <1>1, <1>2 DEF Reach

\* A connection that fails, or is given up on, settles its try.
LEMMA ExpireOutcome ==
    ASSUME NEW f, Expire(f)
    PROVE  /\ Outcome(f, "lost") \/ Outcome(f, "backoff")
           /\ UNCHANGED <<kind, tries, memo, runOf, handoff, flushing, network>>
BY FailOutcome DEF Expire

-----------------------------------------------------------------------------
\* Before anything is called the invariant holds.
LEMMA InitIInv == Init => IInv
<1> SUFFICES ASSUME Init PROVE IInv
    OBVIOUS
<1> USE ReporterAssumption DEF Report
<1>1. TypeOK
    BY DEF Init, TypeOK, Kind, Pending, Ended
<1>2. MemoOK
    BY DEF Init, MemoOK
<1>3. (\A f \in Report : WireOK(f)) /\ CountersOK /\ FlushOK
    BY DEF Init, WireOK, CountersOK, FlushOK, Ended
<1> QED
    BY <1>1, <1>2, <1>3 DEF IInv

\* Every step keeps the variables in their types.
LEMMA NextTypeOK == IInv /\ [Next]_vars => TypeOK'
<1> SUFFICES ASSUME IInv, [Next]_vars PROVE TypeOK'
    OBVIOUS
<1> USE ReporterAssumption DEF IInv, TypeOK, Pending, Ended, Settling
<1>1. ASSUME NEW c \in Call, NEW k \in Kind, NEW r \in RunStart, Invoke(c, k, r)
      PROVE  TypeOK'
    BY <1>1 DEF Invoke, EnsureRun, Report, counters, flushing, Kind
<1>2. ASSUME NEW c \in Call, Proceed(c) PROVE TypeOK'
    BY <1>2 DEF Proceed, Report, counters, flushing
<1>3. ASSUME NEW c \in Call, GoWithout(c) PROVE TypeOK'
    BY <1>3 DEF GoWithout, Report, counters, flushing, network
<1>4. ASSUME NEW f \in Report, NEW n \in 0..Retries, NEW a \in Answer,
             NEW w \in BOOLEAN, Reach(f, n, a, w)
      PROVE  TypeOK'
  <2>1. applied' \in [Report -> Nat] /\ wire' \in [Report -> SUBSET (0..Retries)]
    BY <1>4 DEF Reach
  <2>2. /\ handoff' \subseteq RunStart
        /\ UNCHANGED <<kind, tries, memo, runOf, flushing>>
        /\ \/ UNCHANGED <<phase, counters>>
           \/ \E p \in Settling : Outcome(f, p)
    BY <1>4, ReachOutcome
  <2> QED
    BY <2>1, <2>2 DEF Outcome, counters, flushing
<1>5. ASSUME NEW f \in Report, Expire(f) PROVE TypeOK'
    BY <1>5, ExpireOutcome DEF Outcome, flushing, network
<1>6. ASSUME NEW f \in Report, Retry(f) PROVE TypeOK'
    BY <1>6 DEF Retry, WireOK, counters, flushing
<1>7. CASE FlushBegins
    BY <1>7 DEF FlushBegins, Tracked, Steps, counters, network
<1>8. ASSUME NEW d \in BOOLEAN, FlushReturns(d) PROVE TypeOK'
    BY <1>8 DEF FlushReturns, counters, network
<1>9. CASE UNCHANGED vars
    BY <1>9 DEF vars, counters, flushing, network
<1>10. ASSUME NEW c \in Call, Unreadable(c) PROVE TypeOK'
    BY <1>10 DEF Unreadable, Report, counters, flushing, network
<1> QED
    BY <1>1, <1>2, <1>3, <1>4, <1>5, <1>6, <1>7, <1>8, <1>9, <1>10
       DEF Next, Advance

\* A run is started once and remembered.
LEMMA NextMemoOK == IInv /\ [Next]_vars => MemoOK'
<1> SUFFICES ASSUME IInv, [Next]_vars PROVE MemoOK'
    OBVIOUS
<1> USE ReporterAssumption DEF IInv, TypeOK, MemoOK, Report, Ended, Settling
<1>1. ASSUME NEW c \in Call, NEW k \in Kind, NEW r \in RunStart, Invoke(c, k, r)
      PROVE  MemoOK'
    BY <1>1 DEF Invoke, EnsureRun, Kind
<1>2. ASSUME NEW c \in Call, Proceed(c) PROVE MemoOK'
    BY <1>2 DEF Proceed
<1>3. ASSUME NEW c \in Call, GoWithout(c) PROVE MemoOK'
    BY <1>3 DEF GoWithout
<1>4. ASSUME NEW f \in Report, NEW n \in 0..Retries, NEW a \in Answer,
             NEW w \in BOOLEAN, Reach(f, n, a, w)
      PROVE  MemoOK'
  <2>1. /\ UNCHANGED <<kind, memo, runOf>>
        /\ \/ UNCHANGED phase
           \/ \E p \in Settling : Outcome(f, p)
    BY <1>4, ReachOutcome DEF counters
  <2> QED
    BY <2>1 DEF Outcome
<1>5. ASSUME NEW f \in Report, Expire(f) PROVE MemoOK'
    BY <1>5, ExpireOutcome DEF Outcome
<1>6. ASSUME NEW f \in Report, Retry(f) PROVE MemoOK'
    BY <1>6 DEF Retry
<1>7. CASE FlushBegins
    BY <1>7 DEF FlushBegins
<1>8. ASSUME NEW d \in BOOLEAN, FlushReturns(d) PROVE MemoOK'
    BY <1>8 DEF FlushReturns
<1>9. CASE UNCHANGED vars
    BY <1>9 DEF vars
<1>10. ASSUME NEW c \in Call, Unreadable(c) PROVE MemoOK'
    BY <1>10 DEF Unreadable
<1> QED
    BY <1>1, <1>2, <1>3, <1>4, <1>5, <1>6, <1>7, <1>8, <1>9, <1>10
       DEF Next, Advance

\* A request is applied once at most, and only one that is applied is answered
\* with a success.
LEMMA NextWireOK == IInv /\ [Next]_vars => \A f \in Report : WireOK(f)'
<1> SUFFICES ASSUME IInv, [Next]_vars, NEW g \in Report PROVE WireOK(g)'
    OBVIOUS
<1> USE ReporterAssumption DEF IInv, TypeOK, WireOK, Counted
<1>1. ASSUME NEW c \in Call, NEW k \in Kind, NEW r \in RunStart, Invoke(c, k, r)
      PROVE  WireOK(g)'
    BY <1>1 DEF Invoke, EnsureRun, Report, MemoOK
<1>2. ASSUME NEW c \in Call, Proceed(c) PROVE WireOK(g)'
    BY <1>2 DEF Proceed, Report
<1>3. ASSUME NEW c \in Call, GoWithout(c) PROVE WireOK(g)'
    BY <1>3 DEF GoWithout, Report, network
<1>4. ASSUME NEW f \in Report, NEW n \in 0..Retries, NEW a \in Answer,
             NEW w \in BOOLEAN, Reach(f, n, a, w)
      PROVE  WireOK(g)'
  <2>1. /\ n \in wire[f] /\ (a = "ok" => w)
        /\ wire' = [wire EXCEPT ![f] = @ \ {n}]
        /\ applied' = IF w THEN [applied EXCEPT ![f] = @ + 1] ELSE applied
        /\ tries' = tries /\ kind' = kind
        /\ \/ UNCHANGED phase
           \/ \E p \in Settling :
                /\ Outcome(f, p) /\ tries[f] = n
                /\ p = "ok" /\ Counted(f) => a = "ok"
    BY <1>4, ReachOutcome DEF counters
  <2> QED
    BY <2>1 DEF Outcome, Settling
<1>5. ASSUME NEW f \in Report, Expire(f) PROVE WireOK(g)'
    BY <1>5, ExpireOutcome DEF Outcome, network
<1>6. ASSUME NEW f \in Report, Retry(f) PROVE WireOK(g)'
    BY <1>6 DEF Retry
<1>7. CASE FlushBegins
    BY <1>7 DEF FlushBegins, network
<1>8. ASSUME NEW d \in BOOLEAN, FlushReturns(d) PROVE WireOK(g)'
    BY <1>8 DEF FlushReturns, network
<1>9. CASE UNCHANGED vars
    BY <1>9 DEF vars, network
<1>10. ASSUME NEW c \in Call, Unreadable(c) PROVE WireOK(g)'
    BY <1>10 DEF Unreadable, Report, network
<1> QED
    BY <1>1, <1>2, <1>3, <1>4, <1>5, <1>6, <1>7, <1>8, <1>9, <1>10
       DEF Next, Advance

\* A settled report stays settled, and keeps the method it was made by.
LEMMA EndedStays ==
    ASSUME IInv, [Next]_vars, NEW f \in Report, phase[f] \in Ended
    PROVE  phase'[f] = phase[f] /\ kind'[f] = kind[f]
<1> USE ReporterAssumption DEF IInv, TypeOK, MemoOK, Report, Ended
<1>1. ASSUME NEW c \in Call, NEW k \in Kind, NEW r \in RunStart, Invoke(c, k, r)
      PROVE  phase'[f] = phase[f] /\ kind'[f] = kind[f]
    BY <1>1 DEF Invoke, EnsureRun
<1>2. ASSUME NEW g \in Report, NEW n \in 0..Retries, NEW a \in Answer,
             NEW w \in BOOLEAN, Reach(g, n, a, w)
      PROVE  phase'[f] = phase[f] /\ kind'[f] = kind[f]
  <2>1. /\ kind' = kind
        /\ \/ UNCHANGED phase
           \/ \E p \in Settling : Outcome(g, p)
    BY <1>2, ReachOutcome DEF counters
  <2> QED
    BY <2>1 DEF Outcome
<1>3. ASSUME NEW g \in Report, Expire(g)
      PROVE  phase'[f] = phase[f] /\ kind'[f] = kind[f]
    BY <1>3, ExpireOutcome DEF Outcome
<1> QED
    BY <1>1, <1>2, <1>3
       DEF Next, Advance, Proceed, GoWithout, Unreadable, Retry, FlushBegins, FlushReturns, vars

\* What an outcome does to the counters is what it does to the reports.
LEMMA OutcomeCounts ==
    ASSUME IInv, NEW f \in Report, NEW p \in Settling,
           Outcome(f, p), kind' = kind
    PROVE  CountersOK'
<1> USE DEF IInv, TypeOK, CountersOK, Outcome, Counted
<1>1. successes' > 0 <=> \E g \in Report : kind[g] # "video" /\ phase'[g] = "ok"
    OBVIOUS
<1>2. failures' > 0 <=>
        \E g \in Report : kind[g] # "video" /\ phase'[g] \in {"lost", "refused", "torn"}
    OBVIOUS
<1>3. fatalFailures' > 0 <=>
        \E g \in Report : kind[g] # "video" /\ phase'[g] \in {"refused", "torn"}
    OBVIOUS
<1> QED
    BY <1>1, <1>2, <1>3

\* The counters keep up with the reports.
LEMMA NextCountersOK == IInv /\ [Next]_vars => CountersOK'
<1> SUFFICES ASSUME IInv, [Next]_vars PROVE CountersOK'
    OBVIOUS
<1> USE ReporterAssumption DEF IInv, TypeOK, CountersOK, Counted, Report
<1>1. ASSUME NEW c \in Call, NEW k \in Kind, NEW r \in RunStart, Invoke(c, k, r)
      PROVE  CountersOK'
    BY <1>1 DEF Invoke, EnsureRun, MemoOK, counters
<1>2. ASSUME NEW c \in Call, Proceed(c) PROVE CountersOK'
    BY <1>2 DEF Proceed, counters
<1>3. ASSUME NEW c \in Call, GoWithout(c) PROVE CountersOK'
    BY <1>3 DEF GoWithout, counters
<1>4. ASSUME NEW f \in Report, NEW n \in 0..Retries, NEW a \in Answer,
             NEW w \in BOOLEAN, Reach(f, n, a, w)
      PROVE  CountersOK'
  <2>1. /\ kind' = kind
        /\ \/ UNCHANGED <<phase, counters>>
           \/ \E p \in Settling : Outcome(f, p)
    BY <1>4, ReachOutcome
  <2>2. CASE UNCHANGED <<phase, counters>>
    BY <2>1, <2>2 DEF counters
  <2> QED
    BY <2>1, <2>2, OutcomeCounts
<1>5. ASSUME NEW f \in Report, Expire(f) PROVE CountersOK'
  <2>1. kind' = kind /\ \E p \in Settling : Outcome(f, p)
    BY <1>5, ExpireOutcome DEF Settling
  <2> QED
    BY <2>1, OutcomeCounts
<1>6. ASSUME NEW f \in Report, Retry(f) PROVE CountersOK'
    BY <1>6 DEF Retry, counters
<1>7. CASE FlushBegins
    BY <1>7 DEF FlushBegins, counters
<1>8. ASSUME NEW d \in BOOLEAN, FlushReturns(d) PROVE CountersOK'
    BY <1>8 DEF FlushReturns, counters
<1>9. CASE UNCHANGED vars
    BY <1>9 DEF vars, counters
<1>10. ASSUME NEW c \in Call, Unreadable(c) PROVE CountersOK'
    BY <1>10 DEF Unreadable, counters
<1> QED
    BY <1>1, <1>2, <1>3, <1>4, <1>5, <1>6, <1>7, <1>8, <1>9, <1>10
       DEF Next, Advance

\* flush takes every step that has not settled.
LEMMA NextFlushOK == IInv /\ [Next]_vars => FlushOK'
<1> SUFFICES ASSUME IInv, [Next]_vars PROVE FlushOK'
    OBVIOUS
<1> USE ReporterAssumption DEF IInv, TypeOK, FlushOK, Report
<1>1. CASE FlushBegins
  <2>1. \A c \in Steps : c \in Tracked \/ phase[c] \in Ended
    BY DEF Steps, Tracked, MemoOK, Pending, Ended
  <2> QED
    BY <1>1, <2>1 DEF FlushBegins
<1>2. ASSUME NEW d \in BOOLEAN, FlushReturns(d) PROVE FlushOK'
    BY <1>2 DEF FlushReturns
<1>3. CASE UNCHANGED flushing
    BY <1>3, EndedStays DEF flushing
<1>4. \/ UNCHANGED flushing
      \/ FlushBegins
      \/ \E d \in BOOLEAN : FlushReturns(d)
  <2>1. ASSUME NEW f \in Report, Advance(f) PROVE UNCHANGED flushing
    BY <2>1 DEF Advance, Expire, Retry
  <2>2. ASSUME NEW c \in Call, Proceed(c) \/ GoWithout(c) \/ Unreadable(c)
        PROVE  UNCHANGED flushing
    BY <2>2 DEF Proceed, GoWithout, Unreadable
  <2>3. ASSUME NEW f \in Report, NEW n \in 0..Retries, NEW a \in Answer,
               NEW w \in BOOLEAN, Reach(f, n, a, w)
        PROVE  UNCHANGED flushing
    BY <2>3 DEF Reach
  <2>4. ASSUME NEW c \in Call, NEW k \in Kind, NEW r \in RunStart, Invoke(c, k, r)
        PROVE  UNCHANGED flushing
    BY <2>4 DEF Invoke
  <2>5. CASE UNCHANGED vars
    BY <2>5 DEF vars
  <2> QED
    BY <2>1, <2>2, <2>3, <2>4, <2>5 DEF Next
<1> QED
    BY <1>1, <1>2, <1>3, <1>4

-----------------------------------------------------------------------------
\* The invariant behind the theorems below holds of every reachable state.
THEOREM Invariance == Spec => []IInv
<1>1. IInv /\ [Next]_vars => IInv'
    BY NextTypeOK, NextMemoOK, NextWireOK, NextCountersOK, NextFlushOK DEF IInv, Report
<1> QED
    BY <1>1, InitIInv, PTL DEF Spec

\* The reporter's variables keep their types.
THEOREM TypeCorrect == Spec => []TypeOK
<1>1. IInv => TypeOK
    BY DEF IInv
<1> QED
    BY <1>1, Invariance, PTL

\* A report that succeeded is on the platform, once if it was not retried.
THEOREM SuccessIsRecorded == Spec => []AcknowledgedIsRecorded
<1>1. IInv => AcknowledgedIsRecorded
    BY DEF IInv, TypeOK, WireOK, Counted, AcknowledgedIsRecorded
<1> QED
    BY <1>1, Invariance, PTL

\* One run is started, however many calls race for it.
THEOREM OneRunIsStarted == Spec => []OneRunPerProcess
<1>1. IInv => OneRunPerProcess
    BY DEF IInv, MemoOK, OneRunPerProcess
<1> QED
    BY <1>1, Invariance, PTL

\* Strict mode reads the counters as its policy wants.
THEOREM StrictModeIsExact == Spec => []StrictIsExact
<1>1. IInv => StrictIsExact
    BY DEF IInv, TypeOK, CountersOK, Counted, StrictIsExact, ReportingFailed
<1> QED
    BY <1>1, Invariance, PTL

\* A green strict run is on the platform, unless an error answer was cut off.
THEOREM GreenRunIsRecorded == Spec => []GreenIsRecorded
<1>1. IInv => GreenIsRecorded
  <2> SUFFICES ASSUME IInv, \A f \in Report : phase[f] \notin Pending \cup {"unnoted"},
                      ~ReportingFailed,
                      NEW c \in Call, kind[c] \notin {"none", "video"}
               PROVE  \E f \in Report : applied[f] >= 1
    BY DEF GreenIsRecorded
  <2> USE DEF IInv, TypeOK, Report
  <2>1. c \in Report /\ phase[c] \in Ended
    BY DEF MemoOK, Pending, Ended
  <2>2. \E f \in Report : Counted(f) /\ phase[f] \in {"ok", "lost", "refused", "torn"}
    BY <2>1 DEF Ended, MemoOK, Counted
  <2>3. \E f \in Report : Counted(f) /\ phase[f] = "ok"
    BY <2>2 DEF CountersOK, ReportingFailed
  <2> QED
    BY <2>3 DEF WireOK
<1> QED
    BY <1>1, Invariance, PTL

\* A flush that drained left no earlier step behind.
THEOREM FlushIsComplete == Spec => []FlushCoversEarlierSteps
<1>1. IInv => FlushCoversEarlierSteps
    BY DEF IInv, FlushOK, FlushCoversEarlierSteps
<1> QED
    BY <1>1, Invariance, PTL

=============================================================================
