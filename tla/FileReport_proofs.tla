--------------------------- MODULE FileReport_proofs ---------------------------
(***************************************************************************)
(* Theorems about FileReport.                                              *)
(***************************************************************************)
EXTENDS FileReport, TLAPS

USE FileReportAssumption, SkippedAssumption

LEMMA ListedIsKnown ==
    ASSUME NEW p \in Proc, NEW n \in Nat, n <= MaxScenarios[p]
    PROVE  {p} \X (1..n) \subseteq Scenarios
<1>1. {p} \X (1..MaxScenarios[p]) \subseteq Scenarios
  BY DEF Scenarios
<1>2. 1..n \subseteq 1..MaxScenarios[p]
  OBVIOUS
<1> QED BY <1>1, <1>2

LiveOK == \A p \in Proc : Listed(p) \subseteq Scenarios /\ Live(p) \subseteq Doc

LEMMA LiveIsKnown == MemoryOK => LiveOK
<1> SUFFICES ASSUME MemoryOK, NEW p \in Proc
             PROVE  Listed(p) \subseteq Scenarios /\ Live(p) \subseteq Doc
  BY DEF LiveOK
<1>1. Listed(p) \subseteq Scenarios
  BY ListedIsKnown DEF MemoryOK, Listed
<1>2. ASSUME NEW i \in Scenarios PROVE Render(i) \in Doc
  BY DEF MemoryOK, Render, Doc
<1> QED BY <1>1, <1>2 DEF Live

LEMMA LiveStaysKnown == MemoryOK' => LiveOK'
BY LiveIsKnown, PTL

LEMMA CurrentIsKnown ==
    ASSUME RunnerOK, MemoryOK, NEW p \in Proc, harness[p] \notin {"between", "exited"}
    PROVE  Current(p) \in Scenarios
<1>1. count[p] \in Nat /\ count[p] <= MaxScenarios[p] /\ count[p] > 0
  BY DEF RunnerOK, MemoryOK
<1>2. {p} \X (1..count[p]) \subseteq Scenarios
  BY <1>1, ListedIsKnown
<1>3. count[p] \in 1..count[p]
  BY <1>1
<1>4. Current(p) \in {p} \X (1..count[p])
  BY <1>3 DEF Current
<1> QED BY <1>2, <1>4

-----------------------------------------------------------------------------
(***************************************************************************)
(* Types.                                                                  *)
(***************************************************************************)
LEMMA IdleTyped == Idle \in WriteRec
<1>1. "idle" \in Stages
  BY DEF Stages
<1> QED BY <1>1 DEF Idle, WriteRec

\* What a step may do to one write.
LEMMA WriteStaysTyped ==
    ASSUME WriteOK, NEW w \in Write, NEW at \in Stages, NEW doc \in SUBSET Doc,
           NEW todo \in SUBSET Proc, NEW lone \in BOOLEAN,
           \/ write' = [write EXCEPT ![w] = Idle]
           \/ write' = [write EXCEPT ![w].at = at]
           \/ write' = [write EXCEPT ![w] = [@ EXCEPT !.at = at, !.doc = doc]]
           \/ write' = [write EXCEPT ![w] = [@ EXCEPT !.at = at, !.lone = lone, !.todo = todo]]
           \/ write' = [write EXCEPT ![w] = [@ EXCEPT !.todo = todo, !.lone = lone, !.doc = doc]]
    PROVE  WriteOK'
<1> DEFINE r == write[w]
<1>1. r \in WriteRec
  BY DEF WriteOK
<1>2. [r EXCEPT !.at = at] \in WriteRec
  BY <1>1 DEF WriteRec
<1>3. [r EXCEPT !.at = at, !.doc = doc] \in WriteRec
  BY <1>1 DEF WriteRec
<1>4. [r EXCEPT !.at = at, !.lone = lone, !.todo = todo] \in WriteRec
  BY <1>1 DEF WriteRec
<1>5. [r EXCEPT !.todo = todo, !.lone = lone, !.doc = doc] \in WriteRec
  BY <1>1 DEF WriteRec
<1>6. PICK s \in WriteRec : write' = [write EXCEPT ![w] = s]
  <2>1. CASE write' = [write EXCEPT ![w] = Idle]
    BY <2>1, IdleTyped
  <2>2. CASE write' = [write EXCEPT ![w].at = at]
    BY <2>2, <1>2
  <2>3. CASE write' = [write EXCEPT ![w] = [@ EXCEPT !.at = at, !.doc = doc]]
    BY <2>3, <1>3
  <2>4. CASE write' = [write EXCEPT ![w] = [@ EXCEPT !.at = at, !.lone = lone, !.todo = todo]]
    BY <2>4, <1>4
  <2>5. CASE write' = [write EXCEPT ![w] = [@ EXCEPT !.todo = todo, !.lone = lone, !.doc = doc]]
    BY <2>5, <1>5
  <2> QED BY <2>1, <2>2, <2>3, <2>4, <2>5
<1> HIDE DEF r
<1> QED BY <1>6 DEF WriteOK

LEMMA BeginTyped ==
    ASSUME TypeOK, MemoryOK', NEW p \in Proc, NEW w \in Write, NEW b \in BOOLEAN,
           Begin(p, w, b)
    PROVE  WriteOK' /\ healed' = Nobody
<1>1. Listed(p)' \in SUBSET Scenarios /\ Live(p)' \in SUBSET Doc
  BY LiveStaysKnown DEF LiveOK
<1>2. (\A u \in Write : ~Busy(u)) \in BOOLEAN
  OBVIOUS
<1> DEFINE fresh == [at   |-> IF shared THEN "mkdir" ELSE "open",
                     by   |-> p,
                     awaited |-> b,
                     own  |-> Listed(p)',
                     doc  |-> IF shared THEN {} ELSE Live(p)',
                     todo |-> {},
                     lone |-> \A u \in Write : ~Busy(u)]
<1>3. fresh \in WriteRec
  <2>1. (IF shared THEN "mkdir" ELSE "open") \in Stages
    BY DEF Stages
  <2>2. (IF shared THEN {} ELSE Live(p)') \in SUBSET Doc
    BY <1>1
  <2> QED BY <1>1, <1>2, <2>1, <2>2 DEF WriteRec
<1>4. ASSUME NEW v \in Write PROVE [write[v] EXCEPT !.lone = FALSE] \in WriteRec
  <2>1. write[v] \in WriteRec
    BY DEF TypeOK, WriteOK
  <2> QED BY <2>1 DEF WriteRec
<1>5. write' = [v \in Write |->
                  IF v # w THEN [write[v] EXCEPT !.lone = FALSE] ELSE fresh]
  BY DEF Begin
<1> HIDE DEF fresh
<1>6. WriteOK'
  BY <1>3, <1>4, <1>5 DEF WriteOK
<1> QED BY <1>6 DEF Begin

LEMMA DisturbTyped ==
    ASSUME TypeOK, NEW p \in Proc, Disturb(p)
    PROVE  WriteOK' /\ healed' \in Proc \cup {Nobody}
<1>1. ASSUME NEW w \in Write
      PROVE  [write[w] EXCEPT !.lone = @ /\ write[w].by # p] \in WriteRec
  <2>1. write[w] \in WriteRec
    BY DEF TypeOK, WriteOK
  <2>2. (write[w].lone /\ write[w].by # p) \in BOOLEAN
    OBVIOUS
  <2> QED BY <2>1, <2>2 DEF WriteRec
<1>2. WriteOK'
  BY <1>1 DEF Disturb, WriteOK
<1> QED BY <1>2 DEF Disturb, TypeOK

\* The variables of FileReport keep their types.
THEOREM TypeCorrect == Spec => []TypeOK
<1>1. Init => TypeOK
  <2> SUFFICES ASSUME Init PROVE TypeOK
    OBVIOUS
  <2>1. 0 \in Tries \/ Proc = {}
    BY DEF Tries
  <2>2. WriteOK
    BY IdleTyped DEF Init, WriteOK
  <2>3. MemoryOK
    <3>1. Scenarios = {} \/ 0 \in Tries
      BY <2>1 DEF Scenarios
    <3>2. <<>> \in Seq(StepRec)
      OBVIOUS
    <3> QED BY <3>1, <3>2 DEF Init, MemoryOK, Status
  <2>4. RunnerOK
    BY <2>1 DEF Init, RunnerOK
  <2>5. report \in [kind : {"none", "empty", "mixed", "whole"}, docs : SUBSET Doc]
    BY DEF Init
  <2>6. part \in [Proc -> (SUBSET Doc) \cup {NoPart}]
    BY DEF Init
  <2> QED BY <2>2, <2>3, <2>4, <2>5, <2>6 DEF Init, TypeOK
<1>2. TypeOK /\ [Next]_vars => TypeOK'
  <2> SUFFICES ASSUME TypeOK, [Next]_vars PROVE TypeOK'
    OBVIOUS
  <2>1. ASSUME NEW p \in Proc, StartScenario(p) PROVE TypeOK'
    <3>1. count[p] + 1 <= MaxScenarios[p]
      BY <2>1 DEF StartScenario, Upcoming, Scenarios, TypeOK, MemoryOK
    <3>2. MemoryOK'
      BY <2>1, <3>1 DEF StartScenario, TypeOK, MemoryOK
    <3>3. 0 \in Tries
      BY DEF Tries
    <3>4. RunnerOK'
      BY <2>1, <3>3 DEF StartScenario, TypeOK, RunnerOK, MemoryOK
    <3>5. WriteOK' /\ healed' \in Proc \cup {Nobody}
      BY <2>1, DisturbTyped DEF StartScenario
    <3> QED BY <2>1, <3>2, <3>4, <3>5 DEF StartScenario, TypeOK, files
  <2>2. ASSUME NEW p \in Proc, NEW class \in Class, RecordStep(p, class) PROVE TypeOK'
    <3>1. Current(p) \in Scenarios /\ Current(p)[1] = p
      BY <2>2, CurrentIsKnown DEF RecordStep, TypeOK, Current
    <3>2. WriteOK' /\ healed' \in Proc \cup {Nobody}
      <4>1. Disturb(p) \/ UNCHANGED <<write, healed>>
        BY <2>2, <3>1 DEF RecordStep, Reset
      <4>2. ASSUME Disturb(p) PROVE WriteOK' /\ healed' \in Proc \cup {Nobody}
        BY <4>2, DisturbTyped
      <4>3. ASSUME UNCHANGED <<write, healed>>
            PROVE  WriteOK' /\ healed' \in Proc \cup {Nobody}
        BY <4>3 DEF TypeOK, WriteOK
      <4> QED BY <4>1, <4>2, <4>3
    <3>3. MemoryOK'
      <4>1. try[p] \in Tries
        BY DEF TypeOK, RunnerOK
      <4>2. attempt' \in [Scenarios -> Tries]
        BY <2>2, <3>1, <4>1 DEF RecordStep, Reset, TypeOK, MemoryOK
      <4>3. UNCHANGED <<count, status, steps>>
        BY <2>2 DEF RecordStep
      <4> QED BY <4>2, <4>3 DEF TypeOK, MemoryOK
    <3>4. RunnerOK'
      BY <2>2 DEF RecordStep, TypeOK, RunnerOK
    <3>5. [attempt |-> try[p], sequence |-> next[p], class |-> class] \in StepRec
      BY DEF StepRec, TypeOK, RunnerOK
    <3>6. copying' \subseteq Scenarios \X StepRec
      BY <2>2, <3>1, <3>5 DEF RecordStep, TypeOK
    <3> QED BY <2>2, <3>2, <3>3, <3>4, <3>6 DEF RecordStep, TypeOK, files
  <2>3. ASSUME NEW p \in Proc, RunAgain(p) PROVE TypeOK'
    <3>1. try[p] + 1 \in Tries
      BY <2>3 DEF RunAgain, Tries, TypeOK, RunnerOK
    <3>2. RunnerOK'
      BY <2>3, <3>1 DEF RunAgain, TypeOK, RunnerOK, memory
    <3> QED BY <2>3, <3>2 DEF RunAgain, TypeOK, MemoryOK, WriteOK, memory, files
  <2>4. ASSUME NEW p \in Proc, Finished(p) PROVE TypeOK'
    BY <2>4 DEF Finished, TypeOK, RunnerOK, MemoryOK, WriteOK, memory, files
  <2>5. ASSUME NEW p \in Proc, Exit(p) PROVE TypeOK'
    <3>1. RunnerOK' /\ MemoryOK'
      BY <2>5 DEF Exit, TypeOK, RunnerOK, MemoryOK, memory
    <3>2. WriteOK'
      BY <2>5, IdleTyped DEF Exit, TypeOK, WriteOK
    <3>3. copying' \subseteq Scenarios \X StepRec
      BY <2>5 DEF Exit, TypeOK
    <3> QED BY <2>5, <3>1, <3>2, <3>3 DEF Exit, TypeOK, files
  <2>6. ASSUME NEW p \in Proc, NEW w \in Write, SkipScenario(p, w) PROVE TypeOK'
    <3>1. count[p] + 1 <= MaxScenarios[p] /\ Upcoming(p) \in Scenarios
      BY <2>6 DEF SkipScenario, Upcoming, Scenarios, TypeOK, MemoryOK
    <3>2. MemoryOK'
      BY <2>6, <3>1 DEF SkipScenario, TypeOK, MemoryOK, Status
    <3>3. WriteOK' /\ healed' = Nobody
      BY <2>6, <3>2, BeginTyped DEF SkipScenario
    <3>4. RunnerOK'
      BY <2>6 DEF SkipScenario, TypeOK, RunnerOK, MemoryOK, runner
    <3> QED BY <2>6, <3>2, <3>3, <3>4 DEF SkipScenario, TypeOK, files
  <2>7. ASSUME NEW p \in Proc, NEW w \in Write, Flush(p, w) PROVE TypeOK'
    <3>1. MemoryOK' /\ RunnerOK'
      BY <2>7 DEF Flush, TypeOK, MemoryOK, RunnerOK, memory
    <3>2. WriteOK' /\ healed' = Nobody
      BY <2>7, <3>1, BeginTyped DEF Flush
    <3> QED BY <2>7, <3>1, <3>2 DEF Flush, TypeOK, files
  <2>8. ASSUME NEW p \in Proc, NEW w \in Write, NEW v \in Verdict, FinishScenario(p, v, w)
        PROVE  TypeOK'
    <3>1. MemoryOK' /\ RunnerOK'
      BY <2>8 DEF FinishScenario, TypeOK, MemoryOK, RunnerOK, Status
    <3>2. WriteOK' /\ healed' = Nobody
      BY <2>8, <3>1, BeginTyped DEF FinishScenario
    <3> QED BY <2>8, <3>1, <3>2 DEF FinishScenario, TypeOK, files
  <2>9. ASSUME NEW c \in copying, NEW w \in Write, Push(c[1], c[2], w) PROVE TypeOK'
    <3>1. c[1] \in Scenarios /\ c[2] \in StepRec /\ c[1][1] \in Proc
      BY DEF TypeOK, Scenarios
    <3>2. Append(steps[c[1]][c[2].attempt], c[2]) \in Seq(StepRec)
      <4>1. c[2].attempt \in Tries
        BY <3>1 DEF StepRec
      <4>2. steps[c[1]][c[2].attempt] \in Seq(StepRec)
        BY <3>1, <4>1 DEF TypeOK, MemoryOK
      <4> QED BY <3>1, <4>2
    <3>3. MemoryOK'
      BY <2>9, <3>1, <3>2 DEF Push, TypeOK, MemoryOK, StepRec
    <3>4. WriteOK' /\ healed' = Nobody
      BY <2>9, <3>1, <3>3, BeginTyped DEF Push
    <3>5. RunnerOK'
      BY <2>9 DEF Push, TypeOK, RunnerOK, runner
    <3> QED BY <2>9, <3>3, <3>4, <3>5 DEF Push, TypeOK, files
  <2>10. ASSUME NEW w \in Write, Advance(w) PROVE TypeOK'
    <3> USE DEF runner, memory, files
    <3>0. write[w] \in WriteRec /\ write[w].own \subseteq Scenarios
          /\ write[w].doc \in SUBSET Doc /\ write[w].todo \in SUBSET Proc
          /\ write[w].by \in Proc \cup {Nobody}
      BY DEF TypeOK, WriteOK, WriteRec
    <3> DEFINE Rendered == {Render(i) : i \in write[w].own}
    <3>r. Rendered \in SUBSET Doc
      BY <3>0 DEF TypeOK, MemoryOK, Render, Doc
    <3> HIDE DEF Rendered
    <3>s. {"rename", "list", "read", "open", "land"} \subseteq Stages
      BY DEF Stages
    <3>1. CASE Stringify(w)
      <4>1. WriteOK'
        BY <3>1, <3>0, <3>r, <3>s, WriteStaysTyped DEF Stringify, TypeOK, Rendered
      <4> QED BY <3>1, <4>1 DEF Stringify, TypeOK, RunnerOK, MemoryOK
    <3>2. CASE Rename(w)
      <4>1. WriteOK'
        BY <3>2, <3>s, WriteStaysTyped DEF Rename, TypeOK
      <4>2. part' \in [Proc -> (SUBSET Doc) \cup {NoPart}]
        BY <3>2, <3>0 DEF Rename, TypeOK
      <4> QED BY <3>2, <4>1, <4>2 DEF Rename, TypeOK, RunnerOK, MemoryOK
    <3>3. ASSUME NEW listed \in BOOLEAN, List(w, listed) PROVE TypeOK'
      <4> DEFINE others == {q \in Proc : listed /\ part[q] # NoPart} \ {write[w].by}
                 lone   == write[w].lone /\ listed
      <4>1. others \in SUBSET Proc /\ lone \in BOOLEAN
        OBVIOUS
      <4>3. write' = [write EXCEPT ![w] =
                        [@ EXCEPT !.at = "read", !.lone = lone, !.todo = others]]
        BY <3>3 DEF List
      <4> HIDE DEF others, lone
      <4>2. WriteOK'
        BY <3>0, <3>s, <4>1, <4>3, WriteStaysTyped DEF TypeOK
      <4> QED BY <3>3, <4>2 DEF List, TypeOK, RunnerOK, MemoryOK
    <3>4. ASSUME NEW q \in Proc, NEW parsed \in BOOLEAN, ReadPart(w, q, parsed) PROVE TypeOK'
      <4>1. part[q] \in (SUBSET Doc) \cup {NoPart}
        BY DEF TypeOK
      <4>2. Parts(q) \in SUBSET Doc
        BY <4>1 DEF Parts
      <4> DEFINE left == write[w].todo \ {q}
                 got  == write[w].doc \cup (IF parsed THEN Parts(q) ELSE {})
                 lone == write[w].lone /\ parsed
      <4>3. left \in SUBSET Proc /\ got \in SUBSET Doc /\ lone \in BOOLEAN
        BY <3>0, <4>2
      <4>4. write' = [write EXCEPT ![w] =
                        [@ EXCEPT !.todo = left, !.lone = lone, !.doc = got]]
        BY <3>4 DEF ReadPart
      <4> HIDE DEF left, got, lone
      <4>5. WriteOK'
        BY <3>s, <4>3, <4>4, WriteStaysTyped DEF TypeOK
      <4> QED BY <3>4, <4>5 DEF ReadPart, TypeOK, RunnerOK, MemoryOK
    <3>5. CASE RenderReport(w)
      <4> DEFINE page == write[w].doc \cup Rendered
      <4>1. page \in SUBSET Doc
        BY <3>0, <3>r
      <4>2. write' = [write EXCEPT ![w] = [@ EXCEPT !.at = "open", !.doc = page]]
        BY <3>5 DEF RenderReport, Rendered
      <4> HIDE DEF page
      <4>3. WriteOK'
        BY <3>0, <3>s, <4>1, <4>2, WriteStaysTyped DEF TypeOK
      <4> QED BY <3>5, <4>3 DEF RenderReport, TypeOK, RunnerOK, MemoryOK
    <3>6. CASE Open(w)
      <4>1. WriteOK'
        BY <3>6, <3>0, <3>s, WriteStaysTyped DEF Open, Enter, TypeOK
      <4> QED BY <3>6, <4>1 DEF Open, TypeOK, RunnerOK, MemoryOK
    <3>7. CASE Land(w)
      <4>1. WriteOK'
        BY <3>7, <3>0, <3>s, WriteStaysTyped DEF Land, TypeOK
      <4>2. report' \in [kind : {"none", "empty", "mixed", "whole"}, docs : SUBSET Doc]
        BY <3>7, <3>0 DEF Land
      <4>3. healed' \in Proc \cup {Nobody}
        BY <3>7, <3>0 DEF Land, TypeOK
      <4> QED BY <3>7, <4>1, <4>2, <4>3 DEF Land, TypeOK, RunnerOK, MemoryOK
    <3>8. CASE WriteFails(w)
      <4>1. WriteOK'
        BY <3>8, <3>0, <3>s, WriteStaysTyped DEF WriteFails, TypeOK
      <4> QED BY <3>8, <4>1 DEF WriteFails, TypeOK, RunnerOK, MemoryOK
    <3> QED BY <2>10, <3>1, <3>2, <3>3, <3>4, <3>5, <3>6, <3>7, <3>8 DEF Advance
  <2>11. CASE UNCHANGED vars
    BY <2>11 DEF vars, TypeOK, RunnerOK, MemoryOK, WriteOK, runner, memory, files
  <2> QED
    BY <2>1, <2>2, <2>3, <2>4, <2>5, <2>6, <2>7, <2>8, <2>9, <2>10, <2>11
    DEF Next, Runner, AllExited
<1> QED BY <1>1, <1>2, PTL DEF Spec

\* A scenario that finished is shown the same here and on the dashboard, whatever
\* steps it holds: the two orders of precedence differ only while it runs.
THEOREM FinishedBadgesAgree == Spec => []FinishedShownAsOnDashboard
<1>1. TypeOK => FinishedShownAsOnDashboard
  <2> SUFFICES ASSUME TypeOK, NEW d \in report.docs, d.status # "running"
               PROVE  ReportBadge(d) = DashboardBadge(d)
    BY DEF FinishedShownAsOnDashboard
  <2>1. d \in Doc
    BY DEF TypeOK
  <2>2. d.status \in {"skipped", "passed", "failed"}
    BY <2>1 DEF Doc, Status, Verdict
  <2> QED BY <2>2 DEF ReportBadge, DashboardBadge
<1> QED BY <1>1, TypeCorrect, PTL

-----------------------------------------------------------------------------
(***************************************************************************)
(* Where the documents come from: a write takes them from memory and from  *)
(* files, and a file from a write.                                         *)
(***************************************************************************)
InMemory == {Render(i) : i \in Scenarios}
InWrites == UNION {write[w].doc : w \in Write}

Provenance ==
    /\ InWrites' \subseteq InWrites \cup OnDisk \cup InMemory'
    /\ OnDisk' \subseteq OnDisk \cup InWrites

LEMMA DocsInWrites ==
    ASSUME \A w \in Write : write[w].doc' \subseteq InWrites \cup OnDisk \cup InMemory'
    PROVE  InWrites' \subseteq InWrites \cup OnDisk \cup InMemory'
BY DEF InWrites

LEMMA BeginTakesMemory ==
    ASSUME TypeOK, MemoryOK', NEW p \in Proc, NEW w \in Write, NEW b \in BOOLEAN,
           Begin(p, w, b), UNCHANGED files
    PROVE  Provenance
<1>1. Live(p)' \subseteq InMemory'
  <2>1. Listed(p)' \subseteq Scenarios
    BY LiveStaysKnown DEF LiveOK
  <2> QED BY <2>1 DEF Live, InMemory
<1>2. ASSUME NEW v \in Write
      PROVE  write[v].doc' \subseteq InWrites \cup OnDisk \cup InMemory'
  <2>1. CASE v = w
    BY <1>1, <2>1 DEF Begin
  <2>2. CASE v # w
    <3>1. write[v]' = [write[v] EXCEPT !.lone = FALSE]
      BY <2>2 DEF Begin
    <3>2. write[v] \in WriteRec
      BY DEF TypeOK, WriteOK
    <3>3. write[v].doc' = write[v].doc
      BY <3>1, <3>2 DEF WriteRec
    <3> QED BY <3>3 DEF InWrites
  <2> QED BY <2>1, <2>2
<1>3. OnDisk' = OnDisk
  BY DEF OnDisk, Parts, files
<1> QED BY <1>2, <1>3, DocsInWrites DEF Provenance

LEMMA NothingTaken ==
    ASSUME TypeOK, UNCHANGED files,
           \A w \in Write : write[w].doc' \subseteq write[w].doc
    PROVE  Provenance
<1>1. OnDisk' = OnDisk
  BY DEF OnDisk, Parts, files
<1>2. InWrites' \subseteq InWrites
  BY DEF InWrites
<1> QED BY <1>1, <1>2 DEF Provenance

LEMMA DisturbTakesNothing ==
    ASSUME TypeOK, NEW p \in Proc, Disturb(p), UNCHANGED files
    PROVE  Provenance
<1>1. ASSUME NEW w \in Write PROVE write[w].doc' \subseteq write[w].doc
  <2>1. write[w]' = [write[w] EXCEPT !.lone = @ /\ write[w].by # p]
    BY DEF Disturb
  <2>2. write[w] \in WriteRec
    BY DEF TypeOK, WriteOK
  <2> QED BY <2>1, <2>2 DEF WriteRec
<1> QED BY <1>1, NothingTaken

LEMMA DocsComeFromMemory == TypeOK /\ TypeOK' /\ [Next]_vars => Provenance
<1> SUFFICES ASSUME TypeOK, TypeOK', [Next]_vars PROVE Provenance
  OBVIOUS
<1> USE DEF files
<1>1. MemoryOK'
  BY DEF TypeOK
<1>2. CASE UNCHANGED <<write, files>>
  <2>1. \A w \in Write : write[w].doc' \subseteq write[w].doc
    BY <1>2
  <2> QED BY <1>2, <2>1, NothingTaken
<1>3. ASSUME NEW p \in Proc, Runner(p) PROVE Provenance
  <2>1. CASE StartScenario(p)
    BY <2>1, DisturbTakesNothing DEF StartScenario
  <2>2. ASSUME NEW class \in Class, RecordStep(p, class) PROVE Provenance
    <3>1. Current(p)[1] = p
      BY DEF Current
    <3>2. Disturb(p) \/ UNCHANGED write
      BY <2>2, <3>1 DEF RecordStep, Reset
    <3>3. UNCHANGED files
      BY <2>2 DEF RecordStep
    <3> QED BY <3>2, <3>3, <1>2, DisturbTakesNothing
  <2>3. CASE RunAgain(p) \/ Finished(p)
    BY <2>3, <1>2 DEF RunAgain, Finished
  <2>4. CASE Exit(p)
    <3>1. ASSUME NEW w \in Write PROVE write[w].doc' \subseteq write[w].doc
      BY <2>4 DEF Exit, Idle
    <3> QED BY <2>4, <3>1, NothingTaken DEF Exit
  <2>5. ASSUME NEW w \in Write, SkipScenario(p, w) PROVE Provenance
    BY <2>5, <1>1, BeginTakesMemory DEF SkipScenario
  <2>6. ASSUME NEW w \in Write, Flush(p, w) PROVE Provenance
    BY <2>6, <1>1, BeginTakesMemory DEF Flush
  <2>7. ASSUME NEW w \in Write, NEW v \in Verdict, FinishScenario(p, v, w)
        PROVE  Provenance
    BY <2>7, <1>1, BeginTakesMemory DEF FinishScenario
  <2> QED BY <1>3, <2>1, <2>2, <2>3, <2>4, <2>5, <2>6, <2>7 DEF Runner
<1>4. ASSUME NEW c \in copying, NEW w \in Write, Push(c[1], c[2], w)
      PROVE  Provenance
  <2>1. c[1][1] \in Proc
    BY DEF TypeOK, Scenarios
  <2> QED BY <1>4, <1>1, <2>1, BeginTakesMemory DEF Push
<1>5. ASSUME NEW w \in Write, Advance(w) PROVE Provenance
  <2>1. write \in [Write -> WriteRec] /\ write[w] \in WriteRec
        /\ write[w].own \subseteq Scenarios
    BY DEF TypeOK, WriteOK, WriteRec
  <2> DEFINE Rendered == {Render(i) : i \in write[w].own}
  <2>2. UNCHANGED memory => Rendered \subseteq InMemory'
    BY <2>1 DEF InMemory, Render, memory
  <2> HIDE DEF Rendered
  <2>3. write[w].doc \subseteq InWrites
    BY DEF InWrites
  <2>4. ASSUME NEW doc, doc \subseteq InWrites \cup OnDisk \cup InMemory',
               write'[w].doc = doc,
               \A v \in Write \ {w} : write'[v] = write[v]
        PROVE  InWrites' \subseteq InWrites \cup OnDisk \cup InMemory'
    <3>1. ASSUME NEW v \in Write
          PROVE  write[v].doc' \subseteq InWrites \cup OnDisk \cup InMemory'
      BY <2>4 DEF InWrites
    <3> QED BY <3>1, DocsInWrites
  <2>5. UNCHANGED files => OnDisk' = OnDisk
    BY DEF OnDisk, Parts
  <2>6. CASE Stringify(w)
    <3>1. write'[w].doc = Rendered /\ \A v \in Write \ {w} : write'[v] = write[v]
      BY <2>6, <2>1 DEF Stringify, Rendered, WriteRec
    <3> QED BY <2>6, <2>2, <2>4, <2>5, <3>1 DEF Stringify, Provenance
  <2>7. CASE Rename(w)
    <3>1. write'[w].doc = {} /\ \A v \in Write \ {w} : write'[v] = write[v]
      BY <2>7, <2>1 DEF Rename, WriteRec
    <3>2. OnDisk' \subseteq OnDisk \cup InWrites
      <4>1. ASSUME NEW q \in Proc PROVE Parts(q)' \subseteq OnDisk \cup InWrites
        BY <2>7, <2>3 DEF Rename, Parts, OnDisk, TypeOK
      <4>2. report' = report
        BY <2>7 DEF Rename
      <4> QED BY <4>1, <4>2 DEF OnDisk
    <3> QED BY <2>4, <3>1, <3>2 DEF Provenance
  <2>8. ASSUME NEW listed \in BOOLEAN, List(w, listed) PROVE Provenance
    <3>1. write'[w].doc = write[w].doc /\ \A v \in Write \ {w} : write'[v] = write[v]
      BY <2>8, <2>1 DEF List, WriteRec
    <3> QED BY <2>8, <2>3, <2>4, <2>5, <3>1 DEF List, Provenance
  <2>9. ASSUME NEW q \in Proc, NEW parsed \in BOOLEAN, ReadPart(w, q, parsed) PROVE Provenance
    <3>1. write'[w].doc = write[w].doc \cup (IF parsed THEN Parts(q) ELSE {})
          /\ \A v \in Write \ {w} : write'[v] = write[v]
      BY <2>9, <2>1 DEF ReadPart, WriteRec
    <3>2. Parts(q) \subseteq OnDisk
      BY DEF OnDisk
    <3> QED BY <2>9, <2>3, <2>4, <2>5, <3>1, <3>2 DEF ReadPart, Provenance
  <2>10. CASE RenderReport(w)
    <3>1. write'[w].doc = write[w].doc \cup Rendered
          /\ \A v \in Write \ {w} : write'[v] = write[v]
      BY <2>10, <2>1 DEF RenderReport, Rendered, WriteRec
    <3> QED BY <2>10, <2>2, <2>3, <2>4, <2>5, <3>1 DEF RenderReport, Provenance
  <2>11. CASE Open(w)
    <3>1. write'[w].doc = write[w].doc /\ \A v \in Write \ {w} : write'[v] = write[v]
      BY <2>11, <2>1 DEF Open, Enter, WriteRec
    <3>2. OnDisk' \subseteq OnDisk
      BY <2>11 DEF Open, OnDisk, Parts
    <3> QED BY <2>3, <2>4, <3>1, <3>2 DEF Provenance
  <2>12. CASE Land(w)
    <3>1. write'[w].doc = {} /\ \A v \in Write \ {w} : write'[v] = write[v]
      BY <2>12, <2>1 DEF Land, Idle
    <3>2. OnDisk' \subseteq OnDisk \cup InWrites
      BY <2>12, <2>3 DEF Land, OnDisk, Parts
    <3> QED BY <2>4, <3>1, <3>2 DEF Provenance
  <2>13. CASE WriteFails(w)
    <3>1. write'[w].doc = {} /\ \A v \in Write \ {w} : write'[v] = write[v]
      BY <2>13, <2>1 DEF WriteFails, Idle
    <3> QED BY <2>13, <2>4, <2>5, <3>1 DEF WriteFails, Provenance
  <2> QED BY <1>5, <2>6, <2>7, <2>8, <2>9, <2>10, <2>11, <2>12, <2>13 DEF Advance
<1> QED BY <1>2, <1>3, <1>4, <1>5 DEF Next, AllExited, vars

-----------------------------------------------------------------------------
(***************************************************************************)
(* No list mixes the steps of two attempts.  The array a step is appended  *)
(* to was its scenario's when the step was recorded, so an array only ever *)
(* holds steps of one attempt, whichever attempt is current by then.       *)
(***************************************************************************)
OneAttempt(d) == \A m, n \in DOMAIN d.steps : d.steps[m].attempt = d.steps[n].attempt

ListsApart ==
    \A i \in Scenarios, a \in Tries : \A n \in DOMAIN steps[i][a] :
        steps[i][a][n].attempt = a

MemoryApart == \A d \in InMemory : OneAttempt(d)
WritesApart == \A d \in InWrites : OneAttempt(d)

LEMMA RendersApart == MemoryOK /\ ListsApart => MemoryApart
BY DEF MemoryOK, ListsApart, MemoryApart, InMemory, Render, OneAttempt

LEMMA RendersStayApart == MemoryOK' /\ ListsApart' => MemoryApart'
BY RendersApart, PTL

LEMMA PushKeepsApart ==
    ASSUME MemoryOK, ListsApart, NEW i \in Scenarios, NEW e \in StepRec,
           NEW w \in Write, Push(i, e, w)
    PROVE  ListsApart'
<1> SUFFICES ASSUME NEW j \in Scenarios, NEW a \in Tries,
                    NEW n \in DOMAIN steps'[j][a]
             PROVE  steps'[j][a][n].attempt = a
  BY DEF ListsApart
<1>1. e.attempt \in Tries
  BY DEF StepRec
<1>2. CASE j = i /\ a = e.attempt
  <2>1. steps'[j][a] = Append(steps[j][a], e)
    BY <1>1, <1>2 DEF Push, MemoryOK
  <2>2. steps[j][a] \in Seq(StepRec)
    BY DEF MemoryOK
  <2>3. n \in 1..(Len(steps[j][a]) + 1)
    BY <2>1, <2>2
  <2>4. CASE n = Len(steps[j][a]) + 1
    BY <1>2, <2>1, <2>2, <2>4
  <2>5. CASE n \in 1..Len(steps[j][a])
    <3>1. steps'[j][a][n] = steps[j][a][n]
      BY <2>1, <2>2, <2>5
    <3> QED BY <2>2, <2>5, <3>1 DEF ListsApart
  <2>6. Len(steps[j][a]) \in Nat
    BY <2>2
  <2>7. n = Len(steps[j][a]) + 1 \/ n \in 1..Len(steps[j][a])
    BY <2>3, <2>6
  <2> QED BY <2>4, <2>5, <2>7
<1>3. CASE ~(j = i /\ a = e.attempt)
  <2>1. steps'[j][a] = steps[j][a]
    BY <1>1, <1>3 DEF Push, MemoryOK
  <2> QED BY <2>1 DEF ListsApart
<1> QED BY <1>2, <1>3

\* However late a step's screenshot is copied, no list that was ever written to the
\* report or to a part mixes the steps of two attempts.
THEOREM AttemptsApart == Spec => []OneAttemptShown
<1> DEFINE Inv == ListsApart /\ WritesApart /\ OneAttemptShown
<1>1. Init => Inv
  <2> SUFFICES ASSUME Init PROVE Inv
    OBVIOUS
  <2>1. ListsApart
    BY DEF Init, ListsApart
  <2>2. InWrites = {}
    BY DEF Init, InWrites, Idle
  <2>3. OnDisk = {}
    BY DEF Init, OnDisk, Parts
  <2> QED BY <2>1, <2>2, <2>3 DEF WritesApart, OneAttemptShown
<1>2. Inv /\ TypeOK /\ TypeOK' /\ [Next]_vars => Inv'
  <2> SUFFICES ASSUME Inv, TypeOK, TypeOK', [Next]_vars PROVE Inv'
    OBVIOUS
  <2>1. ListsApart'
    <3>1. CASE UNCHANGED steps
      BY <3>1 DEF ListsApart
    <3>2. ASSUME NEW c \in copying, NEW w \in Write, Push(c[1], c[2], w)
          PROVE  ListsApart'
      <4>1. c[1] \in Scenarios /\ c[2] \in StepRec
        BY DEF TypeOK
      <4> QED BY <3>2, <4>1, PushKeepsApart DEF TypeOK
    <3>3. (\E c \in copying, w \in Write : Push(c[1], c[2], w)) \/ UNCHANGED steps
      <4> USE DEF memory
      <4>1. ASSUME NEW p \in Proc, Runner(p) PROVE UNCHANGED steps
        BY <4>1 DEF Runner, StartScenario, RecordStep, RunAgain, Finished, Exit,
                    SkipScenario, Flush, FinishScenario
      <4>2. ASSUME NEW w \in Write, Advance(w) PROVE UNCHANGED steps
        BY <4>2 DEF Advance, Stringify, Rename, List, ReadPart, RenderReport, Open,
                    Land, WriteFails
      <4> QED BY <4>1, <4>2 DEF Next, AllExited, vars
    <3> QED BY <3>1, <3>2, <3>3
  <2>2. MemoryApart'
    BY <2>1, RendersStayApart DEF TypeOK
  <2>3. Provenance
    BY DocsComeFromMemory
  <2>4. ASSUME NEW d \in OnDisk PROVE OneAttempt(d)
    BY DEF OneAttemptShown, OneAttempt
  <2>5. WritesApart'
    <3>1. ASSUME NEW d \in InWrites' PROVE OneAttempt(d)
      BY <2>2, <2>3, <2>4 DEF Provenance, WritesApart, MemoryApart
    <3> QED BY <3>1 DEF WritesApart
  <2>6. OneAttemptShown'
    <3>1. ASSUME NEW d \in OnDisk' PROVE OneAttempt(d)
      BY <2>3, <2>4 DEF Provenance, WritesApart
    <3> QED BY <3>1 DEF OneAttemptShown, OneAttempt
  <2> QED BY <2>1, <2>5, <2>6
<1>3. Inv => OneAttemptShown
  OBVIOUS
<1> QED BY <1>1, <1>2, <1>3, TypeCorrect, PTL DEF Spec

-----------------------------------------------------------------------------
(***************************************************************************)
(* An undisturbed write leaves both files whole.  The invariant follows    *)
(* such a write through its stages: it has no company, it took everything  *)
(* its process lists, and from the rename on the part is what the memory   *)
(* is, until another write begins or the memory changes.                   *)
(***************************************************************************)
OtherParts(p) == UNION {Parts(q) : q \in Proc \ {p}}

\* How far a write that nothing overlapped has got.
OnTrack(w) ==
    LET r == write[w] IN
    /\ r.by \in Proc /\ r.own = Listed(r.by)
    /\ \A v \in Write \ {w} : ~Busy(v)
    /\ r.at = "rename" => r.doc = Live(r.by)
    /\ r.at = "list" => r.doc = {}
    /\ r.at = "read" =>
         /\ r.by \notin r.todo /\ r.todo \subseteq Proc
         /\ r.doc \cup UNION {Parts(q) : q \in r.todo} = OtherParts(r.by)
    /\ r.at \in {"open", "land"} => r.doc = Live(r.by) \cup OtherParts(r.by)
    /\ shared /\ r.at \notin {"mkdir", "rename"} => part[r.by] = Live(r.by)
    /\ r.at = "land" => report.kind = "empty"

Tracked == \A w \in Write : Busy(w) /\ write[w].lone => OnTrack(w)

Alone ==
    ~shared => /\ \A p \in Proc : part[p] = NoPart
               /\ \A w \in Write : write[w].at \in {"idle", "open", "land"}

Healed == healed # Nobody => /\ healed \in Proc
                             /\ \A w \in Write : ~Busy(w)
                             /\ UndisturbedWriteHeals

HealInv == Tracked /\ Alone /\ Healed

HealedFor(p) ==
    /\ report.kind = "whole"
    /\ shared => part[p] = Live(p)
    /\ report.docs = Live(p) \cup OtherParts(p)

LEMMA HealedMeansHealed ==
    UndisturbedWriteHeals <=> (healed # Nobody => HealedFor(healed))
BY DEF UndisturbedWriteHeals, HealedFor, OtherParts

LEMMA HealedMeansHealedNext ==
    UndisturbedWriteHeals' <=> (healed' # Nobody => HealedFor(healed)')
BY DEF UndisturbedWriteHeals, HealedFor, OtherParts

\* Memory of a process that a step leaves alone.
Kept(p) == Listed(p)' = Listed(p) /\ Live(p)' = Live(p)

LEMMA MemoryKept ==
    ASSUME UNCHANGED memory, NEW p \in Proc
    PROVE  Kept(p)
BY DEF Kept, Listed, Live, Render, memory

LEMMA OthersKept ==
    ASSUME UNCHANGED part, NEW p
    PROVE  OtherParts(p)' = OtherParts(p)
BY DEF OtherParts, Parts

\* A write on its track stays there while nothing it relies on changes.
LEMMA StaysOnTrack ==
    ASSUME NEW w \in Write, OnTrack(w), Kept(write[w].by), UNCHANGED <<shared, files>>,
           write'[w].at = write[w].at, write'[w].by = write[w].by,
           write'[w].own = write[w].own, write'[w].doc = write[w].doc,
           write'[w].todo = write[w].todo,
           \A v \in Write \ {w} : write'[v].at = write[v].at \/ write'[v].at = "idle"
    PROVE  OnTrack(w)'
<1>1. OtherParts(write[w].by)' = OtherParts(write[w].by)
  BY OthersKept DEF files
<1>2. \A q : Parts(q)' = Parts(q)
  BY DEF Parts, files
<1>3. part' = part /\ report' = report /\ shared' = shared
  BY DEF files
<1>4. UNION {Parts(q)' : q \in write[w].todo} = UNION {Parts(q) : q \in write[w].todo}
  BY <1>2
<1>5. \A v \in Write \ {w} : write'[v].at = "idle"
  BY DEF OnTrack, Busy
<1> QED BY <1>1, <1>3, <1>4, <1>5 DEF OnTrack, Kept, Busy

LEMMA AloneKept ==
    ASSUME Alone, UNCHANGED <<shared, part>>,
           \A w \in Write : write'[w].at = write[w].at \/ write'[w].at = "idle"
    PROVE  Alone'
BY DEF Alone

\* A step that lets no write progress and changes the memory of p at most.
LEMMA DisturbKeepsHealing ==
    ASSUME TypeOK, HealInv, NEW p \in Proc, Disturb(p), UNCHANGED <<shared, files>>,
           \A q \in Proc \ {p} : Kept(q)
    PROVE  HealInv'
<1>1. ASSUME NEW w \in Write
      PROVE  /\ write'[w].at = write[w].at /\ write'[w].by = write[w].by
             /\ write'[w].own = write[w].own /\ write'[w].doc = write[w].doc
             /\ write'[w].todo = write[w].todo
             /\ write'[w].lone => write[w].lone /\ write[w].by # p
  <2>1. write'[w] = [write[w] EXCEPT !.lone = @ /\ write[w].by # p]
    BY DEF Disturb
  <2>2. write[w] \in WriteRec
    BY DEF TypeOK, WriteOK
  <2> QED BY <2>1, <2>2 DEF WriteRec
<1>2. Tracked'
  <2> SUFFICES ASSUME NEW w \in Write, Busy(w)', write'[w].lone PROVE OnTrack(w)'
    BY DEF Tracked
  <2>1. OnTrack(w)
    BY <1>1 DEF HealInv, Tracked, Busy
  <2>2. Kept(write[w].by)
    BY <1>1, <2>1 DEF OnTrack
  <2> QED BY <1>1, <2>1, <2>2, StaysOnTrack
<1>3. Alone'
  BY <1>1, AloneKept DEF HealInv, files
<1>4. Healed'
  <2> SUFFICES ASSUME healed' # Nobody
               PROVE  healed' \in Proc /\ (\A w \in Write : ~Busy(w))' /\ HealedFor(healed)'
    BY HealedMeansHealedNext DEF Healed
  <2>1. healed' = healed /\ healed # p
    BY DEF Disturb
  <2>2. healed \in Proc /\ (\A w \in Write : ~Busy(w)) /\ HealedFor(healed)
    BY <2>1, HealedMeansHealed DEF HealInv, Healed
  <2>3. Kept(healed)
    BY <2>1, <2>2
  <2> QED BY <1>1, <2>1, <2>2, <2>3, OthersKept DEF HealedFor, Kept, Busy, files
<1> QED BY <1>2, <1>3, <1>4 DEF HealInv

LEMMA BeginKeepsHealing ==
    ASSUME TypeOK, HealInv, NEW p \in Proc, NEW w \in Write, NEW b \in BOOLEAN,
           Begin(p, w, b), UNCHANGED <<shared, files>>
    PROVE  HealInv'
<1>1. write[w].at = "idle" /\ healed' = Nobody
  BY DEF Begin, Busy
<1>2. /\ write'[w].at = IF shared THEN "mkdir" ELSE "open"
      /\ write'[w].by = p /\ write'[w].own = Listed(p)'
      /\ write'[w].doc = IF shared THEN {} ELSE Live(p)'
      /\ write'[w].lone => \A v \in Write : ~Busy(v)
  BY DEF Begin
<1>3. ASSUME NEW v \in Write \ {w}
      PROVE  write'[v].at = write[v].at /\ ~write'[v].lone
  <2>1. write'[v] = [write[v] EXCEPT !.lone = FALSE]
    BY DEF Begin
  <2>2. write[v] \in WriteRec
    BY DEF TypeOK, WriteOK
  <2> QED BY <2>1, <2>2 DEF WriteRec
<1>4. Tracked'
  <2> SUFFICES ASSUME NEW v \in Write, Busy(v)', write'[v].lone PROVE OnTrack(v)'
    BY DEF Tracked
  <2>1. v = w
    BY <1>3
  <2>2. (\A u \in Write \ {w} : ~Busy(u))'
    BY <1>2, <1>3, <2>1 DEF Busy
  <2>3. CASE shared
    BY <1>2, <2>1, <2>2, <2>3 DEF OnTrack
  <2>4. CASE ~shared
    <3>1. \A q \in Proc : Parts(q)' = {}
      BY <2>4 DEF HealInv, Alone, Parts, files
    <3>2. OtherParts(p)' = {}
      BY <3>1 DEF OtherParts
    <3> QED BY <1>2, <2>1, <2>2, <2>4, <3>2 DEF OnTrack
  <2> QED BY <2>3, <2>4
<1>5. Alone'
  BY <1>2, <1>3 DEF HealInv, Alone, files
<1> QED BY <1>1, <1>4, <1>5 DEF HealInv, Healed

\* A write that ends, or goes on, leaves the others where they are.
LEMMA AdvanceKeepsHealing ==
    ASSUME TypeOK, HealInv, NEW w \in Write, Advance(w)
    PROVE  HealInv'
<1> USE DEF files
<1> DEFINE r == write[w]
           s == write'[w]
<1>1. /\ write \in [Write -> WriteRec] /\ r \in WriteRec
      /\ shared' = shared /\ UNCHANGED memory /\ Busy(w)
  BY DEF TypeOK, WriteOK, Advance, Stringify, Rename, List, ReadPart, RenderReport, Open,
         Land, WriteFails, Busy
<1>2. healed = Nobody
  BY <1>1 DEF HealInv, Healed
<1>3. \A v \in Write \ {w} : write'[v] = write[v]
  BY <1>1 DEF Advance, Stringify, Rename, List, ReadPart, RenderReport, Open, Enter,
              Land, WriteFails
<1>4. \A v \in Write \ {w} : Busy(v) => ~write[v].lone
  BY <1>1 DEF HealInv, Tracked, OnTrack
<1>5. ASSUME Busy(w)' /\ s.lone => r.lone,
             \A p \in Proc : p = r.by /\ Busy(w)' /\ s.lone /\ OnTrack(w) => OnTrack(w)'
      PROVE  Tracked'
  <2> SUFFICES ASSUME NEW v \in Write, Busy(v)', write'[v].lone PROVE OnTrack(v)'
    BY DEF Tracked
  <2>1. v = w
    BY <1>3, <1>4 DEF Busy
  <2>2. OnTrack(w)
    BY <1>1, <1>5, <2>1 DEF HealInv, Tracked
  <2>3. r.by \in Proc
    BY <2>2 DEF OnTrack
  <2> QED BY <1>5, <2>1, <2>2, <2>3
<1>6. \A p \in Proc : Kept(p)
  BY <1>1, MemoryKept
<1>7. ASSUME OnTrack(w) PROVE (\A v \in Write \ {w} : ~Busy(v))'
  BY <1>3, <1>7 DEF OnTrack, Busy
<1>8. ASSUME UNCHANGED part, s.at \in {"idle", "open", "land"} \/ shared PROVE Alone'
  BY <1>1, <1>3, <1>8 DEF HealInv, Alone
<1>9. ASSUME healed' = healed PROVE Healed'
  BY <1>2, <1>9 DEF Healed
<1>10. ASSUME r.at \notin {"idle", "open", "land"} PROVE shared
  BY <1>10 DEF HealInv, Alone
<1>11. ASSUME UNCHANGED part
       PROVE  \A p : OtherParts(p)' = OtherParts(p) /\ part'[p] = part[p]
  BY <1>11, OthersKept
<1>12. CASE Stringify(w)
  <2>1. /\ r.at = "mkdir" /\ UNCHANGED <<files, healed>>
        /\ s = [r EXCEPT !.at = "rename", !.doc = {Render(i) : i \in r.own}]
    BY <1>12, <1>1 DEF Stringify
  <2>2. /\ s.at = "rename" /\ s.by = r.by /\ s.own = r.own /\ s.lone = r.lone
        /\ s.doc = {Render(i) : i \in r.own}
    BY <2>1, <1>1 DEF WriteRec
  <2>3. shared
    BY <2>1, <1>10
  <2> HIDE DEF r, s
  <2>4. ASSUME NEW p \in Proc, r.by = p, OnTrack(w) PROVE OnTrack(w)'
    <3>1. r.own = Listed(p)
      BY <2>4 DEF OnTrack, r
    <3>2. s.doc = Live(p)
      BY <2>4, <2>2, <3>1 DEF Live
    <3>3. Kept(p)
      BY <2>4, <3>1, <1>6
    <3> QED BY <2>2, <2>4, <3>1, <3>2, <3>3, <1>7 DEF OnTrack, Kept, s
  <2> QED BY <1>5, <1>8, <1>9, <2>1, <2>2, <2>3, <2>4 DEF HealInv
<1>13. CASE Rename(w)
  <2>1. /\ r.at = "rename" /\ UNCHANGED <<report, healed>>
        /\ part' = [part EXCEPT ![r.by] = r.doc]
        /\ s = [r EXCEPT !.at = "list", !.doc = {}]
    BY <1>13, <1>1 DEF Rename
  <2>2. s.at = "list" /\ s.by = r.by /\ s.own = r.own /\ s.lone = r.lone /\ s.doc = {}
    BY <2>1, <1>1 DEF WriteRec
  <2>3. shared
    BY <2>1, <1>10
  <2>4. DOMAIN part = Proc
    BY DEF TypeOK
  <2> HIDE DEF r, s
  <2>5. ASSUME NEW p \in Proc, r.by = p, OnTrack(w) PROVE OnTrack(w)'
    <3>1. r.own = Listed(p) /\ r.doc = Live(p)
      BY <2>1, <2>5 DEF OnTrack, r
    <3>2. part'[p] = Live(p)
      BY <2>5, <2>1, <2>4, <3>1
    <3>3. Kept(p)
      BY <2>5, <3>1, <1>6
    <3> QED BY <2>2, <2>5, <3>1, <3>2, <3>3, <1>7 DEF OnTrack, Kept, s
  <2>6. Alone'
    BY <1>1, <2>3 DEF Alone
  <2> QED BY <1>5, <1>9, <2>1, <2>2, <2>5, <2>6 DEF HealInv
<1>14. ASSUME NEW listed \in BOOLEAN, List(w, listed) PROVE HealInv'
  <2> DEFINE others == {q \in Proc : listed /\ part[q] # NoPart} \ {r.by}
             lone   == r.lone /\ listed
  <2>0. lone \in BOOLEAN /\ (lone => r.lone /\ listed)
    OBVIOUS
  <2>1. /\ r.at = "list" /\ UNCHANGED <<files, healed>>
        /\ s = [r EXCEPT !.at = "read", !.lone = lone, !.todo = others]
    BY <1>14, <1>1 DEF List
  <2> HIDE DEF lone
  <2>2. /\ s.at = "read" /\ s.by = r.by /\ s.own = r.own /\ (s.lone => r.lone /\ listed)
        /\ s.doc = r.doc /\ s.todo = others
    BY <2>0, <2>1, <1>1 DEF WriteRec
  <2>3. shared
    BY <2>1, <1>10
  <2>4. \A p : p = r.by /\ listed => UNION {Parts(q) : q \in others} = OtherParts(p)
    BY DEF OtherParts, Parts
  <2>5. \A q : Parts(q)' = Parts(q)
    BY <2>1 DEF Parts
  <2>6. UNION {Parts(q)' : q \in s.todo} = UNION {Parts(q) : q \in others}
    BY <2>2, <2>5
  <2>7. r.by \notin others /\ others \subseteq Proc
    OBVIOUS
  <2> HIDE DEF r, s, others
  <2>8. ASSUME NEW p \in Proc, r.by = p, s.lone, OnTrack(w) PROVE OnTrack(w)'
    <3>1. r.own = Listed(p) /\ r.doc = {} /\ part[p] = Live(p)
      BY <2>1, <2>3, <2>8 DEF OnTrack, r
    <3>2. Kept(p) /\ OtherParts(p)' = OtherParts(p) /\ part'[p] = part[p]
      BY <2>8, <2>1, <3>1, <1>6, <1>11
    <3> QED BY <2>2, <2>4, <2>6, <2>7, <2>8, <3>1, <3>2, <1>7 DEF OnTrack, Kept, s
  <2> QED BY <1>5, <1>8, <1>9, <2>1, <2>2, <2>3, <2>8 DEF HealInv
<1>15. ASSUME NEW q \in Proc, NEW parsed \in BOOLEAN, ReadPart(w, q, parsed) PROVE HealInv'
  <2> DEFINE got  == IF parsed THEN Parts(q) ELSE {}
             lone == r.lone /\ parsed
  <2>0. lone \in BOOLEAN /\ (lone => r.lone /\ parsed)
    OBVIOUS
  <2>1. /\ r.at = "read" /\ q \in r.todo /\ UNCHANGED <<files, healed>>
        /\ s = [r EXCEPT !.todo = r.todo \ {q}, !.lone = lone, !.doc = r.doc \cup got]
    BY <1>15, <1>1 DEF ReadPart
  <2> HIDE DEF lone
  <2>2. /\ s.at = "read" /\ s.by = r.by /\ s.own = r.own /\ (s.lone => r.lone /\ parsed)
        /\ s.doc = r.doc \cup got /\ s.todo = r.todo \ {q}
    BY <2>0, <2>1, <1>1 DEF WriteRec
  <2>3. shared
    BY <2>1, <1>10
  <2>4. \A o : Parts(o)' = Parts(o)
    BY <2>1 DEF Parts
  <2>5. UNION {Parts(o)' : o \in s.todo} = UNION {Parts(o) : o \in r.todo \ {q}}
    BY <2>2, <2>4
  <2>6. UNION {Parts(o) : o \in r.todo}
          = Parts(q) \cup UNION {Parts(o) : o \in r.todo \ {q}}
    BY <2>1
  <2> HIDE DEF r, s
  <2>7. ASSUME NEW p \in Proc, r.by = p, s.lone, OnTrack(w) PROVE OnTrack(w)'
    <3>1. /\ r.own = Listed(p) /\ part[p] = Live(p)
          /\ p \notin r.todo /\ r.todo \subseteq Proc
          /\ r.doc \cup UNION {Parts(o) : o \in r.todo} = OtherParts(p)
      BY <2>1, <2>3, <2>7 DEF OnTrack, r
    <3>2. Kept(p) /\ OtherParts(p)' = OtherParts(p) /\ part'[p] = part[p]
      BY <2>7, <2>1, <3>1, <1>6, <1>11
    <3>3. s.doc \cup UNION {Parts(o)' : o \in s.todo} = OtherParts(p)
      BY <2>7, <2>2, <2>5, <2>6, <3>1
    <3>4. p \notin s.todo /\ s.todo \subseteq Proc
      BY <2>7, <2>2, <3>1
    <3> QED BY <2>2, <2>7, <3>1, <3>2, <3>3, <3>4, <1>7 DEF OnTrack, Kept, s
  <2> QED BY <1>5, <1>8, <1>9, <2>1, <2>2, <2>3, <2>7 DEF HealInv
<1>16. CASE RenderReport(w)
  <2>1. /\ r.at = "read" /\ r.todo = {} /\ UNCHANGED <<files, healed>>
        /\ s = [r EXCEPT !.at = "open",
                          !.doc = r.doc \cup {Render(i) : i \in r.own}]
    BY <1>16, <1>1 DEF RenderReport
  <2>2. /\ s.at = "open" /\ s.by = r.by /\ s.own = r.own /\ s.lone = r.lone
        /\ s.doc = r.doc \cup {Render(i) : i \in r.own}
    BY <2>1, <1>1 DEF WriteRec
  <2>3. shared
    BY <2>1, <1>10
  <2>4. UNION {Parts(o) : o \in r.todo} = {}
    BY <2>1
  <2> HIDE DEF r, s
  <2>5. ASSUME NEW p \in Proc, r.by = p, OnTrack(w) PROVE OnTrack(w)'
    <3>1. /\ r.own = Listed(p) /\ part[p] = Live(p)
          /\ r.doc \cup UNION {Parts(o) : o \in r.todo} = OtherParts(p)
      BY <2>1, <2>3, <2>5 DEF OnTrack, r
    <3>2. s.doc = Live(p) \cup OtherParts(p)
      BY <2>5, <2>2, <2>4, <3>1 DEF Live
    <3>3. Kept(p) /\ OtherParts(p)' = OtherParts(p) /\ part'[p] = part[p]
      BY <2>5, <2>1, <3>1, <1>6, <1>11
    <3> QED BY <2>2, <2>5, <3>1, <3>2, <3>3, <1>7 DEF OnTrack, Kept, s
  <2> QED BY <1>5, <1>8, <1>9, <2>1, <2>2, <2>3, <2>5 DEF HealInv
<1>17. CASE Open(w)
  <2>1. /\ r.at = "open" /\ UNCHANGED <<part, healed>> /\ report'.kind = "empty"
        /\ s = [r EXCEPT !.at = "land"]
    BY <1>17, <1>1 DEF Open, Enter
  <2>2. s.at = "land" /\ s.by = r.by /\ s.own = r.own /\ s.lone = r.lone /\ s.doc = r.doc
    BY <2>1, <1>1 DEF WriteRec
  <2> HIDE DEF r, s
  <2>3. ASSUME NEW p \in Proc, r.by = p, OnTrack(w) PROVE OnTrack(w)'
    <3>1. /\ r.own = Listed(p)
          /\ r.doc = Live(p) \cup OtherParts(p)
          /\ shared => part[p] = Live(p)
      BY <2>1, <2>3 DEF OnTrack, r
    <3>2. Kept(p) /\ OtherParts(p)' = OtherParts(p) /\ part'[p] = part[p]
      BY <2>3, <2>1, <3>1, <1>6, OthersKept
    <3> QED BY <1>1, <2>1, <2>2, <2>3, <3>1, <3>2, <1>7 DEF OnTrack, Kept, s
  <2> QED BY <1>5, <1>8, <1>9, <2>1, <2>2, <2>3 DEF HealInv
<1>18. CASE Land(w)
  <2>1. /\ r.at = "land" /\ UNCHANGED part /\ s.at = "idle"
        /\ \/ report' = [kind |-> "whole", docs |-> r.doc]
           \/ report.kind # "empty" /\ report' = [kind |-> "mixed", docs |-> {}]
        /\ healed' = IF r.lone THEN r.by ELSE healed
    BY <1>18, <1>1 DEF Land, Idle
  <2> HIDE DEF r, s
  <2>2. Healed'
    <3>1. CASE ~r.lone
      BY <1>9, <2>1, <3>1
    <3>2. CASE r.lone
      <4>1. OnTrack(w)
        BY <1>1, <3>2 DEF HealInv, Tracked, r
      <4>p. PICK p \in Proc : p = r.by
        BY <4>1 DEF OnTrack, r
      <4>2. /\ report.kind = "empty"
            /\ r.doc = Live(p) \cup OtherParts(p)
            /\ shared => part[p] = Live(p)
        BY <2>1, <4>1, <4>p DEF OnTrack, r
      <4>3. Kept(p) /\ OtherParts(p)' = OtherParts(p) /\ part'[p] = part[p]
        BY <2>1, <4>2, <1>6, OthersKept
      <4>4. report'.kind = "whole" /\ report'.docs = r.doc /\ healed' = p
        BY <2>1, <3>2, <4>2, <4>p
      <4>5. HealedFor(healed)'
        BY <1>1, <4>2, <4>3, <4>4 DEF HealedFor, Kept
      <4>6. (\A v \in Write : ~Busy(v))'
        BY <1>7, <2>1, <4>1 DEF Busy, s
      <4> QED BY <4>2, <4>4, <4>5, <4>6, HealedMeansHealedNext DEF Healed
    <3> QED BY <3>1, <3>2
  <2>3. ~Busy(w)'
    BY <2>1 DEF Busy, s
  <2> QED BY <1>5, <1>8, <2>1, <2>2, <2>3 DEF HealInv
<1>19. CASE WriteFails(w)
  <2>1. UNCHANGED <<files, healed>> /\ s.at = "idle"
    BY <1>19, <1>1 DEF WriteFails, Idle
  <2>2. ~Busy(w)'
    BY <2>1 DEF Busy
  <2> HIDE DEF r, s
  <2> QED BY <1>5, <1>8, <1>9, <2>1, <2>2 DEF HealInv
<1> QED BY <1>12, <1>13, <1>14, <1>15, <1>16, <1>17, <1>18, <1>19 DEF Advance

LEMMA StepKeepsHealing == TypeOK /\ TypeOK' /\ HealInv /\ [Next]_vars => HealInv'
<1> SUFFICES ASSUME TypeOK, TypeOK', HealInv, [Next]_vars PROVE HealInv'
  OBVIOUS
<1>1. ASSUME UNCHANGED <<shared, memory, write, files, healed>> PROVE HealInv'
  <2>1. Tracked'
    <3> SUFFICES ASSUME NEW w \in Write, Busy(w)', write'[w].lone PROVE OnTrack(w)'
      BY DEF Tracked
    <3>1. OnTrack(w)
      BY <1>1 DEF HealInv, Tracked, Busy
    <3>2. PICK p \in Proc : p = write[w].by
      BY <3>1 DEF OnTrack
    <3>3. Kept(p)
      BY <1>1, MemoryKept
    <3>4. Kept(write[w].by)
      BY <1>1, <3>2, <3>3 DEF Kept
    <3> QED BY <1>1, <3>1, <3>4, StaysOnTrack
  <2>2. Alone'
    BY <1>1 DEF HealInv, Alone, files
  <2>3. Healed'
    <3> SUFFICES ASSUME healed # Nobody
                 PROVE  healed' \in Proc /\ (\A w \in Write : ~Busy(w))' /\ HealedFor(healed)'
      BY <1>1, HealedMeansHealedNext DEF Healed
    <3>1. PICK p \in Proc : p = healed
      BY DEF HealInv, Healed
    <3>2. HealedFor(p) /\ \A w \in Write : ~Busy(w)
      BY <3>1, HealedMeansHealed DEF HealInv, Healed
    <3>3. Kept(p) /\ OtherParts(p)' = OtherParts(p)
      BY <1>1, MemoryKept, OthersKept DEF files
    <3>4. HealedFor(p)'
      BY <1>1, <3>2, <3>3 DEF HealedFor, Kept, files
    <3> QED BY <1>1, <3>1, <3>2, <3>4 DEF Busy
  <2> QED BY <2>1, <2>2, <2>3 DEF HealInv
<1>2. ASSUME NEW p \in Proc, StartScenario(p) PROVE HealInv'
  <2>1. ASSUME NEW q \in Proc \ {p} PROVE Kept(q)
    <3>1. count'[q] = count[q]
      BY <1>2 DEF StartScenario, TypeOK, MemoryOK
    <3>2. Listed(q)' = Listed(q)
      BY <3>1 DEF Listed
    <3>3. \A i : Render(i)' = Render(i)
      BY <1>2 DEF StartScenario, Render
    <3> QED BY <3>2, <3>3 DEF Kept, Live
  <2> QED BY <1>2, <2>1, DisturbKeepsHealing DEF StartScenario
<1>3. ASSUME NEW p \in Proc, NEW class \in Class, RecordStep(p, class) PROVE HealInv'
  <2>1. Current(p)[1] = p
    BY DEF Current
  <2>2. UNCHANGED <<shared, count, status, steps, files>>
    BY <1>3 DEF RecordStep
  <2>3. CASE UNCHANGED <<attempt, write, healed>>
    BY <1>1, <2>2, <2>3 DEF memory
  <2>4. CASE Disturb(p) /\ \E a : attempt' = [attempt EXCEPT ![Current(p)] = a]
    <3>1. ASSUME NEW q \in Proc \ {p} PROVE Kept(q)
      <4>1. \A i \in Listed(q) : attempt'[i] = attempt[i]
        BY <2>1, <2>4 DEF Listed, TypeOK, MemoryOK
      <4>2. Listed(q)' = Listed(q)
        BY <2>2 DEF Listed
      <4>3. \A i \in Listed(q) : Render(i)' = Render(i)
        BY <2>2, <4>1 DEF Render
      <4> QED BY <4>2, <4>3 DEF Kept, Live
    <3> QED BY <2>2, <2>4, <3>1, DisturbKeepsHealing
  <2> QED BY <1>3, <2>1, <2>3, <2>4 DEF RecordStep, Reset
<1>4. ASSUME NEW p \in Proc, RunAgain(p) \/ Finished(p) PROVE HealInv'
  BY <1>4, <1>1 DEF RunAgain, Finished
<1>5. ASSUME NEW p \in Proc, Exit(p) PROVE HealInv'
  <2>1. ASSUME NEW w \in Write PROVE write'[w] = write[w] \/ write'[w] = Idle
    BY <1>5 DEF Exit
  <2>2. UNCHANGED <<shared, memory, files, healed>>
    BY <1>5 DEF Exit
  <2>3. ASSUME NEW w \in Write
        PROVE  write'[w].at = write[w].at \/ write'[w].at = "idle"
    BY <2>1 DEF Idle
  <2>4. Tracked'
    <3> SUFFICES ASSUME NEW w \in Write, Busy(w)', write'[w].lone PROVE OnTrack(w)'
      BY DEF Tracked
    <3>1. write'[w] = write[w]
      BY <2>1 DEF Busy, Idle
    <3>2. OnTrack(w)
      BY <3>1 DEF HealInv, Tracked, Busy
    <3>3. PICK p2 \in Proc : p2 = write[w].by
      BY <3>2 DEF OnTrack
    <3>4. Kept(p2)
      BY <2>2, MemoryKept
    <3>5. Kept(write[w].by)
      BY <3>1, <3>3, <3>4 DEF Kept
    <3> QED BY <2>2, <2>3, <3>1, <3>2, <3>5, StaysOnTrack
  <2>5. Alone'
    BY <2>2, <2>3, AloneKept DEF HealInv, files
  <2>6. Healed'
    <3> SUFFICES ASSUME healed # Nobody
                 PROVE  healed' \in Proc /\ (\A w \in Write : ~Busy(w))' /\ HealedFor(healed)'
      BY <2>2, HealedMeansHealedNext DEF Healed
    <3>1. PICK p2 \in Proc : p2 = healed
      BY DEF HealInv, Healed
    <3>2. HealedFor(p2) /\ \A w \in Write : ~Busy(w)
      BY <3>1, HealedMeansHealed DEF HealInv, Healed
    <3>3. Kept(p2) /\ OtherParts(p2)' = OtherParts(p2)
      BY <2>2, MemoryKept, OthersKept DEF files
    <3>4. HealedFor(p2)'
      BY <2>2, <3>2, <3>3 DEF HealedFor, Kept, files
    <3> QED BY <2>2, <2>3, <3>1, <3>2, <3>4 DEF Busy
  <2> QED BY <2>4, <2>5, <2>6 DEF HealInv
<1>6. ASSUME NEW p \in Proc, NEW w \in Write, SkipScenario(p, w) PROVE HealInv'
  BY <1>6, BeginKeepsHealing DEF SkipScenario
<1>7. ASSUME NEW p \in Proc, NEW w \in Write, Flush(p, w) PROVE HealInv'
  BY <1>7, BeginKeepsHealing DEF Flush
<1>8. ASSUME NEW p \in Proc, NEW w \in Write, NEW v \in Verdict, FinishScenario(p, v, w)
      PROVE  HealInv'
  BY <1>8, BeginKeepsHealing DEF FinishScenario
<1>9. ASSUME NEW c \in copying, NEW w \in Write, Push(c[1], c[2], w) PROVE HealInv'
  <2>1. c[1][1] \in Proc
    BY DEF TypeOK, Scenarios
  <2> QED BY <1>9, <2>1, BeginKeepsHealing DEF Push
<1>10. ASSUME NEW w \in Write, Advance(w) PROVE HealInv'
  BY <1>10, AdvanceKeepsHealing
<1>11. CASE UNCHANGED vars
  BY <1>1, <1>11 DEF vars
<1> QED BY <1>2, <1>3, <1>4, <1>5, <1>6, <1>7, <1>8, <1>9, <1>10, <1>11
        DEF Next, Runner, AllExited

\* "The next render picks it up": a write that no other one overlapped leaves the
\* memory of its process in the part and in the report, and beside it what the other
\* processes left, whatever happened to either file before.
THEOREM LoneWritesHeal == Spec => []UndisturbedWriteHeals
<1>1. Init => HealInv
  BY DEF Init, HealInv, Tracked, Alone, Healed, Busy, Idle
<1>2. HealInv => UndisturbedWriteHeals
  BY DEF HealInv, Healed, UndisturbedWriteHeals
<1> QED BY <1>1, <1>2, StepKeepsHealing, TypeCorrect, PTL DEF Spec

-----------------------------------------------------------------------------
(***************************************************************************)
(* No scenario is shown twice.  A part holds scenarios of its process      *)
(* only, and a write that reads parts has nothing yet of the processes it  *)
(* still has to read, nor of its own.                                      *)
(***************************************************************************)
Unique(D) == \A d, e \in D : d.id = e.id => d = e

Owned(D, p) == \A d \in D : d.id[1] = p

SingleWrite(r) ==
    /\ Unique(r.doc)
    /\ \A i \in r.own : i[1] = r.by
    /\ r.at = "rename" => Owned(r.doc, r.by)
    /\ r.at = "list" => r.doc = {}
    /\ r.at = "read" => /\ r.by \notin r.todo
                        /\ \A d \in r.doc : d.id[1] # r.by /\ d.id[1] \notin r.todo

SingleWrites == \A w \in Write : SingleWrite(write[w])
SingleParts  == \A p \in Proc : Unique(Parts(p)) /\ Owned(Parts(p), p)
SingleInv    == SingleWrites /\ SingleParts /\ NoScenarioTwice

LEMMA UniqueReport == NoScenarioTwice <=> Unique(report.docs)
BY DEF NoScenarioTwice, Unique

LEMMA RendersUnique ==
    ASSUME NEW p, NEW I, \A i \in I : i[1] = p
    PROVE  Unique({Render(i) : i \in I}) /\ Owned({Render(i) : i \in I}, p)
<1>1. \A i : Render(i).id = i
  BY DEF Render
<1> QED BY <1>1 DEF Unique, Owned

LEMMA IdleSingle == SingleWrite(Idle)
BY DEF SingleWrite, Idle, Unique

\* A step that changes the loneliness of writes, at most.
LEMMA StaysSingle ==
    ASSUME NEW r, NEW s, SingleWrite(r), s.at = r.at, s.by = r.by, s.own = r.own,
           s.doc = r.doc, s.todo = r.todo
    PROVE  SingleWrite(s)
BY DEF SingleWrite

LEMMA FilesStaySingle ==
    ASSUME SingleInv, SingleWrites', UNCHANGED files
    PROVE  SingleInv'
BY DEF SingleInv, SingleParts, NoScenarioTwice, Parts, files

LEMMA DisturbKeepsSingle ==
    ASSUME TypeOK, SingleInv, NEW p \in Proc, Disturb(p), UNCHANGED files
    PROVE  SingleInv'
<1>1. ASSUME NEW w \in Write PROVE SingleWrite(write'[w])
  <2>1. write'[w] = [write[w] EXCEPT !.lone = @ /\ write[w].by # p]
    BY DEF Disturb
  <2>2. write[w] \in WriteRec
    BY DEF TypeOK, WriteOK
  <2>3. /\ write'[w].at = write[w].at /\ write'[w].by = write[w].by
        /\ write'[w].own = write[w].own /\ write'[w].doc = write[w].doc
        /\ write'[w].todo = write[w].todo
    BY <2>1, <2>2 DEF WriteRec
  <2> QED BY <2>3, StaysSingle DEF SingleInv, SingleWrites
<1> QED BY <1>1, FilesStaySingle DEF SingleWrites

LEMMA LiveUnique == \A p \in Proc : Unique(Live(p))
<1> SUFFICES ASSUME NEW p \in Proc PROVE Unique(Live(p))
  OBVIOUS
<1>1. \A i \in Listed(p) : i[1] = p
  BY DEF Listed
<1> QED BY <1>1, RendersUnique DEF Live

LEMMA LiveStaysUnique == (\A p \in Proc : Unique(Live(p)))'
BY LiveUnique, PTL

LEMMA BeginKeepsSingle ==
    ASSUME TypeOK, SingleInv, NEW p \in Proc, NEW w \in Write, NEW b \in BOOLEAN,
           Begin(p, w, b), UNCHANGED files
    PROVE  SingleInv'
<1>1. ASSUME NEW v \in Write PROVE SingleWrite(write'[v])
  <2>1. CASE v = w
    <3>1. /\ write'[w].at = IF shared THEN "mkdir" ELSE "open"
          /\ write'[w].by = p /\ write'[w].own = Listed(p)'
          /\ write'[w].doc = IF shared THEN {} ELSE Live(p)'
      BY DEF Begin
    <3>2. Unique(write'[w].doc)
      BY <3>1, LiveStaysUnique DEF Unique
    <3>3. \A i \in write'[w].own : i[1] = p
      BY <3>1 DEF Listed
    <3> QED BY <2>1, <3>1, <3>2, <3>3 DEF SingleWrite
  <2>2. CASE v # w
    <3>1. write'[v] = [write[v] EXCEPT !.lone = FALSE]
      BY <2>2 DEF Begin
    <3>2. write[v] \in WriteRec
      BY DEF TypeOK, WriteOK
    <3>3. /\ write'[v].at = write[v].at /\ write'[v].by = write[v].by
          /\ write'[v].own = write[v].own /\ write'[v].doc = write[v].doc
          /\ write'[v].todo = write[v].todo
      BY <3>1, <3>2 DEF WriteRec
    <3> QED BY <3>3, StaysSingle DEF SingleInv, SingleWrites
  <2> QED BY <2>1, <2>2
<1> QED BY <1>1, FilesStaySingle DEF SingleWrites

LEMMA AdvanceKeepsSingle ==
    ASSUME TypeOK, SingleInv, NEW w \in Write, Advance(w)
    PROVE  SingleInv'
<1> USE DEF files
<1> DEFINE r == write[w]
           s == write'[w]
<1>1. write \in [Write -> WriteRec] /\ r \in WriteRec /\ SingleWrite(r)
  BY DEF TypeOK, WriteOK, SingleInv, SingleWrites
<1>2. ASSUME SingleWrite(s) PROVE SingleWrites'
  <2>1. \A v \in Write \ {w} : write'[v] = write[v]
    BY <1>1 DEF Advance, Stringify, Rename, List, ReadPart, RenderReport, Open, Enter,
                Land, WriteFails
  <2> QED BY <1>2, <2>1 DEF SingleInv, SingleWrites
<1>3. Unique({Render(i) : i \in r.own}) /\ Owned({Render(i) : i \in r.own}, r.by)
  BY <1>1, RendersUnique DEF SingleWrite
<1>4. CASE Stringify(w)
  <2>1. UNCHANGED files /\ s = [r EXCEPT !.at = "rename", !.doc = {Render(i) : i \in r.own}]
    BY <1>4, <1>1 DEF Stringify
  <2>2. /\ s.at = "rename" /\ s.by = r.by /\ s.own = r.own
        /\ s.doc = {Render(i) : i \in r.own}
    BY <2>1, <1>1 DEF WriteRec
  <2> HIDE DEF r, s
  <2> QED BY <1>1, <1>2, <1>3, <2>1, <2>2, FilesStaySingle DEF SingleWrite
<1>5. CASE Rename(w)
  <2>1. /\ r.at = "rename" /\ report' = report /\ part' = [part EXCEPT ![r.by] = r.doc]
        /\ s = [r EXCEPT !.at = "list", !.doc = {}]
    BY <1>5, <1>1 DEF Rename
  <2>2. s.at = "list" /\ s.by = r.by /\ s.own = r.own /\ s.doc = {}
    BY <2>1, <1>1 DEF WriteRec
  <2>3. DOMAIN part = Proc
    BY DEF TypeOK
  <2> HIDE DEF r, s
  <2>4. SingleWrite(s)
    BY <1>1, <2>2 DEF SingleWrite, Unique
  <2>5. SingleParts'
    <3>1. ASSUME NEW q \in Proc PROVE Unique(Parts(q)') /\ Owned(Parts(q)', q)
      <4>1. CASE q = r.by
        BY <1>1, <2>1, <2>3, <4>1 DEF SingleWrite, Parts, Unique, Owned
      <4>2. CASE q # r.by
        BY <2>1, <2>3, <4>2 DEF Parts, SingleInv, SingleParts
      <4> QED BY <4>1, <4>2
    <3> QED BY <3>1 DEF SingleParts
  <2> QED BY <1>2, <2>1, <2>4, <2>5 DEF SingleInv, NoScenarioTwice
<1>6. ASSUME NEW listed \in BOOLEAN, List(w, listed) PROVE SingleInv'
  <2> DEFINE others == {q \in Proc : listed /\ part[q] # NoPart} \ {r.by}
             lone   == r.lone /\ listed
  <2>0. lone \in BOOLEAN /\ (lone => r.lone /\ listed)
    OBVIOUS
  <2>1. /\ r.at = "list" /\ UNCHANGED files
        /\ s = [r EXCEPT !.at = "read", !.lone = lone, !.todo = others]
    BY <1>6, <1>1 DEF List
  <2> HIDE DEF lone
  <2>2. /\ s.at = "read" /\ s.by = r.by /\ s.own = r.own /\ s.doc = r.doc
        /\ s.todo = others
    BY <2>0, <2>1, <1>1 DEF WriteRec
  <2>3. r.by \notin others
    OBVIOUS
  <2> HIDE DEF r, s, others
  <2> QED BY <1>1, <1>2, <2>1, <2>2, <2>3, FilesStaySingle DEF SingleWrite
<1>7. ASSUME NEW q \in Proc, NEW parsed \in BOOLEAN, ReadPart(w, q, parsed) PROVE SingleInv'
  <2> DEFINE got  == IF parsed THEN Parts(q) ELSE {}
             lone == r.lone /\ parsed
  <2>0. lone \in BOOLEAN /\ (lone => r.lone /\ parsed)
    OBVIOUS
  <2>1. /\ r.at = "read" /\ q \in r.todo /\ UNCHANGED files
        /\ s = [r EXCEPT !.todo = r.todo \ {q}, !.lone = lone, !.doc = r.doc \cup got]
    BY <1>7, <1>1 DEF ReadPart
  <2> HIDE DEF lone
  <2>2. /\ s.at = "read" /\ s.by = r.by /\ s.own = r.own
        /\ s.doc = r.doc \cup got /\ s.todo = r.todo \ {q}
    BY <2>0, <2>1, <1>1 DEF WriteRec
  <2>3. Unique(got) /\ Owned(got, q)
    BY DEF SingleInv, SingleParts, Unique, Owned
  <2> HIDE DEF r, s, got
  <2>4. \A d \in r.doc : d.id[1] # q /\ d.id[1] # r.by /\ d.id[1] \notin r.todo
    BY <1>1, <2>1 DEF SingleWrite
  <2>5. Unique(s.doc)
    <3>1. ASSUME NEW d \in r.doc, NEW e \in got PROVE d.id # e.id
      BY <2>3, <2>4 DEF Owned
    <3> QED BY <1>1, <2>2, <2>3, <3>1 DEF SingleWrite, Unique
  <2>6. s.by \notin s.todo
    BY <1>1, <2>1, <2>2 DEF SingleWrite
  <2>7. \A d \in s.doc : d.id[1] # s.by /\ d.id[1] \notin s.todo
    BY <1>1, <2>1, <2>2, <2>3, <2>4 DEF SingleWrite, Owned
  <2>8. SingleWrite(s)
    BY <1>1, <2>2, <2>5, <2>6, <2>7 DEF SingleWrite
  <2> QED BY <1>2, <2>1, <2>8, FilesStaySingle
<1>8. CASE RenderReport(w)
  <2>1. /\ r.at = "read" /\ UNCHANGED files
        /\ s = [r EXCEPT !.at = "open",
                          !.doc = r.doc \cup {Render(i) : i \in r.own}]
    BY <1>8, <1>1 DEF RenderReport
  <2>2. /\ s.at = "open" /\ s.by = r.by /\ s.own = r.own
        /\ s.doc = r.doc \cup {Render(i) : i \in r.own}
    BY <2>1, <1>1 DEF WriteRec
  <2> DEFINE mine == {Render(i) : i \in r.own}
  <2>3. Unique(mine) /\ Owned(mine, r.by)
    BY <1>3
  <2> HIDE DEF r, s, mine
  <2>4. ASSUME NEW d \in r.doc, NEW e \in mine PROVE d.id # e.id
    BY <1>1, <2>1, <2>3 DEF SingleWrite, Owned
  <2>5. Unique(s.doc)
    BY <1>1, <2>2, <2>3, <2>4 DEF SingleWrite, Unique, mine
  <2> QED BY <1>1, <1>2, <2>1, <2>2, <2>5, FilesStaySingle DEF SingleWrite
<1>9. CASE Open(w)
  <2>1. part' = part /\ report'.docs = {} /\ s = [r EXCEPT !.at = "land"]
    BY <1>9, <1>1 DEF Open, Enter
  <2>2. s.at = "land" /\ s.by = r.by /\ s.own = r.own /\ s.doc = r.doc
    BY <2>1, <1>1 DEF WriteRec
  <2> HIDE DEF r, s
  <2>3. SingleWrite(s)
    BY <1>1, <2>2 DEF SingleWrite
  <2> QED BY <1>2, <2>1, <2>3 DEF SingleInv, SingleParts, NoScenarioTwice, Parts
<1>10. CASE Land(w)
  <2>1. part' = part /\ report'.docs \in {r.doc, {}} /\ s = Idle
    BY <1>10, <1>1 DEF Land
  <2>2. NoScenarioTwice'
    BY <1>1, <2>1 DEF NoScenarioTwice, SingleWrite, Unique
  <2> QED BY <1>2, <2>1, <2>2, IdleSingle DEF SingleInv, SingleParts, Parts
<1>11. CASE WriteFails(w)
  <2>1. UNCHANGED files /\ s = Idle
    BY <1>11, <1>1 DEF WriteFails
  <2> QED BY <1>2, <2>1, IdleSingle, FilesStaySingle
<1> QED BY <1>4, <1>5, <1>6, <1>7, <1>8, <1>9, <1>10, <1>11 DEF Advance

\* The report never shows a scenario twice.
THEOREM ScenariosShownOnce == Spec => []NoScenarioTwice
<1>1. Init => SingleInv
  <2> SUFFICES ASSUME Init PROVE SingleInv
    OBVIOUS
  <2>1. SingleWrites
    BY IdleSingle DEF Init, SingleWrites
  <2> QED BY <2>1 DEF Init, SingleInv, SingleParts, NoScenarioTwice, Parts, Unique, Owned
<1>2. SingleInv /\ TypeOK /\ [Next]_vars => SingleInv'
  <2> SUFFICES ASSUME SingleInv, TypeOK, [Next]_vars PROVE SingleInv'
    OBVIOUS
  <2>1. CASE UNCHANGED <<write, files>>
    BY <2>1, FilesStaySingle DEF SingleInv, SingleWrites
  <2>2. ASSUME NEW p \in Proc, Runner(p) PROVE SingleInv'
    <3>1. CASE StartScenario(p)
      BY <3>1, DisturbKeepsSingle DEF StartScenario
    <3>2. ASSUME NEW class \in Class, RecordStep(p, class) PROVE SingleInv'
      <4>1. Current(p)[1] = p
        BY DEF Current
      <4>2. UNCHANGED files /\ (Disturb(p) \/ UNCHANGED write)
        BY <3>2, <4>1 DEF RecordStep, Reset
      <4> QED BY <4>2, <2>1, DisturbKeepsSingle
    <3>3. CASE RunAgain(p) \/ Finished(p)
      BY <3>3, <2>1 DEF RunAgain, Finished
    <3>4. CASE Exit(p)
      <4>1. ASSUME NEW w \in Write PROVE write'[w] = write[w] \/ write'[w] = Idle
        BY <3>4 DEF Exit
      <4>2. SingleWrites'
        BY <4>1, IdleSingle DEF SingleInv, SingleWrites
      <4> QED BY <3>4, <4>2, FilesStaySingle DEF Exit
    <3>5. ASSUME NEW w \in Write, SkipScenario(p, w) PROVE SingleInv'
      BY <3>5, BeginKeepsSingle DEF SkipScenario
    <3>6. ASSUME NEW w \in Write, Flush(p, w) PROVE SingleInv'
      BY <3>6, BeginKeepsSingle DEF Flush
    <3>7. ASSUME NEW w \in Write, NEW v \in Verdict, FinishScenario(p, v, w)
          PROVE  SingleInv'
      BY <3>7, BeginKeepsSingle DEF FinishScenario
    <3> QED BY <2>2, <3>1, <3>2, <3>3, <3>4, <3>5, <3>6, <3>7 DEF Runner
  <2>3. ASSUME NEW c \in copying, NEW w \in Write, Push(c[1], c[2], w)
        PROVE  SingleInv'
    <3>1. c[1][1] \in Proc
      BY DEF TypeOK, Scenarios
    <3> QED BY <2>3, <3>1, BeginKeepsSingle DEF Push
  <2>4. ASSUME NEW w \in Write, Advance(w) PROVE SingleInv'
    BY <2>4, AdvanceKeepsSingle
  <2> QED BY <2>1, <2>2, <2>3, <2>4 DEF Next, AllExited, vars
<1>3. SingleInv => NoScenarioTwice
  BY DEF SingleInv
<1> QED BY <1>1, <1>2, <1>3, TypeCorrect, PTL DEF Spec

=============================================================================
