------------------------------ MODULE FileReport ------------------------------
(***************************************************************************)
(* The local report (FileReporter, packages/harness/src/file-reporter.ts): *)
(* every process keeps its scenarios in memory and rewrites one            *)
(* report.html for all, which is the union of the parts that the processes *)
(* leave in a shared directory.                                            *)
(*                                                                         *)
(* A write is a chain of awaited file operations.  Nobody waits for the    *)
(* writes that recordStep and skipScenario start, so writes of one process *)
(* overlap as well as writes of several, and each lands when it lands.     *)
(***************************************************************************)
EXTENDS Naturals, Sequences

CONSTANTS
    Proc,           \* test processes, by pid
    LastTry,        \* meta.retries of the scenarios of each process
    Skipped,        \* scenarios the tier gate excludes
    Class,          \* step statuses as badges tell them apart
    MaxScenarios,   \* bound of a model: scenarios of each process
    MaxSteps,       \* bound of a model: steps of an attempt in each process
    Write,          \* bound of a model: writes under way at a time
    NoPart,         \* a process that has left no part
    Nobody          \* no process

ASSUME FileReportAssumption ==
    /\ LastTry \in [Proc -> Nat]
    /\ Class \subseteq {"plain", "fixme", "pending"}
    /\ MaxScenarios \in [Proc -> Nat] /\ MaxSteps \in [Proc -> Nat]
    /\ Nobody \notin Proc

VARIABLES
    shared,      \* partsDir is set
    harness,     \* where the scenario runner of a process is
    try, next,   \* its attempt, and the number its next step takes
    count,       \* seq: how many scenarios it has listed
    status,      \* a scenario's status; "running" is undefined
    attempt,     \* a scenario's attempt
    steps,       \* the arrays scenario.steps was bound to, by attempt
    copying,     \* steps whose screenshot is being copied
    write,       \* the writes
    part,        \* the part files
    report,      \* report.html
    healed       \* history: who wrote the report undisturbed, with every part at
                 \* hand, and nothing since

runner == <<harness, try, next>>
memory == <<count, status, attempt, steps>>
files  == <<part, report>>
vars   == <<shared, runner, memory, copying, write, files, healed>>

Scenarios == UNION {{p} \X (1..MaxScenarios[p]) : p \in Proc}   \* local-<seq>-<pid>
Tries     == UNION {0..LastTry[p] : p \in Proc}
StepRec   == [attempt : Tries, sequence : Nat, class : Class]
Verdict   == {"passed", "failed"}
Status    == {"running", "skipped"} \cup Verdict
Doc       == [id : Scenarios, status : Status, steps : Seq(StepRec)]

ASSUME SkippedAssumption == Skipped \subseteq Scenarios

Listed(p) == {p} \X (1..count[p])
Current(p) == <<p, count[p]>>
Upcoming(p) == <<p, count[p] + 1>>

\* A scenario as JSON.stringify and renderReport find it: its record is shared.
Render(i) == [id |-> i, status |-> status[i], steps |-> steps[i][attempt[i]]]
Live(p)   == {Render(i) : i \in Listed(p)}
Parts(q)  == IF part[q] = NoPart THEN {} ELSE part[q]

Stages == {"idle", "mkdir", "rename", "list", "read", "open", "land"}
Idle   == [at |-> "idle", by |-> Nobody, awaited |-> FALSE, own |-> {}, doc |-> {},
           todo |-> {}, lone |-> FALSE]

RunnerOK ==
    /\ harness \in [Proc -> {"between", "walking", "flushing", "finishing", "exited"}]
    /\ try \in [Proc -> Tries] /\ next \in [Proc -> Nat]
    /\ \A p \in Proc : harness[p] \notin {"between", "exited"} => count[p] > 0

MemoryOK ==
    /\ count \in [Proc -> Nat] /\ \A p \in Proc : count[p] <= MaxScenarios[p]
    /\ status \in [Scenarios -> Status]
    /\ attempt \in [Scenarios -> Tries]
    /\ steps \in [Scenarios -> [Tries -> Seq(StepRec)]]

WriteRec == [at : Stages, by : Proc \cup {Nobody}, awaited : BOOLEAN,
             own : SUBSET Scenarios, doc : SUBSET Doc,
             todo : SUBSET Proc, lone : BOOLEAN]
WriteOK == write \in [Write -> WriteRec]

TypeOK ==
    /\ shared \in BOOLEAN /\ healed \in Proc \cup {Nobody}
    /\ RunnerOK /\ MemoryOK /\ WriteOK
    /\ copying \subseteq Scenarios \X StepRec
    /\ part \in [Proc -> (SUBSET Doc) \cup {NoPart}]
    /\ report \in [kind : {"none", "empty", "mixed", "whole"}, docs : SUBSET Doc]

Init ==
    /\ shared \in BOOLEAN
    /\ harness = [p \in Proc |-> "between"]
    /\ try = [p \in Proc |-> 0] /\ next = [p \in Proc |-> 0]
    /\ count = [p \in Proc |-> 0]
    /\ status = [i \in Scenarios |-> "running"]
    /\ attempt = [i \in Scenarios |-> 0]
    /\ steps = [i \in Scenarios |-> [a \in Tries |-> <<>>]]
    /\ copying = {}
    /\ write = [w \in Write |-> Idle]
    /\ part = [p \in Proc |-> NoPart]
    /\ report = [kind |-> "none", docs |-> {}]
    /\ healed = Nobody

-----------------------------------------------------------------------------
(***************************************************************************)
(* write(), readParts() and emit().                                        *)
(***************************************************************************)
Busy(w) == write[w].at # "idle"
Enter(w, stage) == write' = [write EXCEPT ![w].at = stage]

\* write() up to its first await, in slot w: the scenarios listed now are taken,
\* their records stay shared.  Without a partsDir the page is rendered at once.
\* What is under way is disturbed, and so is this write if anything was.
Begin(p, w, awaited) ==
    /\ ~Busy(w)
    /\ write' = [v \in Write |->
         IF v # w THEN [write[v] EXCEPT !.lone = FALSE]
         ELSE [at   |-> IF shared THEN "mkdir" ELSE "open",
               by   |-> p,
               awaited |-> awaited,
               own  |-> Listed(p)',
               doc  |-> IF shared THEN {} ELSE Live(p)',
               todo |-> {},
               lone |-> \A u \in Write : ~Busy(u)]]
    /\ healed' = Nobody

\* The memory of p changed without a write: one of its writes may miss it.
Disturb(p) ==
    /\ write' = [w \in Write |->
         [write[w] EXCEPT !.lone = @ /\ write[w].by # p]]
    /\ healed' = IF healed = p THEN Nobody ELSE healed

Stringify(w) ==
    /\ write[w].at = "mkdir"
    /\ write' = [write EXCEPT ![w] =
            [@ EXCEPT !.at = "rename", !.doc = {Render(i) : i \in write[w].own}]]
    /\ UNCHANGED <<shared, runner, memory, copying, files, healed>>

\* The part appears under its name, whole.
Rename(w) ==
    /\ write[w].at = "rename"
    /\ part' = [part EXCEPT ![write[w].by] = write[w].doc]
    /\ write' = [write EXCEPT ![w] = [@ EXCEPT !.at = "list", !.doc = {}]]
    /\ UNCHANGED <<shared, runner, memory, copying, report, healed>>

\* A mutant: the own part is read like any other.
ListOwnToo(w, listed) ==
    /\ write[w].at = "list"
    /\ write' = [write EXCEPT ![w] =
            [@ EXCEPT !.at = "read", !.lone = write[w].lone /\ listed,
                      !.todo = {q \in Proc : part[q] # NoPart}]]
    /\ UNCHANGED <<shared, runner, memory, copying, files, healed>>

\* readdir.  The own part is not read: the own records are at hand.  A directory
\* that cannot be listed has no other parts.
List(w, listed) ==
    /\ write[w].at = "list"
    /\ write' = [write EXCEPT ![w] =
            [@ EXCEPT !.at = "read", !.lone = write[w].lone /\ listed,
                      !.todo = {q \in Proc : listed /\ part[q] # NoPart} \ {write[w].by}]]
    /\ UNCHANGED <<shared, runner, memory, copying, files, healed>>

\* A part that cannot be read or parsed is passed over.
ReadPart(w, q, parsed) ==
    /\ write[w].at = "read" /\ q \in write[w].todo
    /\ write' = [write EXCEPT ![w] =
            [@ EXCEPT !.todo = write[w].todo \ {q}, !.lone = write[w].lone /\ parsed,
                      !.doc = write[w].doc \cup (IF parsed THEN Parts(q) ELSE {})]]
    /\ UNCHANGED <<shared, runner, memory, copying, files, healed>>

\* A mutant: the own records are left out together with the own part.
RenderWithoutOwn(w) ==
    /\ write[w].at = "read" /\ write[w].todo = {}
    /\ Enter(w, "open")
    /\ UNCHANGED <<shared, runner, memory, copying, files, healed>>

\* renderReport, with the own records as they are by now.
RenderReport(w) ==
    /\ write[w].at = "read" /\ write[w].todo = {}
    /\ write' = [write EXCEPT ![w] =
            [@ EXCEPT !.at = "open",
                      !.doc = write[w].doc \cup {Render(i) : i \in write[w].own}]]
    /\ UNCHANGED <<shared, runner, memory, copying, files, healed>>

\* fs.writeFile opens the report and truncates it ...
Open(w) ==
    /\ write[w].at = "open"
    /\ Enter(w, "land")
    /\ report' = [kind |-> "empty", docs |-> {}]
    /\ UNCHANGED <<shared, runner, memory, copying, part, healed>>

\* ... and writes it from the start.  A page that landed in the meantime is
\* overwritten as far as this one reaches.
Land(w) ==
    /\ write[w].at = "land"
    /\ write' = [write EXCEPT ![w] = Idle]
    /\ \/ report' = [kind |-> "whole", docs |-> write[w].doc]
       \/ report.kind # "empty" /\ report' = [kind |-> "mixed", docs |-> {}]
    /\ healed' = IF write[w].lone THEN write[w].by ELSE healed
    /\ UNCHANGED <<shared, runner, memory, copying, part>>

\* A file operation fails, and the write rejects.
WriteFails(w) ==
    /\ Busy(w)
    /\ write' = [write EXCEPT ![w] = Idle]
    /\ UNCHANGED <<shared, runner, memory, copying, files, healed>>

-----------------------------------------------------------------------------
(***************************************************************************)
(* The reporter's methods, in the order scenario.ts calls them.            *)
(***************************************************************************)
Settled(p) == \A w \in Write : ~(write[w].by = p /\ write[w].awaited)

StartScenario(p) ==
    /\ harness[p] = "between" /\ Upcoming(p) \in Scenarios \ Skipped
    /\ harness' = [harness EXCEPT ![p] = "walking"]
    /\ try' = [try EXCEPT ![p] = 0] /\ next' = [next EXCEPT ![p] = 0]
    /\ count' = [count EXCEPT ![p] = @ + 1]
    /\ Disturb(p)
    /\ UNCHANGED <<shared, status, attempt, steps, copying, files>>

\* skipScenario: its caller waits for the write, though not for long.
SkipScenario(p, w) ==
    /\ harness[p] = "between" /\ Upcoming(p) \in Skipped
    /\ count' = [count EXCEPT ![p] = @ + 1]
    /\ status' = [status EXCEPT ![Upcoming(p)] = "skipped"]
    /\ UNCHANGED <<shared, runner, attempt, steps, copying, files>>
    /\ Begin(p, w, FALSE)

\* The first step of a later attempt starts a new list.  One of an earlier attempt
\* would be dropped; the runner's attempts only grow.
Reset(i, a) ==
    IF a > attempt[i]
    THEN attempt' = [attempt EXCEPT ![i] = a] /\ Disturb(i[1])
    ELSE UNCHANGED <<attempt, write, healed>>

\* recordStep up to the copy of the screenshot.  The step may be one of a body that
\* timed out, while the hooks run.
RecordStep(p, class) ==
    LET i == Current(p)
        e == [attempt |-> try[p], sequence |-> next[p], class |-> class] IN
    /\ harness[p] \notin {"between", "exited"} /\ next[p] < MaxSteps[p]
    /\ next' = [next EXCEPT ![p] = @ + 1]
    /\ Reset(i, try[p])
    /\ copying' = copying \cup {<<i, e>>}
    /\ UNCHANGED <<shared, harness, try, count, status, steps, files>>

\* A mutant: the list is looked up after the copy.
PushToCurrent(i, e, w) ==
    /\ <<i, e>> \in copying
    /\ copying' = copying \ {<<i, e>>}
    /\ steps' = [steps EXCEPT ![i][attempt[i]] = Append(@, e)]
    /\ UNCHANGED <<shared, runner, count, status, attempt, files>>
    /\ Begin(i[1], w, FALSE)

\* The step is appended to the list its scenario had at the call, which a retry
\* may have replaced, and the report is written.
Push(i, e, w) ==
    /\ <<i, e>> \in copying
    /\ copying' = copying \ {<<i, e>>}
    /\ steps' = [steps EXCEPT ![i][e.attempt] = Append(@, e)]
    /\ UNCHANGED <<shared, runner, count, status, attempt, files>>
    /\ Begin(i[1], w, FALSE)

\* bun runs the walkthrough again.
RunAgain(p) ==
    /\ harness[p] = "walking" /\ try[p] < LastTry[p]
    /\ try' = [try EXCEPT ![p] = @ + 1] /\ next' = [next EXCEPT ![p] = 0]
    /\ UNCHANGED <<shared, harness, memory, copying, write, files, healed>>

Flush(p, w) ==
    /\ harness[p] = "walking"
    /\ harness' = [harness EXCEPT ![p] = "flushing"]
    /\ UNCHANGED <<shared, try, next, memory, copying, files>>
    /\ Begin(p, w, TRUE)

FinishScenario(p, verdict, w) ==
    /\ harness[p] = "flushing" /\ Settled(p)
    /\ harness' = [harness EXCEPT ![p] = "finishing"]
    /\ status' = [status EXCEPT ![Current(p)] = verdict]
    /\ UNCHANGED <<shared, try, next, count, attempt, steps, copying, files>>
    /\ Begin(p, w, TRUE)

Finished(p) ==
    /\ harness[p] = "finishing" /\ Settled(p)
    /\ harness' = [harness EXCEPT ![p] = "between"]
    /\ UNCHANGED <<shared, try, next, memory, copying, write, files, healed>>

\* The process exits, and with it what nobody awaited.
Exit(p) ==
    /\ harness[p] = "between"
    /\ harness' = [harness EXCEPT ![p] = "exited"]
    /\ copying' = {c \in copying : c[1][1] # p}
    /\ write' = [w \in Write |-> IF write[w].by = p THEN Idle ELSE write[w]]
    /\ UNCHANGED <<shared, try, next, memory, files, healed>>

AllExited == (\A p \in Proc : harness[p] = "exited") /\ UNCHANGED vars

-----------------------------------------------------------------------------
Runner(p) ==
    \/ StartScenario(p)
    \/ \E class \in Class : RecordStep(p, class)
    \/ RunAgain(p) \/ Finished(p) \/ Exit(p)
    \/ \E w \in Write :
         \/ SkipScenario(p, w) \/ Flush(p, w)
         \/ \E verdict \in Verdict : FinishScenario(p, verdict, w)

Advance(w) ==
    \/ Stringify(w) \/ Rename(w)
    \/ \E listed \in BOOLEAN : List(w, listed)
    \/ \E q \in Proc, parsed \in BOOLEAN : ReadPart(w, q, parsed)
    \/ RenderReport(w) \/ Open(w) \/ Land(w) \/ WriteFails(w)

Next ==
    \/ \E p \in Proc : Runner(p)
    \/ \E c \in copying, w \in Write : Push(c[1], c[2], w)
    \/ \E w \in Write : Advance(w)
    \/ AllExited

Spec == Init /\ [][Next]_vars

-----------------------------------------------------------------------------
(***************************************************************************)
(* Badges: the report's, and those of the platform (db.ts, toScenario).    *)
(***************************************************************************)
Holds(d, class) == \E n \in DOMAIN d.steps : d.steps[n].class = class

\* A mutant: the steps outrank the verdict.
StepsFirst(d) ==
    IF Holds(d, "pending") THEN "incomplete"
    ELSE IF Holds(d, "fixme") THEN "warning"
    ELSE d.status

ReportBadge(d) ==
    IF d.status \in {"skipped", "failed"} THEN d.status
    ELSE IF Holds(d, "pending") THEN "incomplete"
    ELSE IF Holds(d, "fixme") THEN "warning"
    ELSE d.status

DashboardBadge(d) ==
    IF d.status # "passed" THEN d.status
    ELSE IF Holds(d, "pending") THEN "incomplete"
    ELSE IF Holds(d, "fixme") THEN "warning"
    ELSE "passed"

-----------------------------------------------------------------------------
(***************************************************************************)
(* Properties.                                                             *)
(***************************************************************************)
OnDisk == report.docs \cup UNION {Parts(p) : p \in Proc}

\* However late a step's screenshot is copied, no list that was ever written
\* mixes the steps of two attempts.
OneAttemptShown ==
    \A d \in OnDisk : \A m, n \in DOMAIN d.steps :
        d.steps[m].attempt = d.steps[n].attempt

\* A report never shows a scenario twice, say once from memory and once from an
\* older part.
NoScenarioTwice ==
    \A d, e \in report.docs : d.id = e.id => d = e

\* "The next render picks it up": a write that no other one overlapped, and that could
\* read what there was to read, leaves the whole of its process's memory in the part
\* and in the report, and beside it what the other processes had left, whatever
\* overlapping writes, failed writes, parts passed over and exits had done before.
UndisturbedWriteHeals ==
    healed # Nobody =>
        /\ report.kind = "whole"
        /\ shared => part[healed] = Live(healed)
        /\ report.docs = Live(healed) \cup
                UNION {Parts(q) : q \in Proc \ {healed}}

\* A scenario that finished is shown the same here and on the dashboard.
FinishedShownAsOnDashboard ==
    \A d \in report.docs : d.status # "running" => ReportBadge(d) = DashboardBadge(d)

\* scenario.ts: the number is taken at the call "so order reflects authoring
\* order".  The code violates this: a list is in the order of the screenshots.
ShownInAuthoringOrder ==
    \A d \in report.docs : \A m, n \in DOMAIN d.steps :
        m < n => d.steps[m].sequence < d.steps[n].sequence

=============================================================================
