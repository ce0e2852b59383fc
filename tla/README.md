# Opice: a TLA+ model of its test runs

Opice runs browser test scenarios under `bun test` and records them on a
platform (a Cloudflare Worker over D1 and R2) or in a local HTML report. This
directory models a test run from the command line to the page that shows it: the
CLI, the scenario runner with its browser and its stored sessions, the reporters,
the records and objects the platform keeps, the credentials it hands out, and
the readers; and beside it the interactive browser daemon. Paths below are
relative to `src/packages/`.

## The system

| Component | State it keeps | Operations | Talks to |
|---|---|---|---|
| Scenario runner, `harness/src/scenario.ts` | five module variables (`currentScenarioId`, `...Failures`, `...StepSeq`, `currentAttempt`, counters of stubs) shared by every scenario of a process | `browserTest` (beforeAll, body wrapper, afterAll), `step`, `invariant` (`runUnit`), `registerSkipped` | bun's runner calls it; it awaits the reporter and the browser context |
| HTTP reporter, `harness/src/reporter.ts` | the memoized run promise, the set of pending steps, three counters | `startScenario`, `skipScenario`, `recordStep`, `finishScenario`, `uploadVideo`, `flush`, each a round of `fetch` with retries | HTTPS to the Worker; writes the handoff file |
| Local report, `harness/src/file-reporter.ts` | scenarios in memory, a part file per process, one `report.html` for all | the same interface; every write merges the parts on disk | other bun processes, through the directory |
| Browser context, `harness/src/context.ts` | the current page and context, the walkthrough video and its manifest | `launchPage`, `closePage`, `recordVideoStep` | Playwright |
| Stored sessions, `harness/src/auth.ts` | one cache file per identity | load, verify, refresh, merge | other processes, through the file |
| Tier gate and selection, `harness/src/tier.ts`, `select.ts`, `find-file.ts` | none | pure decisions: which scenarios are skipped | read by `browserTest` |
| CLI, `cli/src/commands/test.ts` | one child process, handoff files | spawn bun, collect handoffs, `POST /finish`, exit code | the child, the Worker |
| Platform records, `worker/src/db.ts`, `routes/ingest.ts`, `index.ts` | rows of runs, scenarios, steps, screenshots | ingest writes, `finishRun`, heartbeat (`touchRun`), the cron reaper, display statuses | D1, R2; concurrent invocations |
| Dashboard API and access, `worker/src/router.ts`, `rpc/`, `principal.ts`, `iam.ts`, `shareRouter.ts` | credentials and share links | reads, create, rotate, mint, revoke | D1, the identity provider |
| Interactive browser daemon, `browser/src/` | one browser session behind a socket | launch, commands, quit, shutdown | its own CLI |
| Dashboard (SPA), provisioning, skills, examples | none that others read | rendering, scripts, text | the API |

How a run goes: `opice test` spawns `bun test`. In it every scenario's
`beforeAll` awaits `startScenario`, the first of which starts the run and writes
a handoff file. Steps are posted fire-and-forget with a number taken at the
call. `afterAll` closes the page, flushes the pending steps and awaits
`finishScenario`. When the child exits, the CLI reads the handoff and posts the
run's finish; the Worker derives the verdict from the scenario rows. A run whose
finish never comes is taken by the cron reaper ten minutes after it was last
heard of.

### What is hard in it

- **Shared variables behind abandoned threads.** bun does not stop a hook or a
  test that exceeds its timeout: it stops waiting. The abandoned promise goes on
  and writes the module variables of whatever runs by then.
- **Failures that are counted and failures that are not.** The platform's
  verdict counts failed steps; bun's counts everything that throws.
- **A run that everybody waits for.** Every report awaits one memoized promise.
- **Answers that are late, lost, repeated or cut off,** under a budget of
  retries, and strict mode's three counters that must make sense of them.
- **Two statements where one is meant.** `finishRun` reads in one statement and
  writes in another, between which other invocations and the reaper run.
- **One status computed twice.** A run's badge is derived from SQL tallies, the
  badges of its scenarios row by row.
- **A directory everybody shares.** Handoffs are found by pid, cache files by role
  and origin, report parts by pid, a daemon by its socket: processes that know
  nothing of each other create, read and remove the same files.
- **An external service and a mirror of it.** Credentials live at the identity
  provider, the list of them in D1, and every procedure writes both in turn.
- **Rows before objects before keys.** A step exists before its image does; a
  page read at any moment must show only what will load.

`PROJECT.json` lists each hazard at its line, with the properties for it, or with
the reason why none covers it.

## Modules

| Module | Models |
|---|---|
| `RunLifecycle` | the promise: a run is opened once, fed, and ends by a verdict or by being given up |
| `Platform` | the rows, the ingest handlers statement by statement, the reaper, the display; implements `RunLifecycle` |
| `Scenario` | `scenario.ts` in one process, with bun's order of hooks, tests, retries and timeouts |
| `Reporter` | `HttpReporter`: calls, the run they share, `fetch`/`attempt`, flush, strict mode |
| `OpiceRun` | `opice test` around `bun test`: the handoff file, the finish, the exit code, over `RunLifecycle` |
| `Selection` | `tier.ts`, `select.ts`, `find-file.ts` as operators over paths |
| `Options` | the extractors of the command line and the precedence of settings, as operators |
| `Launch` | `testCommand` from argv to the child, `configureFromEnv` and the gate of `browserTest` |
| `FileReport` | `FileReporter`: memory, parts and the report of several processes, write by write; the badges of the two displays |
| `Walkthrough` | `context.ts`: browser, context, page, video and manifest under bun's hooks |
| `Sessions` | `auth.ts`: roles resolved through a cache that processes share |
| `StepIngest` | steps and videos: row, object, key; the numbering of steps |
| `RunPage` | the readers of a run on its three planes, over `StepIngest` |
| `Credentials` | project keys and share links at the provider and in the mirror |
| `BrowserSession` | `opice-browser`: commands, servers, Chromes, socket, session file and profile |
| `*_proofs` | the theorems about the module of that name and their proofs; `OpiceRun_proofs` also those about `BrowserSession` and `Launch`, `Credentials_proofs` those about `Sessions` |
| `MC*` | constant functions and symmetry sets for TLC; the `.cfg` files are their instances |

How they compose: `Platform` is shown to implement `RunLifecycle`, and `OpiceRun`
uses `RunLifecycle` in its place, so that what `OpiceRun` shows holds over the
rows; `Launch` extends `Options`, which extends `Selection`; `RunPage` extends
`StepIngest` and adds its readers to the same state. `Scenario` sees the
reporter, `Walkthrough` the sessions, and `OpiceRun` the reporter by what the
module for it shows at their interface.

A `*_proofs` module that is about several components extends their modules, which
share no state. The names every specification has are then told apart by a prefix:
`BSInit`, `BSNext`, `BSSpec`, `BSTypeOK`, `bsVars` in `BrowserSession`, `SS...` in
`Sessions`, `L...` in `Launch`.

`map` in `PROJECT.json` names the lines every definition stands for.

### Scenario

Every hook and every invocation of a test body is a thread with a program
counter (`before`, `body`, `after`); bun is one more (`at`, `slot`, `try`). A
thread's action is the code from one `await` to the next, so any other thread
may run in between. The module variables keep their roles: `scenarioId`,
`failures`, `stepSeq`, `attempt`. A step (`runUnit`) takes its number at the
call (`CallUnit`), counts its failure when its function settles
(`UnitSettles`), and reads the row and the attempt when its screenshot is there
(`RecordUnit`), as the code does.

Assumed of bun: it runs scenarios in order; a hook or test past its timeout is
abandoned; a failed `beforeAll` skips the tests and `afterAll`; a test that
failed or timed out is retried, `beforeAll` is not. The comments of
`scenario.ts` state the same. Which page operation an abandoned step waits for
is not modelled: it may settle either way at any time (the retry's `launchPage`
closes its page, so it usually rejects).

The reporter appears by its interface: `startScenario` resolves or rejects,
`finishScenario` settles, `recordStep` returns at once. The `throw` with which
strict mode ends `afterAll` changes bun's exit code and no variable here.

`sure`, in a step and in a verdict, is history: nothing had timed out yet and,
for a verdict, the deciding body had not thrown outside of its steps. The
properties about attribution ask for it because the code does not promise more;
see "Divergences" for what is lost without it.

### Reporter

A report is one round of `fetch`. `phase` goes from `waiting` (for the run)
through `sending` and `backoff` to one of six ends: `ok`, `lost` (retries spent),
`refused` (no retry could help), `torn` (a 200 whose body broke off), `unnoted`
(an error answer whose body broke off: the exception passes `noteFailure`),
`orphan` (the memoized run start had been rejected). Requests are on the `wire`
until they `Reach` the platform, which may happen after the reporter gave up on
them: that is how duplicates arise. `applied` counts what the platform did.

### Platform

Every D1 statement is an `await`, so a handler is a program counter over its
statements: `write` for scenario and step writes, `count` and `update` for
`finishRun`. `Admit` is the look-up of the run, `Touch` the heartbeat
(`touchRun`), which may fail after it. Time enters the code only as
`now - last_activity_at`; `idle` is that difference in ticks, saturated one past the
threshold. `Abort` ends a handler between two statements (a failed statement, an
evicted invocation), and leaves what the earlier ones did.

The reader's side is `DeriveStatus`, `RunDisplay` and `ScenarioDisplay`, as in
`db.ts`. A step row keeps its attempt and the class of its status, which is all
the reads test. `fresh` and `exact` are history: whether a scenario row changed
after the SELECT a verdict was derived from. `unheard` is history too: it is
reset by every scenario and step request that gets as far as its touch and whose
touch does not fail, whether or not the code finds the run to be touched.

### FileReport

`memory` is what a process holds of its scenarios: `status`, `attempt` and
`steps`. A retry replaces the array `scenario.steps` is bound to, and a step is
pushed to the array it saw before its screenshot was copied; `steps[i][a]` is the
array of attempt `a`, and `Render` shows the one of the current attempt.

A write is a chain of awaited file operations in a slot of `write`: `mkdir`,
`Stringify` into a temporary file, `Rename` to the part, `List` the directory,
`ReadPart` for each other part, `RenderReport`, and `fs.writeFile`, which
truncates (`Open`) and fills (`Land`). The list of scenarios is taken when the
write begins, but the records in it are shared with the memory, so a part shows
them as of `Stringify` and the report as of `RenderReport`. Two open writers may
leave a page that is neither's (`mixed`). Without a shared directory, which `Init`
chooses for the whole run as the environment does, a write goes straight to `Open`.

`lone` and `healed` are history: a write is `lone` until another begins or the
memory of its process changes, and only while it lists the directory and reads each
part: the code passes over what it cannot read. `healed` names the process whose lone write
landed last, until either happens again.

Assumed: bun may run several processes, as the comments of `file-reporter.ts` say,
under different pids; a step may be recorded while hooks run, by a body that timed
out; a process exits only between scenarios, and takes its unfinished writes and
copies with it.

### RunLifecycle, Platform and OpiceRun

`RunLifecycle` has two variables, `life` and `peopled`. `Platform` implements it
under the mapping `LifeOf`: a row's mark of the reaper hides whatever verdict a
late finish stores, which is why a verdict over a reaped run is a stutter, as
the display reads it.

`OpiceRun` is about processes. A `bun test` is `starting`, `asked` (the platform
opened a run, the answer is under way), `known` (the handoff is written, or could
not be), `lost`, or `silent` with another reporter; a command goes from `child`
over `collect`, `finish` and `unlink` to `done`. `handoff` is the directory, whose
files are found by pid only. Pids come back: a process may inherit the handoff of
another, and may be without a command above it. A request for a run that its
process gave up on (`RequestAdrift`) may open one all the same (`RunOpensLate`), as
a late request of `Reporter` does. `strays` is history: runs whose finisher was
lost by one of the causes the code accepts, from then on even if the request
that opens the run has not arrived. Two ends of a command are no failures to the
code though the run stays open: a directory of handoffs that cannot be listed
(`CannotList`) and a finish that is turned away with a redirect to a login page,
which `fetch` follows to an ok answer (`TurnedAway`). Both make the run a stray, and
`misled` is history of them.

### Selection, Options and Launch

A path is the sequence of its segments, and a token of the command line is a
word, a flag or a pair `--name=value`. A segment is in `Odd` if the pattern of
`captureTestFile` stops at it: a directory with white space or a parenthesis in its
name, a file name that is not `*.test.ts` or the like; such a file is unknown to
its scenario, or known by what follows the directory. Which texts are numbers, end in `.html`
or list files are constants. `Options` has one operator for the extractors, with the
set of tokens each takes for its value, and the precedence of settings for each
consumer. The loop of an extractor, which skips a value it took, is the equation its
result satisfies: a token is a value iff the token before it is the flag and is
not itself a value (`Taken`). `ExtractionIsDetermined` proves that it has one
solution. Only the bare `--fail-on-report-error` is opice's: with a value it goes
to bun (`IsOwn`). `Launch` has one action per step of `testCommand`, in its
order, since each extractor reads what the one before left. Falsiness is that of
the code: `??` is `Or`, `||` and a conditional spread are `OrElse`.

### Walkthrough

An opening is one call of `launchPage` with all its attempt does after it; its
browser, context, page, video and array of steps carry its name. `context.ts`
keeps one of each in module variables, which is where abandoned openings and steps
meet. `timeline` holds the arrays `videoSteps` pointed to: an abandoned step
pushes to whichever array is current when its awaits end. `launchPage` captures
the leftover it closes before its awaits (`found`) and calls `newPage` on the
context current at the call (`within`), though either may be another opening's
when the await ends. A context whose closing threw is `stuck`; the code goes on as
if it were closed. `abandoned` is history. Assumed: closing a context or browser
fails or works; a browser may die at any time, at most `MaxFaults` times together
with bun's timeouts.

### Sessions

A session is the login that minted it. The provider is a choice: reuse, refresh
(a new object, or the cached one rotated in place), log in, disown (an empty
state) or throw. A write truncates (`OpenFile`) and fills (`WriteFile`) the file
of its role and origin. A reader between the two reads nothing; two writers may
leave the end of a longer session behind (`Garbled`). `undisturbed` names calls
no other call overlapped.

### StepIngest and RunPage

A request's `at` is the statement its handler awaits: the row, the object
(`Store`, with `Backoffs` retries), the key (`Attach`) or the flag (`Flag`).
A put may store and still throw. A step has the numbers it is posted under and the
attempt whose body ran it (`body`), which differ for one that bun gave up on. The
scenario is taken to be one of the caller's run, which `createStep` does not check.
`numbers` tells a harness that sends attempt and
sequence from an older one, for which the worker numbers steps itself.

A reader has an API of its own (`/rpc`, `/api/v1`, `/s/rpc`) and gates of its own
for rows and for assets; a page is what it has loaded so far, and access may end
between any two reads. A read of the bucket that throws is an answer that is not
modelled, as any other failed read: the properties are about what was served. A
browser holds one cookie, which another link replaces.

### Credentials

Requests of several operators interleave between the provider and the mirror,
one action per call. The provider may carry out a revocation and not be heard,
or refuse it with an answer nobody reads. `unsure` and a request's `alone` are
history. An expiry is like a revocation, and modelled in `RunPage` only.

### BrowserSession

Commands, servers and Chromes are processes of their own, any of which may be
slow or die. They meet at `sock` and `file`, of which there is one each however
many servers there are, and at the profile directory, on which a second Chrome
does not start. `overlapped` is history: servers about while another was launched.

## Runs

| Run | Asks | Bounds |
|---|---|---|
| `platform` | the verdict under concurrent invocations; a run's badge against those of its scenarios; the reaper against the heartbeat; every run ends; the rows implement `RunLifecycle` | 1 run, 2 scenarios, 2 attempts, 2 handlers, 5 requests, stale after 1 tick |
| `opice_run` | which runs get a finish, from whom, and what a green strict command has seen | 2 commands, 2 pids, 3 runs |
| `scenario` | verdicts, attribution of steps, no row left running | 3 scenarios (registrar, skipped, body form), 2 attempts, 1 or 2 steps each, 1 test timeout |
| `reporter` | what success, green and flushed mean; every call settles | 2 calls, 1 run start, 1 retry |
| `launch` | tokens, settings and selection from argv to the gate | every line of up to 3 of 13 tokens and of 4 of 7; every source of each setting; every layout of markers around a directory three levels deep; 4 scenarios, one below a directory and one in a file that is odd; lists with `./` and `./x` |
| `file_report` | the report of several processes, with and without a shared directory | 2 processes, of which one walks a scenario (1 retry, 1 step an attempt) and one skips its own, 2 writes at a time |
| `file_report_order` (violation) | "so order reflects authoring order" | 1 process, 2 steps |
| `walkthrough` | pages, footage and files of scenarios | 2 scenarios of one name after one of that name and a number, 1 retry, 1 and 2 steps, 1 timeout or crash |
| `sessions` | the cache under concurrent processes | 4 calls, 3 roles, 2 environments, 2 logins of a role |
| `run_page` | what ingest answers against what readers see | 4 steps, of which the first attempt posts one and leaves one behind and the second posts two, a video, 2 requests, 2 links, 4 kinds of reader |
| `credentials` | what still works against what is listed | 2 operators, 3 credentials |
| `browser_session` | which browser verbs act on; ends and leftovers | 2 terminals, 2 servers |

Why the bounds are enough. *Platform*: two handlers are what an interleaving of
the two statements of `finishRun` with another write needs. Five requests open two
scenarios, finish both and then the run, or finish it twice. Every statement names
its run, and the reaper tests each row by itself, so one run is enough. A run is
stale after one tick in which it was not heard of. The theorems have no bound.
*OpiceRun*: a stale handoff needs one earlier process of the same pid, a bare
process a second pid, and a lost answer one more run. *Scenario*: state leaks from
one scenario to the next, and from an attempt to its retry; three scenarios give
each form a neighbour, two steps let a failure follow a success. *Reporter*: two
calls race for the run start, one retry gives a late first request and a repeated
one. *Launch*: an extractor touches its flag and the next token, so four tokens
let two flags compete for one value with a token of bun's on either side; each of
the four scenarios is named by a list in a form of its own. *FileReport*: two
writes are what it takes to overlap, within one process or across two; a part is
read by another process only. *Walkthrough*: an abandoned opening needs one
timeout and one scenario after it; names that slug alike need two, and the suffix
that is itself a name one before them. *Sessions*: a torn file needs a writer and
a reader, and the `ResolvingAloneHeals` of a third call needs both behind it;
merging needs two roles in either order. *RunPage*: two requests overlap in every
pair of statements; a second attempt hides the first, and the step left behind
shares the number of one of the second's own. *Credentials*: a rotation replaces
one key by another, and a second operator's holds the third. *BrowserSession*: a
launch that overlaps another server needs two of each.

`CHECK_DEADLOCK` is off in `sessions` and `walkthrough`, whose calls and
scenarios are finitely many and end; elsewhere it is on, and processes that
exited stutter explicitly (`Exited`, `AllExited`).

The modules each have a type invariant. `sessions` and `walkthrough` check
theirs, and all are proved.

### Fairness

`platform` assumes that time passes and that the cron fires
(`worker/src/index.ts`, `scheduled`), and nothing of clients or of invocations.
`reporter` assumes that the event loop runs: timers (`AbortSignal`, back-off)
fire and settled promises continue. Nothing is assumed of the network.
`browser_session` assumes that a server that runs goes on with what it began
(`ServerStep`), and nothing of commands or of Chrome.

### Divergences

`file_report_order` shows that `recordStep` pushes after the copy of its
screenshot, and that the report lists steps as they were pushed, although
`sequence` is stored: two steps may appear in the order of their copies.

The models admit the following behaviours of the code, which differ from what a
comment says of it. No run is kept for them; the named property excludes the case.

- `harness/src/scenario.ts:388`: `failed` is sent iff a *step* failed. A body that
  throws between its steps (a bare `expect`, a helper) is red in bun and `passed`
  on the platform (`FaithfulVerdict`, `MayStray`).
- `scenario.ts:681`: the step on which an attempt timed out rejects while its
  retry runs, after the retry reset the counter, so the retry is told `failed`
  although bun passed it (`FaithfulVerdict`, `sure`).
- `scenario.ts:681`: that step is recorded when its retry runs, under its own place and
  the retry's attempt and row, where a step of the retry may have the same number
  (`StepsAreOwn`, `sure`; in the worker `ShownInAuthoringOrder`, which orders by number).
- `scenario.ts:129`: the pattern of `captureTestFile` finds no file name without
  `.test.`, and stops at white space and parentheses. A changed file of such a path
  is not matched by its whole path, and its scenario may be skipped, where
  `select.ts:8` promises to run it (`ChangedFilesRun`, whose paths have nothing in `Odd`).
- `harness/src/reporter.ts:440`: a report that was applied and whose answer was lost is
  sent again, and the platform does it twice, a second step or a second scenario row
  (`AcknowledgedIsRecorded`, which asks for once only of what was sent once).
- `harness/src/reporter.ts:507`: `response.text()` of an error answer is awaited
  outside of any `try` in `attempt`; when it throws, the failure is neither retried
  nor counted, and a strict run may be green with nothing recorded
  (`GreenIsRecorded`, phase `unnoted`).
- `harness/src/file-reporter.ts:280`: `scenarioDisplay` looks at the steps of a
  scenario that has no verdict yet, where the dashboard shows `running`
  (`FinishedShownAsOnDashboard`).
- `cli/src/commands/test.ts:24`: a `project` or `endpoint` in `opice.config.json` that
  is the empty text passes `??` and hides the DSN from the CLI, which warns that
  nothing will be reported; the child gets no such variable, falls back to the DSN
  and reports. `opice init` (`init.ts:20`) writes no such text (`CliAndChildAgree`).
- `cli/src/commands/test.ts:355`: "a failed finalize (POST /finish) reddens an
  otherwise-green run" (`test.ts:144`) under strict reporting. But `finishRun` follows
  redirects and asks only whether the last answer is ok: a service token that is
  rejected at the edge is sent to a login page, which is, so the command is green and
  its run stays open until it is reaped. The reporter guards against just this
  (`reporter.ts:478`). And a directory of handoffs that cannot be listed (`test.ts:323`)
  counts as one without handoffs, whatever the reason (`GreenStrictRunIsClosed`,
  `misled`).
- `worker/src/routes/ingest.ts:237`: a token for one project "can't touch another's runs
  by id" (`ingest.ts:19`). `createStep` never checks that its scenario is of the run in
  the URL, as `uploadVideo` does (`ingest.ts:307`): a step may be recorded under a
  scenario of another run. `StepIngest` takes a harness that sends what it was given.
- `worker/src/db.ts:496`: a scenario row that changes after the SELECT and before the
  UPDATE of `finishRun` is not in the verdict that is stored, and nothing derives it
  again (`VerdictIsExact`, which speaks of runs no row of which changed since the SELECT).
- `harness/src/context.ts:226`: an opening that bun gave up on goes on, and sets context
  and page under the scenario that runs by then, though a leftover context is closed "so
  state never bleeds across scenarios" (`WalksAlone`, `StepsOnly`).
- `harness/src/context.ts:254`: `recordVideoStep` appends to the array that is current
  after its awaits, so that a step of an abandoned walk gets into the next recording's
  manifest (`FootageIsOwn`, which asks for an attempt's own steps, and for nothing else
  only as long as nothing was abandoned).
- `harness/src/auth.ts:224`: `mergeStates` merges every field of an origin but
  localStorage with `Object.assign`, so two identities' IndexedDB clash without a
  word, under `OPICE_AUTH_STRICT` too (`SeededAsDeclared`, `Unwatched`).
- `browser/src/server.ts:79`: a boot that fails after Chrome was spawned leaves a
  detached Chrome that no file names and no `quit` finds.
- `worker/src/router.ts:204`: two rotations that overlap leave two live keys of one
  kind (`RotationAloneReplaces`, `alone`); and a revocation the provider refuses is
  marked as done (`unsure`).
- `worker/src/principal.ts:152`: a second link opened in one browser replaces the
  cookie of the first, whose page then fails to load (`ShownAssetsAreServed`, `MayRead`).
- `cli/src/commands/failures.ts:90`: a scenario whose steps could not be read has an
  empty list in the digest (`DigestSteps`).

## Proofs

The `*_proofs` modules prove, for every value of the constants that satisfies
the named assumptions (`PlatformAssumption`, `ScenarioAssumption`,
`UnitsAssumption`, `NotToldAssumption`, `ReporterAssumption`,
`FileReportAssumption`, `SkippedAssumption`, `OpiceRunAssumption`,
`CredentialsAssumption`, `StepAssumption`, `ShareAssumption`,
`WalkthroughAssumption`, `SessionsAssumption`, `LaunchAssumption`; `BrowserSession`
needs none):

- `Platform`: type correctness, `VerdictIsExact`, `RunShowsWorstScenario`,
  `ReaperTakesOnlySilentRuns`, that an ended run never runs again (`EndIsFinal`),
  and `LifecycleImplemented`: `Spec` implies `RunLifecycle`'s specification under
  the mapping of rows to `life` and `peopled`. The inductive invariant says in
  addition that a handler between SELECT and UPDATE with `fresh` set holds the
  verdict the rows call for now, that the heartbeat is never behind `unheard` on
  an open run, that a reaped run is finished, and, for the refinement, that a
  handler about to store `passed` is one of a run that has a scenario. The first
  is needed because `VerdictIsExact` speaks only of what was stored. The step
  of the refinement maps `CreateRun` to `Open`, `CreateScenario` to `Feed`,
  `StoreVerdict` to `Close`, `Reap` to `GiveUp`, and all others to stutters. What is
  proved of `RunLifecycle` then holds of the rows: `EmptyRunsNeverPass`.
- `Scenario`: type correctness and all of the run's properties, for any number of
  scenarios, retries and steps. `NoRowLeftRunning` asks that only tests time out
  (`"before"` and `"after"` not in `MayTimeOut`); its invariant follows a row from
  the hook that opened it to the verdict: while bun is at a scenario, the current
  row is this one's, whatever abandoned bodies do, because only hooks write
  `scenarioId`. `FaithfulVerdict` and `StepsAreOwn` hold whatever may time out. As
  long as nothing has, the shared variables are the current scenario's, and its
  failures are counted iff an invocation that was judged threw (`VInv`); a
  verdict that was sure stays right after later timeouts, since a row that has
  a verdict gets no other.
- `Reporter`: all safety properties, and that one run is started however many
  calls race for it (`OneRunPerProcess`). The invariant relates each counter to
  the set of reports in the phase that explains it, and each request on the wire
  to the tries of its report.
- `FileReport`: type correctness and all of the run's properties, by three
  invariants. `AttemptsApart`: documents come from memory or from files and files
  from writes (`Provenance`), and an array holds steps of one attempt.
  `ScenariosShownOnce`: a part holds its own process's scenarios, and a write that
  reads parts has nothing yet of the processes still to be read nor of its own.
  `LoneWritesHeal`: `OnTrack` says stage by stage what a lone write has secured.
- `OpiceRun`: type correctness and all of the run's properties. The invariant says
  whose each run is: the file of a pid names a run that is over or the one of the
  process that has the pid; no two processes, and no process and another's
  file, name one run; a command that collects, finishes or unlinks has a child
  that is dead; a verdict comes from a finish that landed, and one that is on
  its way will close the run it names. `GreenMeansClosed` says that a green strict
  command leaves its run closed, unless it was `misled`, by one of the two failures it
  takes for success. `PlatformIsUsedAsPromised` completes the
  composition: whatever commands and processes do, the platform sees a behaviour of
  `RunLifecycle`, which is what `LifecycleImplemented` says of the rows.
- `Credentials`: type correctness and both of the run's properties.
  `WorkingIsListed` speaks of what was handed out; the invariant adds what is on its
  way there, and to the mark of a revocation, in the requests (`RequestOK`,
  `RevokedIsDead`). `RotationAloneReplaces` needs in addition that, while a
  request is alone, all others are idle, and that the rows listed of a kind it has
  still to issue are first those it is to revoke, then none, and at last its own
  (`AloneOK`).
- `BrowserSession`: type correctness and both of the run's safety properties. No two
  browsers live at a time, since they would share the profile; and of two servers
  about at one time each is in `overlapped`, because whoever launches one notes
  those it finds (`BrowserInv`). `ReachableUnlessOverlapped` is then inductive: what
  takes the socket or the session file from a server is another server's
  listening, failing or shutting down, a command that found it dead, or its own end.
  For `PageIsKept`, a verb reaches a server whose browser lives, and the one
  the last verb went to is either the same or has none.
- `Launch`: type correctness and all of the run's properties. `CliAndChildAgree` is
  carried from the extraction of a setting over the environment of the child (`ChildOK`)
  to what the harness makes of it (`ToldOK`). `ChangedFilesRun`, of files with nothing
  odd in their paths, rests on lemmas about paths: normalising keeps a path that has
  nothing to drop, what is below a directory is an end of the path, two ends of one path
  are ends of each other, and an end selects. `UserFilesAreOfTheProject` rests on lemmas
  about `Upward`: the ancestors of a directory are in line, so the deepest marked one is
  well defined, and the ceiling lies at or above it only for an `OPICE_PROJECT_ROOT`
  that names it. `BunsTokensSurvive` is about a line of any length. What is left of it
  is described by the positions that are kept (`Survives`): of an option that was
  extracted none is kept, and a foreign token that is not kept was a value, with nothing
  kept between it and its flag. An extraction keeps this up (`SurvivesMore`), because
  picking from what was picked is picking (`PickedTwice`), in the same order. That sets
  of positions have an order, and the equation of `Taken` a solution, are shown by a
  least counterexample, which needs no induction theorem (`LeastOne`).
- `Sessions`: type correctness and all of the run's properties. What a call has
  collected and what it has still to resolve are different roles, the first in their
  order; a file holds a session of its own role and environment, or none that can be
  read (`SessionsInv`). With the greatest entry that sets a key in `MergeStates`, this
  is `SeededAsDeclared`. `ResolvingAloneHeals` adds that a call no other has
  overlapped is the only busy one, and that the cache holds what it has made of it so
  far (`AloneInv`).
- `StepIngest` and `RunPage`: type correctness and all of the run's properties.
  `IngestInv` follows a request: whoever stores, attaches or flags is the only
  holder of a row (`Apart`), and that row is as far as its holder (`StepIsTrue`).
  `KeysAreStored` is what the pages rest on. `PlacesAreKept` with `Bounded`, without
  which the `MAX` of a table's places would be undefined, gives the order. The
  readers' part, `PageIsStored` and `HolderIsInvited`, uses that nothing removes an
  object and that a cookie comes from a link that was live.
- `Walkthrough`: type correctness and all of the run's properties, by three
  invariants. `TInv`, whatever bun abandons: it goes forward, and a closing that
  saves has a stem of its own, since of one more suffix than there are stems
  `uniqueVideoStem` finds a free one (the pigeonhole principle;
  `RecordingsApart`). `WInv`, while only walking attempts were abandoned: an
  opening, and a closing, that is under way is the current one and has the shared
  variables to itself (`InTurn`), which `WalksAlone` needs because the page it
  speaks of was opened several steps before. `FInv` adds the arrays: one has an
  opening's first steps (`TimelinesOK`), and lacks none but the one being recorded as
  long as it is current; while nothing was abandoned it has nothing else, and its
  attempt has ended when it is saved (`Undisturbed`). What a context that could not be
  closed leaves open is in `stuck`, which `WalksAlone` admits.

TLC only: liveness (`EveryRunEnds`, `EveryCallSettles`, `ToldToEndEnds`), which
TLAPS cannot reason about.

## Not modelled

Rendering (the dashboard's components, the HTML of the local report),
provisioning, page helpers, file-copying commands, skills and examples keep no
state another part reads. Lists of projects and runs, their paging, and the RPC
dispatcher are sequential reads of rows. The identity provider is external.
Wall-clock budgets (the 30 s and 60 s of hooks against the 44.3 s of a report's
retries) need a timed model; without it a hook's timeout is a fault that
`MayTimeOut` admits, and the `scenario` run admits it for tests only. What is left
out of a component that is modelled is in its note in `PROJECT.json`.

## Plan

1. `HookBudget`: hooks against the reporter's retry budget, with a clock.
2. What the flush of the local report waits for, and the boot of the browser daemon
   that fails, the two hazards without a property that need no clock.
