----------------------------- MODULE Walkthrough ------------------------------
(***************************************************************************)
(* The browser behind the scenarios of one test process (context.ts, and   *)
(* openScenario of scenario.ts): one shared browser, and one context, one  *)
(* page, one video and one timeline of steps at a time, all of them        *)
(* variables of the module, which every scenario and every attempt         *)
(* replaces.  bun abandons a hook or a test that takes too long, but what  *)
(* it awaited goes on: an abandoned opening or step is still a thread.     *)
(*                                                                         *)
(* An opening is one call of launchPage and everything the attempt does    *)
(* after it.  Its context, its page, its video and its timeline have its   *)
(* name.  The session it is seeded with comes from Sessions: here it is an *)
(* await, which ends or throws.                                            *)
(***************************************************************************)
EXTENDS Naturals, FiniteSets, SequencesExt

CONSTANTS
    LastScenario,         \* the scenarios, in the order in which bun runs them
    LastTry,      \* the retries each of them has
    Legacy,       \* scenarios that open their page in beforeAll
    EarlierStems, \* the stems of what the process recorded before these scenarios
    StepsOf,      \* the steps a scenario's body has
    Slug,         \* slugify of the scenarios' names, as the words of a file name
    MaxFaults,    \* bound: the hooks and tests bun gives up on, and the browser's deaths
    None

Scenarios == 1..LastScenario
Opening   == UNION {{s} \X (0..LastTry[s]) : s \in Scenarios}

ASSUME WalkthroughAssumption ==
    /\ LastScenario \in Nat /\ LastTry \in [Scenarios -> Nat] /\ MaxFaults \in Nat
    /\ Legacy \subseteq Scenarios
    /\ StepsOf \in [Scenarios -> Nat]
    /\ IsFiniteSet(EarlierStems)
    /\ \A s \in Scenarios : Slug[s] \in Seq(Range(Slug[s]))
    /\ None \notin Scenarios \cup Opening

VARIABLES
    \* context.ts
    browser,        \* the opening that launched it
    context,
    page,
    currentLabel,   \* currentVideoLabel and currentVideoName
    videoSteps,     \* whose array it is: an opening's, or None's, closePage's
    usedVideoStems,
    \* the threads
    pc,             \* where each opening is
    local,          \* the browser it was given
    found,          \* the leftover context and page it is closing
    nth,            \* the steps it has called
    closing,        \* where closePage is, and what it took down
    \* the browser and the disk
    alive,          \* browsers
    open,           \* contexts
    stuck,          \* contexts whose closing threw
    within,         \* the context an opening asks for its page
    rawVideos,      \* what lies in VIDEO_RAW_DIR
    timeline,       \* the arrays videoSteps pointed to
    saved,          \* the recordings in OPICE_VIDEO_DIR
    crashes,
    \* bun
    at, try, slot,
    abandoned       \* the openings, attempts and closings bun gave up on

shared == <<browser, context, page, currentLabel, videoSteps, usedVideoStems>>
world  == <<alive, open, stuck, within, rawVideos, timeline, saved, crashes>>
bun    == <<at, try, slot, abandoned>>
threads == <<pc, local, found, nth, closing>>
vars   == <<shared, threads, world, bun>>

Held == [page : Opening \cup {None}, label : Scenarios \cup {None},
         steps : Opening \cup {None}, context : Opening \cup {None}]
Leftover == [context : Opening \cup {None}, page : Opening \cup {None}]
Entry == [by : Opening, nth : Nat]
Closing == [at : {"no", "closing", "saving", "done", "threw"}, held : Held,
            stem : {None} \cup usedVideoStems]
Recording == [stem : usedVideoStems, label : Scenarios, video : Opening, steps : Seq(Entry)]

Opens == {"leftover", "launching", "resolving", "context", "page", "going"}

TypeOK ==
    /\ {browser, context, page, videoSteps} \subseteq Opening \cup {None}
    /\ currentLabel \in Scenarios \cup {None}
    /\ pc \in [Opening -> Opens \cup {"new", "walking", "recording", "failing", "passed", "failed"}]
    /\ local \in [Opening -> Opening \cup {None}]
    /\ found \in [Opening -> Leftover]
    /\ nth \in [Opening -> Nat] /\ \A o \in Opening : nth[o] <= StepsOf[o[1]]
    /\ closing \in [Scenarios -> Closing] /\ saved \subseteq Recording
    /\ alive \subseteq Opening /\ open \subseteq Opening /\ stuck \subseteq Opening \cup {None}
    /\ rawVideos \subseteq Opening
    /\ within \in [Opening -> Opening \cup {None}]
    /\ timeline \in [Opening \cup {None} -> Seq(Entry)]
    /\ at \in 1..(LastScenario + 1) /\ try \in Nat
    /\ slot \in {"before", "test", "after"}
    /\ abandoned \subseteq [in : {"opening", "walk", "closing"}, of : Opening]

NothingHeld == [page |-> None, label |-> None, steps |-> None, context |-> None]
NoLeftover  == [context |-> None, page |-> None]

Init ==
    /\ browser = None /\ context = None /\ page = None
    /\ currentLabel = None /\ videoSteps = None /\ usedVideoStems = EarlierStems
    /\ pc = [o \in Opening |-> "new"]
    /\ local = [o \in Opening |-> None] /\ found = [o \in Opening |-> NoLeftover]
    /\ nth = [o \in Opening |-> 0]
    /\ closing = [s \in Scenarios |-> [at |-> "no", held |-> NothingHeld, stem |-> None]]
    /\ alive = {} /\ open = {} /\ stuck = {} /\ rawVideos = {} /\ saved = {} /\ crashes = 0
    /\ within = [o \in Opening |-> None]
    /\ timeline = [a \in Opening \cup {None} |-> <<>>]
    /\ at = 1 /\ try = 0 /\ slot = "before" /\ abandoned = {}

Running == at <= LastScenario

Become(o, p) == pc' = [pc EXCEPT ![o] = p]

-----------------------------------------------------------------------------
(***************************************************************************)
(* launchPage.                                                             *)
(***************************************************************************)

\* getBrowser: reuse the browser while it is connected.
GetBrowser(o) ==
    IF browser \in alive
    THEN Become(o, "resolving") /\ local' = [local EXCEPT ![o] = browser]
    ELSE Become(o, "launching") /\ UNCHANGED local

\* A mutant: a context that is left over is replaced, not closed.
LaunchPageOver(o) ==
    /\ pc[o] = "new"
    /\ GetBrowser(o)
    /\ UNCHANGED <<shared, found, nth, closing, world>>

\* A leftover context is a discarded attempt, and closed first.
LaunchPage(o) ==
    /\ pc[o] = "new"
    /\ IF context # None
       THEN /\ Become(o, "leftover") /\ UNCHANGED local
            /\ found' = [found EXCEPT ![o] = [context |-> context, page |-> page]]
       ELSE GetBrowser(o) /\ UNCHANGED found
    /\ UNCHANGED <<shared, nth, closing, world>>

\* The context it found is closed, and its half-recorded video deleted; either may
\* fail, and is as good as done.
LeftoverClosed(o, threw) ==
    /\ pc[o] = "leftover"
    /\ IF threw THEN stuck' = stuck \cup {found[o].context} /\ UNCHANGED open
       ELSE open' = open \ {found[o].context} /\ UNCHANGED stuck
    /\ rawVideos' \in {rawVideos, rawVideos \ {found[o].page}}
    /\ found' = [found EXCEPT ![o] = NoLeftover]
    /\ context' = None
    /\ page' = None
    /\ GetBrowser(o)
    /\ UNCHANGED <<browser, currentLabel, videoSteps, usedVideoStems, nth, closing,
                   alive, within, timeline, saved, crashes>>

BrowserLaunched(o) ==
    /\ pc[o] = "launching"
    /\ browser' = o
    /\ alive' = alive \cup {o}
    /\ local' = [local EXCEPT ![o] = o]
    /\ Become(o, "resolving")
    /\ UNCHANGED <<context, page, currentLabel, videoSteps, usedVideoStems, found, nth, closing, open,
                   stuck, within, rawVideos, timeline, saved, crashes>>

\* The roles are resolved; newContext, seeded; the cursor is installed in it.
ContextOpened(o) ==
    /\ pc[o] = "resolving"
    /\ local[o] \in alive
    /\ context' = o
    /\ open' = open \cup {o}
    /\ Become(o, "context")
    /\ UNCHANGED <<browser, page, currentLabel, videoSteps, usedVideoStems, local, found, nth, closing,
                   alive, stuck, within, rawVideos, timeline, saved, crashes>>

\* A mutant: the array of the attempt before is recorded on.
NamedKeepingSteps(o) ==
    /\ pc[o] = "context"
    /\ currentLabel' = o[1]
    /\ Become(o, "page")
    /\ within' = [within EXCEPT ![o] = context]
    /\ UNCHANGED <<browser, context, page, videoSteps, usedVideoStems, local, found, nth, closing,
                   alive, open, stuck, rawVideos, timeline, saved, crashes>>

\* The recording gets its name and an array of its own; newPage is called.
Named(o) ==
    /\ pc[o] = "context"
    /\ currentLabel' = o[1]
    /\ videoSteps' = o
    /\ Become(o, "page")
    /\ within' = [within EXCEPT ![o] = context]
    /\ UNCHANGED <<browser, context, page, usedVideoStems, local, found, nth, closing,
                   alive, open, stuck, rawVideos, timeline, saved, crashes>>

PageOpened(o) ==
    /\ pc[o] = "page"
    /\ within[o] \in open
    /\ page' = o
    /\ rawVideos' = rawVideos \cup {o}
    /\ Become(o, "going")
    /\ UNCHANGED <<browser, context, currentLabel, videoSteps, usedVideoStems, local, found,
                   nth, closing, alive, open, stuck, within, timeline, saved, crashes>>

\* browser-setup.ts and the navigation.
Navigated(o) ==
    /\ pc[o] = "going"
    /\ context # None
    /\ within[o] \in open
    /\ Become(o, "walking")
    /\ UNCHANGED <<shared, local, found, nth, closing, world>>

\* Any of it throws.
OpenThrows(o) ==
    /\ pc[o] \in Opens \ {"leftover"}
    /\ Become(o, "failed")
    /\ UNCHANGED <<shared, local, found, nth, closing, world>>

-----------------------------------------------------------------------------
(***************************************************************************)
(* The steps of an attempt, and recordVideoStep.                           *)
(***************************************************************************)

\* A step ends; it is recorded while a video is.  Its failure ends the attempt.
StepEnds(o, passed) ==
    /\ pc[o] = "walking"
    /\ nth[o] < StepsOf[o[1]]
    /\ nth' = [nth EXCEPT ![o] = @ + 1]
    /\ Become(o, IF currentLabel # None /\ page # None
                 THEN IF passed THEN "recording" ELSE "failing"
                 ELSE IF passed THEN "walking" ELSE "failed")
    /\ UNCHANGED <<shared, local, found, closing, world>>

\* The cursor was read, or not; the step goes to whatever timeline is current.
RecordVideoStep(o) ==
    /\ pc[o] \in {"recording", "failing"}
    /\ timeline' = [timeline EXCEPT ![videoSteps] = Append(@, [by |-> o, nth |-> nth[o]])]
    /\ Become(o, IF pc[o] = "recording" THEN "walking" ELSE "failed")
    /\ UNCHANGED <<shared, local, found, nth, closing, alive, open, stuck, within, rawVideos,
                   saved, crashes>>


BodyReturns(o) ==
    /\ pc[o] = "walking"
    /\ nth[o] = StepsOf[o[1]]
    /\ Become(o, "passed")
    /\ UNCHANGED <<shared, local, found, nth, closing, world>>

-----------------------------------------------------------------------------
(***************************************************************************)
(* closePage.                                                              *)
(***************************************************************************)

ClosePage(s) ==
    /\ closing[s].at = "no"
    /\ closing' = [closing EXCEPT ![s] =
           [at |-> "closing", stem |-> None,
            held |-> [page |-> page, label |-> currentLabel, steps |-> videoSteps,
                      context |-> context]]]
    /\ UNCHANGED <<shared, pc, local, found, nth, world>>

\* A mutant: the second of a name gets the suffix, whoever has it.
SuffixedOnce(stem) == IF stem \in usedVideoStems THEN Append(stem, 2) ELSE stem

\* uniqueVideoStem.
UniqueVideoStem(stem) ==
    IF stem \notin usedVideoStems THEN stem
    ELSE Append(stem, Min({n \in 2..(Cardinality(usedVideoStems) + 2) :
                              Append(stem, n) \notin usedVideoStems}))

\* A mutant: what was handed out is not remembered.
Forgotten(stem) == usedVideoStems

Remembered(stem) == usedVideoStems \cup {stem}

\* The context closed, or its closing threw: then the video is lost.
ContextClosed(s, threw) ==
    LET held == closing[s].held
        kept == ~threw /\ held.page # None /\ held.label # None
        stem == UniqueVideoStem(Slug[held.label]) IN
    /\ closing[s].at = "closing"
    /\ threw => held.context # None
    /\ IF threw THEN stuck' = stuck \cup {held.context} /\ UNCHANGED open
       ELSE open' = open \ {held.context} /\ UNCHANGED stuck
    /\ page' = None
    /\ context' = None
    /\ currentLabel' = None
    /\ videoSteps' = None
    /\ timeline' = [timeline EXCEPT ![None] = <<>>]
    /\ usedVideoStems' = IF kept THEN Remembered(stem) ELSE usedVideoStems
    /\ closing' = [closing EXCEPT ![s] =
           IF kept THEN [at |-> "saving", held |-> held, stem |-> stem]
           ELSE [at |-> IF threw THEN "threw" ELSE "done", stem |-> None, held |-> NothingHeld]]
    /\ UNCHANGED <<browser, pc, local, found, nth, alive, within, rawVideos, crashes, saved>>

\* saveAs and the manifest, or not; the raw copy is dropped.
SaveSettles(s, ok) ==
    LET held == closing[s].held IN
    /\ closing[s].at = "saving"
    /\ saved' = IF ~ok THEN saved
                ELSE saved \cup {[stem |-> closing[s].stem, label |-> held.label,
                                  video |-> held.page, steps |-> timeline[held.steps]]}
    /\ rawVideos' = rawVideos \ {held.page}
    /\ closing' = [closing EXCEPT ![s] = [at |-> "done", held |-> NothingHeld, stem |-> None]]
    /\ UNCHANGED <<shared, pc, local, found, nth, alive, open, stuck, within, timeline, crashes>>

-----------------------------------------------------------------------------
(***************************************************************************)
(* bun: hooks, tests, retries and timeouts.                                *)
(***************************************************************************)
Current == <<at, try>>

NextScenario ==
    /\ at' = at + 1
    /\ try' = 0
    /\ slot' = "before"

\* The precondition of a scenario holds, or throws: then bun runs nothing of it,
\* not even afterAll.
SetUp(threw) ==
    /\ slot = "before"
    /\ at \notin Legacy
    /\ IF threw THEN NextScenario ELSE slot' = "test" /\ UNCHANGED <<at, try>>
    /\ UNCHANGED abandoned

LegacyOpened ==
    /\ slot = "before"
    /\ at \in Legacy
    /\ \/ pc[Current] = "walking" /\ slot' = "test" /\ UNCHANGED <<at, try>>
       \/ pc[Current] = "failed" /\ NextScenario
    /\ UNCHANGED abandoned

\* A body that failed is run again, in an opening of its own.
TestEnds(failed) ==
    /\ slot = "test"
    /\ IF failed /\ try < LastTry[at] /\ at \notin Legacy
       THEN try' = try + 1 /\ UNCHANGED slot
       ELSE slot' = "after" /\ UNCHANGED try
    /\ UNCHANGED at

TestSettles ==
    /\ pc[Current] \in {"passed", "failed"}
    /\ TestEnds(pc[Current] = "failed")
    /\ UNCHANGED abandoned

AfterAllEnds ==
    /\ slot = "after"
    /\ closing[at].at \in {"done", "threw"}
    /\ NextScenario
    /\ UNCHANGED abandoned

\* A hook or a test takes longer than bun waits.
TimesOut ==
    /\ Cardinality(abandoned) + crashes < MaxFaults
    /\ \/ /\ slot = "before" /\ at \in Legacy /\ pc[Current] \in Opens
          /\ abandoned' = abandoned \cup {[in |-> "opening", of |-> Current]}
          /\ NextScenario
       \/ /\ slot = "test"
          /\ \/ /\ pc[Current] \in Opens
                /\ abandoned' = abandoned \cup {[in |-> "opening", of |-> Current]}
             \/ /\ pc[Current] \in {"walking", "recording", "failing"}
                /\ abandoned' = abandoned \cup {[in |-> "walk", of |-> Current]}
          /\ TestEnds(TRUE)
       \/ /\ slot = "after" /\ closing[at].at \in {"closing", "saving"}
          /\ abandoned' = abandoned \cup {[in |-> "closing", of |-> Current]}
          /\ NextScenario

Bun == (\E threw \in BOOLEAN : SetUp(threw)) \/ LegacyOpened \/ TestSettles \/ AfterAllEnds \/ TimesOut

\* What bun has begun: an opening starts in its turn, and steps of the legacy
\* form are tests of their own, that an abandoned hook never comes to.
Begun(o) ==
    /\ pc[o] = "new" => o = Current /\ slot = IF at \in Legacy THEN "before" ELSE "test"
    /\ pc[o] = "walking" /\ o[1] \in Legacy => o = Current /\ slot = "test"

Walk(o) ==
    \/ LaunchPage(o) \/ (\E threw \in BOOLEAN : LeftoverClosed(o, threw)) \/ BrowserLaunched(o)
    \/ ContextOpened(o) \/ Named(o) \/ PageOpened(o) \/ Navigated(o)
    \/ OpenThrows(o)
    \/ \E passed \in BOOLEAN : StepEnds(o, passed)
    \/ RecordVideoStep(o)
    \/ BodyReturns(o)

AfterAll(s) ==
    \/ s = at /\ slot = "after" /\ ClosePage(s)
    \/ \E threw \in BOOLEAN : ContextClosed(s, threw)
    \/ \E ok \in BOOLEAN : SaveSettles(s, ok)

\* The browser crashes, and its contexts with it.
BrowserDies(b) ==
    /\ Cardinality(abandoned) + crashes < MaxFaults
    /\ b \in alive
    /\ crashes' = crashes + 1
    /\ alive' = alive \ {b}
    /\ open' = {o \in open : local[o] # b}
    /\ UNCHANGED <<shared, threads, stuck, within, rawVideos, timeline, saved>>

\* The process exits after the last scenario, whatever is pending.
Next ==
    \/ Running /\ Bun /\ UNCHANGED <<shared, threads, world>>
    \/ \E o \in Opening : Running /\ Begun(o) /\ Walk(o) /\ UNCHANGED bun
    \/ \E s \in Scenarios : Running /\ AfterAll(s) /\ UNCHANGED bun
    \/ \E b \in Opening : Running /\ BrowserDies(b) /\ UNCHANGED bun

Spec == Init /\ [][Next]_vars

-----------------------------------------------------------------------------
(***************************************************************************)
(* Properties.                                                             *)
(***************************************************************************)

\* bun gave up on nothing but walking attempts, whose steps go on.
StepsOnly == \A cut \in abandoned : cut.in = "walk"

\* context.ts: a leftover context "is closed first so state never bleeds across
\* scenarios".  While no hook and no opening was abandoned, whatever failed,
\* crashed or was retried before, an attempt walks on the page it opened, in the
\* context it seeded, and no other context is open but those that could not be
\* closed.
WalksAlone ==
    LET o == Current IN
    Running /\ StepsOnly /\ slot = "test" /\ pc[o] \in {"walking", "recording", "failing"} =>
        /\ context = o /\ page = o /\ within[o] = o
        /\ open \subseteq {o} \cup stuck
        /\ currentLabel = at

\* Of an opening's first n steps, those in an array: the first ones, in their order.
OwnSteps(steps, o) == {i \in DOMAIN steps : steps[i].by = o}
FirstInOrder(steps, o, n) ==
    \A i \in OwnSteps(steps, o) :
        /\ steps[i].nth \in 1..n
        /\ \A j \in OwnSteps(steps, o) : j < i => steps[j].nth < steps[i].nth
        /\ \A k \in 1..steps[i].nth : \E j \in OwnSteps(steps, o) : steps[j].nth = k

\* All of them, and nothing else.
FirstSteps(o, n) == [i \in 1..n |-> [by |-> o, nth |-> i]]

\* The video that is kept for a scenario shows its last attempt, and its manifest
\* lists that attempt's steps in their order; another's steps only where bun gave
\* up on them.
FootageIsOwn ==
    StepsOnly => \A r \in saved :
        /\ r.video[1] = r.label
        /\ \A later \in (r.video[2] + 1)..LastTry[r.label] : pc[<<r.label, later>>] = "new"
        /\ FirstInOrder(r.steps, r.video, nth[r.video])
        /\ abandoned = {} => r.steps = FirstSteps(r.video, nth[r.video])

\* "Every scenario keeps its footage": no two recordings of a process have one
\* file, also where one scenario's name is another's name and number.
RecordingsApart ==
    \A r1 \in saved : r1.stem \notin EarlierStems /\ \A r2 \in saved : r1.stem = r2.stem => r1 = r2

=============================================================================
