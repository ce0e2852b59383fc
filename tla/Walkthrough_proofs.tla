------------------------- MODULE Walkthrough_proofs --------------------------
(***************************************************************************)
(* Pages, footage and files of the scenarios of one process, for any       *)
(* number of scenarios, retries, steps, timeouts and crashes.              *)
(***************************************************************************)
EXTENDS Walkthrough, FiniteSetTheorems, FunctionTheorems, WellFoundedInduction, SequenceTheorems, TLAPS

Walking == {"walking", "recording", "failing"}

\* The slot in which the scenario at hand opens its page.
Turn == IF at \in Legacy THEN "before" ELSE "test"

Reached(o) == o[1] < at \/ (o[1] = at /\ o[2] <= try)

(***************************************************************************)
(* What holds whatever bun abandons: it goes forward, and the files it     *)
(* writes have names of their own.                                         *)
(***************************************************************************)
Forward ==
    /\ Running => try <= LastTry[at]
    /\ slot # "before" => Running
    /\ \A o \in Opening : /\ pc[o] # "new" => Reached(o)
                          /\ pc[o] \in Opens \cup {"new"} => nth[o] = 0
                          /\ pc[o] \in {"recording", "failing"} => nth[o] > 0
    /\ \A s \in Scenarios : closing[s].at # "no" => s < at \/ (s = at /\ slot = "after")

SavingOK(s) ==
    /\ closing[s].held.page \in Opening /\ closing[s].held.label \in Scenarios
    /\ closing[s].stem \in usedVideoStems \ EarlierStems
    /\ \A r \in saved : r.stem # closing[s].stem

Saving == {s \in Scenarios : closing[s].at = "saving"}

FilesOK ==
    /\ IsFiniteSet(usedVideoStems) /\ EarlierStems \subseteq usedVideoStems
    /\ \A s \in Saving : SavingOK(s)
    /\ \A s, t \in Saving : closing[s].stem = closing[t].stem => s = t
    /\ RecordingsApart

TInv == TypeOK /\ Forward /\ FilesOK

(***************************************************************************)
(* While only walking attempts were abandoned: the current opening, and    *)
(* the current closing, have the shared variables to themselves.           *)
(***************************************************************************)
OpeningOK(o) ==
    /\ pc[o] \in Opens => Running /\ o = Current /\ slot = Turn
    /\ pc[o] = "leftover" => found[o] = [context |-> context, page |-> page]
    /\ pc[o] \in {"launching", "resolving"} => context = None /\ page = None
    /\ pc[o] \in {"context", "page"} => context = o /\ page = None
    /\ pc[o] = "page" => videoSteps = o /\ currentLabel = o[1] /\ within[o] = o
    /\ pc[o] = "going" => context = o /\ page = o /\ within[o] = o

ClosingOK(s) ==
    /\ closing[s].at \in {"closing", "saving"} => s = at /\ slot = "after"
    /\ closing[s].at = "closing" =>
           closing[s].held = [page |-> page, label |-> currentLabel, steps |-> videoSteps,
                              context |-> context]

\* A page is in a context, and recorded under its own name.
PageOK == page # None => context # None /\ videoSteps = page /\ currentLabel = page[1]

CurrentOK ==
    /\ slot = "after" => pc[Current] \notin Opens \cup {"new"}
    /\ Running /\ pc[Current] \notin {"new", "leftover"} => page \in {None, Current}
    /\ Running /\ pc[Current] \in Walking /\ slot # "after" =>
           context = Current /\ page = Current /\ within[Current] = Current

InTurn == /\ \A o \in Opening : OpeningOK(o)
          /\ \A s \in Scenarios : ClosingOK(s)
          /\ PageOK /\ CurrentOK
          /\ open \subseteq {context} \cup stuck

WInv == TInv /\ (StepsOnly => InTurn)

(***************************************************************************)
(* What is recorded: of its own steps an array has the first ones.         *)
(***************************************************************************)
Recorded(o) == IF pc[o] \in {"recording", "failing"} THEN nth[o] - 1 ELSE nth[o]

LacksNone(steps, o, n) == \A k \in 1..n : \E j \in OwnSteps(steps, o) : steps[j].nth = k
UpTo(steps, o, n) == \A i \in OwnSteps(steps, o) : steps[i].nth \in 1..n

EntriesOK ==
    \A a \in Opening \cup {None}, o \in Opening : UpTo(timeline[a], o, Recorded(o))

\* The array that is recorded to lacks none of its opening's steps.
CurrentArrayOK ==
    \A o \in Opening : videoSteps = o /\ (page # None \/ pc[o] \in {"recording", "failing"}) =>
        LacksNone(timeline[o], o, Recorded(o))

\* Another attempt of the scenario is not begun any more.
IsLast(o) == /\ closing[o[1]].at # "no"
             /\ \A later \in (o[2] + 1)..LastTry[o[1]] : pc[<<o[1], later>>] = "new"

OwnSaving(s) ==
    LET o == closing[s].held.page IN
    closing[s].held.label = o[1] /\ closing[s].held.steps = o /\ IsLast(o)

OwnRecording(r) ==
    r.video[1] = r.label /\ IsLast(r.video) /\ FirstInOrder(r.steps, r.video, nth[r.video])

TimelinesOK ==
    /\ EntriesOK /\ CurrentArrayOK
    /\ \A o \in Opening : FirstInOrder(timeline[o], o, nth[o])
    /\ \A s \in Saving : OwnSaving(s)
    /\ \A r \in saved : OwnRecording(r)

\* While bun has abandoned nothing, the array has nothing else.
Undisturbed ==
    /\ \A o \in Opening :
          /\ pc[o] \in Walking => Running /\ o = Current /\ slot \in {Turn, "test"}
          /\ pc[o] \in Opens \cup {"new"} => timeline[o] = <<>>
          /\ page = o => timeline[o] = FirstSteps(o, Recorded(o))
    /\ \A s \in Saving : LET o == closing[s].held.page IN
           pc[o] \in {"passed", "failed"} /\ timeline[o] = FirstSteps(o, nth[o])
    /\ \A r \in saved :
           pc[r.video] \in {"passed", "failed"} /\ r.steps = FirstSteps(r.video, nth[r.video])

FInv == WInv /\ (StepsOnly => TimelinesOK) /\ (abandoned = {} => Undisturbed)

-----------------------------------------------------------------------------
(***************************************************************************)
(* Openings.                                                               *)
(***************************************************************************)
LEMMA OpeningIs ==
    ASSUME NEW o \in Opening
    PROVE  /\ o[1] \in Scenarios /\ o[2] \in 0..LastTry[o[1]] /\ o = <<o[1], o[2]>>
           /\ o # None /\ o[1] # None
<1>1. PICK s \in Scenarios : o \in {s} \X (0..LastTry[s])
  BY DEF Opening
<1>2. o[1] = s /\ o[2] \in 0..LastTry[s] /\ o = <<o[1], o[2]>>
  BY <1>1
<1> QED
  BY <1>1, <1>2, WalkthroughAssumption

LEMMA IsOpening ==
    ASSUME NEW s \in Scenarios, NEW k \in 0..LastTry[s]
    PROVE  <<s, k>> \in Opening
BY DEF Opening

LEMMA CurrentIsOpening ==
    ASSUME TypeOK, Forward, Running
    PROVE  Current \in Opening /\ at \in Scenarios /\ Current[1] = at /\ Current[2] = try
<1>1. at \in Scenarios /\ LastTry[at] \in Nat
  BY WalkthroughAssumption DEF TypeOK, Running, Scenarios
<1>2. try \in 0..LastTry[at]
  BY <1>1 DEF TypeOK, Forward
<1> QED
  BY <1>1, <1>2, IsOpening DEF Current

\* Of no two names of the form stem-2, stem-3, ... are both the same.
LEMMA SuffixesDiffer ==
    ASSUME NEW S, NEW stem \in Seq(S), NEW m \in Nat, NEW n \in Nat,
           Append(stem, m) = Append(stem, n)
    PROVE  m = n
<1>1. stem \in Seq(S \cup Nat)
  OBVIOUS
<1>2. Append(stem, m)[Len(stem) + 1] = m /\ Append(stem, n)[Len(stem) + 1] = n
  BY <1>1
<1> QED
  BY <1>2

LEMMA MinIsLeast ==
    ASSUME NEW S \in SUBSET Nat, S # {}
    PROVE  Min(S) \in S
<1>1. PICK m \in S : \A k \in S : <<k, m>> \notin OpToRel(<, Nat)
  BY NatLessThanWellFounded, WFMin, Zenon
<1>2. \A k \in S : ~(k < m)
  BY <1>1, Zenon DEF OpToRel
<1>3. m \in S /\ \A k \in S : m <= k
  BY <1>2
<1> QED
  BY <1>3 DEF Min

\* uniqueVideoStem hands out what it has not yet handed out: of one more name than
\* there are, one is new.
LEMMA UniqueVideoStemIsNew ==
    ASSUME IsFiniteSet(usedVideoStems), NEW s \in Scenarios
    PROVE  UniqueVideoStem(Slug[s]) \notin usedVideoStems
<1> DEFINE stem == Slug[s]
           card == Cardinality(usedVideoStems)
           Free == {n \in 2..(card + 2) : Append(stem, n) \notin usedVideoStems}
<1>1. card \in Nat
  BY FS_CardinalityType
<1>2. stem \in Seq(Range(stem))
  BY WalkthroughAssumption
<1> HIDE DEF stem, card
<1>3. Free # {}
  <2> SUFFICES ASSUME Free = {} PROVE FALSE
    OBVIOUS
  <2> DEFINE I == 2..(card + 2)
             f == [n \in I |-> Append(stem, n)]
  <2>1. f \in [I -> usedVideoStems]
    OBVIOUS
  <2>2. IsFiniteSet(I) /\ Cardinality(I) = card + 1
    <3>1. 2 \in Int /\ card + 2 \in Int /\ ~(2 > card + 2) /\ (card + 2) - 2 + 1 = card + 1
      BY <1>1
    <3> QED
      BY <3>1, FS_Interval
  <2>3. card < card + 1
    BY <1>1
  <2> HIDE DEF f, I
  <2>4. \E x, y \in I : x # y /\ f[x] = f[y]
    BY <2>1, <2>2, <2>3, FS_PigeonHole DEF card
  <2>5. PICK x, y \in I : x # y /\ f[x] = f[y]
    BY <2>4
  <2>6. x \in Nat /\ y \in Nat /\ Append(stem, x) = Append(stem, y)
    BY <1>1, <2>5 DEF f, I
  <2> QED
    BY <1>2, <2>5, <2>6, SuffixesDiffer
<1>4. Free \in SUBSET Nat
  BY <1>1
<1>5. Min(Free) \in Free
  BY <1>3, <1>4, MinIsLeast
<1> QED
  BY <1>5 DEF UniqueVideoStem, stem, card

-----------------------------------------------------------------------------
(***************************************************************************)
(* Types.                                                                  *)
(***************************************************************************)
SharedOK ==
    /\ {browser, context, page, videoSteps} \subseteq Opening \cup {None}
    /\ currentLabel \in Scenarios \cup {None}
    /\ local \in [Opening -> Opening \cup {None}]
    /\ found \in [Opening -> Leftover]
    /\ alive \subseteq Opening /\ open \subseteq Opening /\ stuck \subseteq Opening \cup {None}
    /\ rawVideos \subseteq Opening
    /\ within \in [Opening -> Opening \cup {None}]
    /\ timeline \in [Opening \cup {None} -> Seq(Entry)]

ThreadsOK ==
    /\ pc \in [Opening -> Opens \cup {"new", "walking", "recording", "failing", "passed", "failed"}]
    /\ nth \in [Opening -> Nat] /\ \A o \in Opening : nth[o] <= StepsOf[o[1]]

RecordingsOK == closing \in [Scenarios -> Closing] /\ saved \subseteq Recording

BunOK ==
    /\ at \in 1..(LastScenario + 1) /\ try \in Nat
    /\ slot \in {"before", "test", "after"}
    /\ abandoned \subseteq [in : {"opening", "walk", "closing"}, of : Opening]

LEMMA TypeOKIs == TypeOK <=> SharedOK /\ ThreadsOK /\ RecordingsOK /\ BunOK
BY DEF TypeOK, SharedOK, ThreadsOK, RecordingsOK, BunOK

LEMMA TypeOKNext ==
    ASSUME SharedOK', ThreadsOK', RecordingsOK', BunOK'
    PROVE  TypeOK'
BY DEF TypeOK, SharedOK, ThreadsOK, RecordingsOK, BunOK

LEMMA WalkShared ==
    ASSUME TypeOK, NEW o \in Opening, Walk(o)
    PROVE  SharedOK'
<1>1. SharedOK
  BY TypeOKIs
<1>2. ASSUME BrowserLaunched(o) \/ ContextOpened(o) PROVE SharedOK'
  <2>1. CASE BrowserLaunched(o)
    BY <1>1, <2>1 DEF BrowserLaunched, SharedOK
  <2>2. CASE ContextOpened(o)
    BY <1>1, <2>2 DEF ContextOpened, SharedOK
  <2> QED
    BY <1>2, <2>1, <2>2
<1>6. CASE LaunchPage(o)
  <2>1. [context |-> context, page |-> page] \in Leftover
    BY <1>1 DEF SharedOK, Leftover
  <2>2. /\ UNCHANGED <<shared, world>>
        /\ local' \in [Opening -> Opening \cup {None}] /\ found' \in [Opening -> Leftover]
    BY <1>1, <1>6, <2>1 DEF LaunchPage, GetBrowser, SharedOK
  <2> QED
    BY <1>1, <2>2 DEF shared, world, SharedOK
<1>7. ASSUME NEW threw \in BOOLEAN, LeftoverClosed(o, threw) PROVE SharedOK'
  <2>1. NoLeftover \in Leftover /\ found[o].context \in Opening \cup {None}
    BY <1>1 DEF SharedOK, Leftover, NoLeftover
  <2>2. found' \in [Opening -> Leftover]
    BY <1>1, <1>7, <2>1 DEF LeftoverClosed, SharedOK
  <2>3. /\ open' \subseteq Opening /\ stuck' \subseteq Opening \cup {None} /\ rawVideos' \subseteq Opening
        /\ local' \in [Opening -> Opening \cup {None}]
    BY <1>1, <1>7, <2>1 DEF LeftoverClosed, GetBrowser, SharedOK
  <2> QED
    BY <1>1, <1>7, <2>2, <2>3 DEF LeftoverClosed, SharedOK
<1>3. ASSUME Named(o) \/ PageOpened(o) PROVE SharedOK'
  <2>1. CASE Named(o)
    <3>1. within' \in [Opening -> Opening \cup {None}]
      BY <1>1, <2>1 DEF Named, SharedOK
    <3> QED
      BY <1>1, <2>1, <3>1, OpeningIs DEF Named, SharedOK
  <2>2. CASE PageOpened(o)
    BY <1>1, <2>2 DEF PageOpened, SharedOK
  <2> QED
    BY <1>3, <2>1, <2>2
<1>4. ASSUME Navigated(o) \/ OpenThrows(o) \/ BodyReturns(o) \/ \E passed \in BOOLEAN : StepEnds(o, passed)
      PROVE  SharedOK'
  BY <1>1, <1>4 DEF Navigated, OpenThrows, BodyReturns, StepEnds, shared, world, SharedOK
<1>5. ASSUME RecordVideoStep(o) PROVE SharedOK'
  <2>1. [by |-> o, nth |-> nth[o]] \in Entry
    BY DEF TypeOK, Entry
  <2>2. videoSteps \in Opening \cup {None} /\ timeline[videoSteps] \in Seq(Entry)
    BY <1>1 DEF SharedOK
  <2>3. Append(timeline[videoSteps], [by |-> o, nth |-> nth[o]]) \in Seq(Entry)
    BY <2>1, <2>2
  <2> QED
    BY <1>1, <1>5, <2>2, <2>3 DEF RecordVideoStep, shared, SharedOK
<1> QED
  BY <1>2, <1>3, <1>4, <1>5, <1>6, <1>7 DEF Walk

LEMMA WalkThreads ==
    ASSUME TypeOK, NEW o \in Opening, Walk(o)
    PROVE  ThreadsOK'
<1>1. ThreadsOK
  BY TypeOKIs
<1>2. ASSUME NEW p \in Opens \cup {"new", "walking", "recording", "failing", "passed", "failed"},
             Become(o, p), nth' = nth
      PROVE  ThreadsOK'
  BY <1>1, <1>2 DEF Become, ThreadsOK
<1>3. ASSUME NEW passed \in BOOLEAN, StepEnds(o, passed)
      PROVE  ThreadsOK'
  <2>1. /\ nth' = [nth EXCEPT ![o] = nth[o] + 1] /\ nth[o] < StepsOf[o[1]]
        /\ StepsOf[o[1]] \in Nat
    BY <1>3, OpeningIs, WalkthroughAssumption DEF StepEnds
  <2>2. PICK p \in {"walking", "recording", "failing", "failed"} : pc' = [pc EXCEPT ![o] = p]
    BY <1>3 DEF StepEnds, Become
  <2> QED
    BY <1>1, <2>1, <2>2 DEF ThreadsOK
<1>4. ASSUME LaunchPage(o) \/ (\E threw \in BOOLEAN : LeftoverClosed(o, threw)) \/ BrowserLaunched(o)
             \/ ContextOpened(o) \/ Named(o) \/ PageOpened(o) \/ Navigated(o) \/ OpenThrows(o) \/ BodyReturns(o)
             \/ RecordVideoStep(o)
      PROVE  ThreadsOK'
  <2>1. /\ nth' = nth
        /\ \E p \in Opens \cup {"new", "walking", "recording", "failing", "passed", "failed"} : Become(o, p)
    BY <1>4 DEF LaunchPage, LeftoverClosed, BrowserLaunched, ContextOpened, GetBrowser, Named,
                PageOpened, Navigated, OpenThrows, BodyReturns, RecordVideoStep, Opens
  <2> QED
    BY <1>2, <2>1
<1> QED
  BY <1>3, <1>4 DEF Walk

LEMMA WalkLeaves ==
    ASSUME NEW o \in Opening, Walk(o)
    PROVE  UNCHANGED <<closing, saved, usedVideoStems, crashes>>
BY DEF Walk, LaunchPage, LeftoverClosed, BrowserLaunched, ContextOpened, Named, PageOpened,
       Navigated, OpenThrows, BodyReturns, RecordVideoStep, StepEnds, shared, world

LEMMA AfterAllLeaves ==
    ASSUME NEW s \in Scenarios, AfterAll(s)
    PROVE  UNCHANGED <<browser, pc, local, found, nth, alive, within, crashes>>
BY DEF AfterAll, ClosePage, ContextClosed, SaveSettles, shared, world

\* What closePage holds, and what comes of it.
LEMMA AfterAllRecordings ==
    ASSUME TypeOK, FilesOK, NEW s \in Scenarios, AfterAll(s)
    PROVE  RecordingsOK' /\ FilesOK'
<1>1. closing \in [Scenarios -> Closing] /\ saved \subseteq Recording
  BY DEF TypeOK
<1>2. CASE ClosePage(s)
  <2> DEFINE c == [at |-> "closing", stem |-> None,
                   held |-> [page |-> page, label |-> currentLabel, steps |-> videoSteps,
                             context |-> context]]
  <2>1. c \in Closing /\ c.at = "closing"
    BY DEF TypeOK, Closing, Held
  <2>2. closing' = [closing EXCEPT ![s] = c] /\ UNCHANGED <<usedVideoStems, saved>>
    BY <1>2 DEF ClosePage, shared, world
  <2> HIDE DEF c
  <2>3. RecordingsOK'
    BY <1>1, <2>1, <2>2 DEF RecordingsOK, Closing, Recording
  <2>4. /\ \A t \in Scenarios : t # s => closing'[t] = closing[t]
        /\ closing'[s].at = "closing"
    BY <1>1, <2>1, <2>2
  <2>5. Saving' \subseteq Saving /\ \A t \in Saving' : closing'[t] = closing[t]
    BY <2>4 DEF Saving
  <2>6. FilesOK'
    BY <2>2, <2>5 DEF FilesOK, SavingOK, RecordingsApart
  <2> QED
    BY <2>3, <2>6
<1>3. ASSUME NEW threw \in BOOLEAN, ContextClosed(s, threw)
      PROVE  RecordingsOK' /\ FilesOK'
  <2> DEFINE held == closing[s].held
             stem == UniqueVideoStem(Slug[held.label])
  <2>1. closing[s] \in Closing /\ held \in Held
    BY <1>1 DEF Closing
  <2>2. CASE ~threw /\ held.page # None /\ held.label # None
    <3> DEFINE c == [at |-> "saving", held |-> held, stem |-> stem]
    <3>1. /\ closing' = [closing EXCEPT ![s] = c] /\ usedVideoStems' = usedVideoStems \cup {stem}
          /\ saved' = saved
      BY <1>3, <2>2 DEF ContextClosed, Remembered
    <3>2. held.page \in Opening /\ held.label \in Scenarios
      BY <2>1, <2>2 DEF Held
    <3> HIDE DEF held
    <3>3. stem \notin usedVideoStems
      BY <3>2, UniqueVideoStemIsNew DEF FilesOK
    <3>4. c.at = "saving" /\ c.held = held /\ c.stem = stem
      OBVIOUS
    <3> HIDE DEF c, stem
    <3>5. /\ \A t \in Scenarios : t # s => closing'[t] = closing[t]
          /\ closing'[s] = c
      BY <1>1, <3>1
    <3>6. RecordingsOK'
      <4>1. closing'[s] \in Closing'
        BY <2>1, <3>1, <3>4, <3>5 DEF Closing, c, held
      <4>2. \A t \in Scenarios : closing'[t] \in Closing'
        BY <1>1, <3>1, <3>5, <4>1 DEF Closing
      <4>3. closing' \in [Scenarios -> Closing']
        BY <1>1, <3>1, <4>2
      <4>4. saved' \subseteq Recording'
        BY <1>1, <3>1 DEF Recording
      <4> QED
        BY <4>3, <4>4 DEF RecordingsOK
    <3>7. Saving' \subseteq Saving \cup {s} /\ \A t \in Saving' \ {s} : t \in Saving /\ closing'[t] = closing[t]
      BY <3>5 DEF Saving
    <3>8. /\ \A t \in Saving : closing[t].stem \in usedVideoStems
          /\ \A r \in saved : r.stem \in usedVideoStems
          /\ EarlierStems \subseteq usedVideoStems
      BY <1>1 DEF FilesOK, SavingOK, Recording
    <3>9. IsFiniteSet(usedVideoStems') /\ EarlierStems \subseteq usedVideoStems'
      BY <3>1, FS_AddElement DEF FilesOK
    <3>10. \A t \in Saving' : SavingOK(t)'
      <4>1. ASSUME NEW t \in Saving', t # s PROVE SavingOK(t)'
        BY <3>1, <3>7, <4>1 DEF FilesOK, SavingOK
      <4>2. SavingOK(s)'
        BY <3>1, <3>2, <3>3, <3>4, <3>5, <3>8 DEF SavingOK
      <4> QED
        BY <4>1, <4>2
    <3>11. \A t, u \in Saving' : closing'[t].stem = closing'[u].stem => t = u
      <4>1. ASSUME NEW t \in Saving', t # s PROVE closing'[t].stem # stem
        BY <3>3, <3>7, <3>8, <4>1
      <4>2. closing'[s].stem = stem
        BY <3>4, <3>5
      <4>3. ASSUME NEW t \in Saving', NEW u \in Saving', t # s, u # s,
                   closing'[t].stem = closing'[u].stem
            PROVE  t = u
        BY <3>7, <4>3 DEF FilesOK
      <4> QED
        BY <4>1, <4>2, <4>3
    <3>12. RecordingsApart'
      BY <3>1 DEF FilesOK, RecordingsApart
    <3> QED
      BY <3>6, <3>9, <3>10, <3>11, <3>12 DEF FilesOK
  <2>3. CASE ~(~threw /\ held.page # None /\ held.label # None)
    <3> DEFINE c == [at |-> IF threw THEN "threw" ELSE "done", stem |-> None, held |-> NothingHeld]
    <3>1. closing' = [closing EXCEPT ![s] = c] /\ UNCHANGED <<usedVideoStems, saved>>
      BY <1>3, <2>3 DEF ContextClosed
    <3>2. c \in Closing /\ c.at # "saving"
      BY <2>1 DEF Closing, Held, NothingHeld
    <3> HIDE DEF c
    <3>3. RecordingsOK'
      BY <1>1, <3>1, <3>2 DEF RecordingsOK, Closing, Recording
    <3>4. /\ \A t \in Scenarios : t # s => closing'[t] = closing[t]
          /\ closing'[s].at # "saving"
      BY <1>1, <3>1, <3>2
    <3>5. Saving' \subseteq Saving /\ \A t \in Saving' : closing'[t] = closing[t]
      BY <3>4 DEF Saving
    <3>6. FilesOK'
      BY <3>1, <3>5 DEF FilesOK, SavingOK, RecordingsApart
    <3> QED
      BY <3>3, <3>6
  <2> QED
    BY <2>2, <2>3
<1>4. ASSUME NEW ok \in BOOLEAN, SaveSettles(s, ok)
      PROVE  RecordingsOK' /\ FilesOK'
  <2> DEFINE held == closing[s].held
             r == [stem |-> closing[s].stem, label |-> held.label,
                   video |-> held.page, steps |-> timeline[held.steps]]
             c == [at |-> "done", held |-> NothingHeld, stem |-> None]
  <2>1. closing[s].at = "saving" /\ s \in Saving /\ SavingOK(s)
    BY <1>4 DEF SaveSettles, Saving, FilesOK
  <2>2. held \in Held /\ held.page \in Opening /\ held.label \in Scenarios
        /\ closing[s].stem \in usedVideoStems
    BY <1>1, <2>1 DEF Closing, SavingOK
  <2>3. held.steps \in Opening \cup {None} /\ timeline[held.steps] \in Seq(Entry)
    BY <2>2 DEF Held, TypeOK
  <2>4. r \in Recording /\ r.stem = closing[s].stem
    BY <2>2, <2>3 DEF Recording
  <2>5. c \in Closing /\ c.at = "done"
    BY DEF Closing, Held, NothingHeld
  <2>6. /\ closing' = [closing EXCEPT ![s] = c] /\ UNCHANGED usedVideoStems
        /\ saved' = (IF ok THEN saved \cup {r} ELSE saved)
    BY <1>4 DEF SaveSettles, shared
  <2> HIDE DEF r, c
  <2>7. RecordingsOK'
    BY <1>1, <2>4, <2>5, <2>6 DEF RecordingsOK, Closing, Recording
  <2>8. /\ \A t \in Scenarios : t # s => closing'[t] = closing[t]
        /\ closing'[s].at = "done"
    BY <1>1, <2>5, <2>6
  <2>9. Saving' \subseteq Saving \ {s} /\ \A t \in Saving' : closing'[t] = closing[t]
    BY <2>8 DEF Saving
  <2>10. \A t \in Saving' : closing[t].stem # closing[s].stem
    BY <2>1, <2>9 DEF FilesOK
  <2>11. \A t \in Saving' : SavingOK(t)'
    BY <2>4, <2>6, <2>9, <2>10 DEF FilesOK, SavingOK
  <2>12. RecordingsApart'
    BY <2>1, <2>4, <2>6 DEF FilesOK, SavingOK, RecordingsApart
  <2> QED
    BY <2>6, <2>7, <2>9, <2>11, <2>12 DEF FilesOK
<1> QED
  BY <1>2, <1>3, <1>4 DEF AfterAll

LEMMA AfterAllShared ==
    ASSUME TypeOK, NEW s \in Scenarios, AfterAll(s)
    PROVE  SharedOK' /\ ThreadsOK'
<1>1. SharedOK /\ ThreadsOK
  BY TypeOKIs
<1>2. ThreadsOK'
  BY <1>1, AfterAllLeaves DEF ThreadsOK
<1>3. ASSUME ClosePage(s) PROVE SharedOK'
  <2>1. UNCHANGED <<shared, local, found, alive, open, stuck, within, rawVideos, timeline>>
    BY <1>3 DEF ClosePage, world
  <2> QED
    BY <1>1, <2>1 DEF shared, SharedOK
<1>4. ASSUME NEW threw \in BOOLEAN, ContextClosed(s, threw)
      PROVE  SharedOK'
  <2>1. timeline' = [timeline EXCEPT ![None] = <<>>] /\ <<>> \in Seq(Entry)
    BY <1>4 DEF ContextClosed
  <2>2. closing[s].held.context \in Opening \cup {None}
    BY TypeOKIs DEF RecordingsOK, Closing, Held
  <2>3. open' \subseteq Opening /\ stuck' \subseteq Opening \cup {None}
    BY <1>1, <1>4, <2>2 DEF ContextClosed, SharedOK
  <2> QED
    BY <1>1, <1>4, <2>1, <2>3 DEF ContextClosed, SharedOK
<1>5. ASSUME NEW ok \in BOOLEAN, SaveSettles(s, ok)
      PROVE  SharedOK'
  BY <1>1, <1>5 DEF SaveSettles, shared, SharedOK
<1> QED
  BY <1>2, <1>3, <1>4, <1>5 DEF AfterAll
-----------------------------------------------------------------------------
(***************************************************************************)
(* bun goes forward.                                                       *)
(***************************************************************************)
Retries == at \notin Legacy /\ try < LastTry[at] /\ try' = try + 1 /\ UNCHANGED <<at, slot>>
ToTest  == slot = "before" /\ slot' = "test" /\ UNCHANGED <<at, try>>
ToAfter == slot = "test" /\ slot' = "after" /\ UNCHANGED <<at, try>>

LEMMA TestEndsBy ==
    ASSUME NEW failed, slot = "test", TestEnds(failed)
    PROVE  Retries \/ ToAfter
BY DEF TestEnds, Retries, ToAfter

\* What bun does, and what it abandons by it.
LEMMA BunMoves ==
    ASSUME TypeOK, Forward, Running, Bun
    PROVE  /\ NextScenario \/ (slot = "test" /\ Retries) \/ ToTest \/ ToAfter
           /\ \/ abandoned' = abandoned
              \/ \E i \in {"opening", "walk", "closing"} :
                    abandoned' = abandoned \cup {[in |-> i, of |-> Current]}
<1>1. ASSUME NEW threw \in BOOLEAN, SetUp(threw)
      PROVE  (NextScenario \/ ToTest) /\ abandoned' = abandoned
  BY <1>1 DEF SetUp, ToTest
<1>2. ASSUME LegacyOpened
      PROVE  (NextScenario \/ ToTest) /\ abandoned' = abandoned
  BY <1>2 DEF LegacyOpened, ToTest
<1>3. ASSUME TestSettles
      PROVE  ((slot = "test" /\ Retries) \/ ToAfter) /\ abandoned' = abandoned
  BY <1>3 DEF TestSettles, TestEnds, Retries, ToAfter
<1>4. ASSUME AfterAllEnds
      PROVE  NextScenario /\ abandoned' = abandoned
  BY <1>4 DEF AfterAllEnds
<1>5. ASSUME TimesOut
      PROVE  /\ NextScenario \/ (slot = "test" /\ Retries) \/ ToAfter
             /\ \E i \in {"opening", "walk", "closing"} :
                    abandoned' = abandoned \cup {[in |-> i, of |-> Current]}
  BY <1>5, TestEndsBy DEF TimesOut
<1> QED
  BY <1>1, <1>2, <1>3, <1>4, <1>5 DEF Bun

LEMMA BunForward ==
    ASSUME TypeOK, Forward, Running, Bun
    PROVE  /\ BunOK' /\ (Running' => try' <= LastTry[at']) /\ (slot' # "before" => Running')
           /\ \A o \in Opening : Reached(o) => Reached(o)'
           /\ \A s \in Scenarios : s < at \/ (s = at /\ slot = "after") =>
                  s < at' \/ (s = at' /\ slot' = "after")
<1>1. /\ at \in Scenarios /\ at \in 1..(LastScenario + 1) /\ try \in Nat
      /\ Current \in Opening /\ LastScenario \in Nat
  BY CurrentIsOpening, WalkthroughAssumption DEF TypeOK
<1>2. \A s \in Scenarios : LastTry[s] \in Nat /\ s \in Nat
  BY WalkthroughAssumption DEF Scenarios
<1>3. abandoned' \subseteq [in : {"opening", "walk", "closing"}, of : Opening]
  BY <1>1, BunMoves DEF TypeOK
<1>4. \A o \in Opening : o[1] \in Scenarios /\ o[2] \in Nat
  BY <1>2, OpeningIs
<1>5. CASE NextScenario
  <2>1. at' = at + 1 /\ try' = 0 /\ slot' = "before" /\ at' \in 1..(LastScenario + 1)
    BY <1>1, <1>5 DEF NextScenario, Running
  <2> QED
    BY <1>1, <1>2, <1>3, <1>4, <2>1 DEF BunOK, Running, Reached, Scenarios
<1>6. CASE slot = "test" /\ Retries
  BY <1>1, <1>2, <1>3, <1>4, <1>6 DEF Retries, BunOK, Running, Reached
<1>7. CASE ToTest \/ ToAfter
  <2>1. at' = at /\ try' = try /\ slot' \in {"test", "after"} /\ slot # "after"
    BY <1>7 DEF ToTest, ToAfter
  <2> QED
    BY <1>1, <1>2, <1>3, <1>4, <2>1 DEF BunOK, Running, Reached, Forward
<1> QED
  BY <1>5, <1>6, <1>7, BunMoves

LEMMA WalkForward ==
    ASSUME TypeOK, Forward, Running, NEW o \in Opening, Begun(o), Walk(o), UNCHANGED bun
    PROVE  Forward'
<1>1. UNCHANGED <<at, try, slot, closing>>
  BY WalkLeaves DEF bun
<1>2. Reached(o)
  <2>1. CASE pc[o] = "new"
    BY <2>1, CurrentIsOpening DEF Begun, Reached, TypeOK
  <2> QED
    BY <2>1 DEF Forward
<1>3. pc'[o] # "new" /\ \A p \in Opening \ {o} : pc'[p] = pc[p] /\ nth'[p] = nth[p]
  BY DEF TypeOK, Walk, LaunchPage, LeftoverClosed, BrowserLaunched, ContextOpened, Named, PageOpened,
         Navigated, OpenThrows, BodyReturns, RecordVideoStep, StepEnds, GetBrowser, Become
<1>4. /\ pc'[o] \in Opens \cup {"new"} => nth'[o] = 0
      /\ pc'[o] \in {"recording", "failing"} => nth'[o] > 0
  <2>1. nth[o] \in Nat /\ (pc[o] \in Opens \cup {"new"} => nth[o] = 0)
    BY DEF TypeOK, Forward
  <2>2. ASSUME NEW passed \in BOOLEAN, StepEnds(o, passed)
        PROVE  pc'[o] \in {"recording", "failing", "walking", "failed"} /\ nth'[o] = nth[o] + 1
    BY <2>2 DEF StepEnds, Become, TypeOK
  <2>3. ASSUME LaunchPage(o) \/ (\E threw \in BOOLEAN : LeftoverClosed(o, threw)) \/ BrowserLaunched(o)
               \/ ContextOpened(o) \/ Named(o) \/ PageOpened(o) \/ Navigated(o) \/ OpenThrows(o)
        PROVE  /\ pc[o] \in Opens \cup {"new"} /\ nth'[o] = nth[o]
               /\ pc'[o] \in Opens \cup {"walking", "failed"}
    BY <2>3 DEF TypeOK, LaunchPage, LeftoverClosed, BrowserLaunched, ContextOpened, GetBrowser,
                Named, PageOpened, Navigated, OpenThrows, Become, Opens
  <2>4. ASSUME BodyReturns(o) \/ RecordVideoStep(o)
        PROVE  pc'[o] \in {"walking", "passed", "failed"}
    BY <2>4 DEF TypeOK, BodyReturns, RecordVideoStep, Become
  <2> QED
    BY <2>1, <2>2, <2>3, <2>4 DEF Walk, Opens
<1> QED
  BY <1>1, <1>2, <1>3, <1>4 DEF Forward, Running, Reached

LEMMA AfterAllForward ==
    ASSUME TypeOK, Forward, Running, NEW s \in Scenarios, AfterAll(s), UNCHANGED bun
    PROVE  Forward'
<1>1. UNCHANGED <<at, try, slot, pc, nth>>
  BY AfterAllLeaves DEF bun
<1>2. \A t \in Scenarios : t # s => closing'[t] = closing[t]
  BY DEF TypeOK, AfterAll, ClosePage, ContextClosed, SaveSettles
<1>3. closing[s].at # "no" \/ (s = at /\ slot = "after")
  BY DEF AfterAll, ClosePage, ContextClosed, SaveSettles
<1> QED
  BY <1>1, <1>2, <1>3 DEF Forward, Running, Reached

LEMMA InitTInv == Init => TInv
<1> SUFFICES ASSUME Init PROVE TInv
  OBVIOUS
<1>1. 1 \in 1..(LastScenario + 1) /\ \A s \in Scenarios : StepsOf[s] \in Nat /\ LastTry[s] \in Nat
  BY WalkthroughAssumption
<1>2. \A o \in Opening : 0 <= StepsOf[o[1]]
  BY <1>1, OpeningIs
<1>3. SharedOK
  <2>1. <<>> \in Seq(Entry)
    OBVIOUS
  <2> QED
    BY <2>1 DEF Init, SharedOK, Leftover, NoLeftover
<1>4. ThreadsOK
  BY <1>2 DEF Init, ThreadsOK
<1>5. RecordingsOK /\ Saving = {}
  BY DEF Init, RecordingsOK, Closing, Held, NothingHeld, Saving
<1>6. BunOK
  BY <1>1 DEF Init, BunOK
<1>7. Forward
  <2>1. /\ at = 1 /\ try = 0 /\ slot = "before"
        /\ (at \in Scenarios => LastTry[at] \in Nat)
        /\ \A o \in Opening : pc[o] = "new" /\ nth[o] = 0
        /\ \A s \in Scenarios : closing[s].at = "no"
    BY <1>1 DEF Init
  <2>2. Running => at \in Scenarios
    BY <2>1, WalkthroughAssumption DEF Running, Scenarios
  <2>3. Running => try <= LastTry[at]
    BY <2>1, <2>2
  <2> QED
    BY <2>1, <2>3 DEF Forward, Opens
<1>8. FilesOK
  BY <1>5, WalkthroughAssumption DEF Init, FilesOK, RecordingsApart
<1> QED
  BY <1>3, <1>4, <1>5, <1>6, <1>7, <1>8, TypeOKIs DEF TInv

LEMMA NextTInv == TInv /\ [Next]_vars => TInv'
<1> SUFFICES ASSUME TInv, [Next]_vars PROVE TInv'
  OBVIOUS
<1>1. SharedOK /\ ThreadsOK /\ RecordingsOK /\ BunOK
  BY TypeOKIs DEF TInv
<1> USE DEF TInv
<1>2. ASSUME Running, Bun, UNCHANGED <<shared, threads, world>>
      PROVE  TypeOK' /\ Forward' /\ FilesOK'
  <2>1. UNCHANGED <<browser, context, page, currentLabel, videoSteps, usedVideoStems, pc, local,
                    found, nth, closing, alive, open, stuck, within, rawVideos, timeline, saved>>
    BY <1>2 DEF shared, threads, world
  <2>2. SharedOK' /\ ThreadsOK' /\ RecordingsOK'
    BY <1>1, <2>1 DEF SharedOK, ThreadsOK, RecordingsOK, Closing, Recording
  <2>3. BunOK'
    BY <1>2, BunForward
  <2>4. Forward'
    BY <1>2, <2>1, BunForward DEF Forward
  <2>5. FilesOK'
    BY <2>1 DEF FilesOK, SavingOK, RecordingsApart, Saving
  <2> QED
    BY <2>2, <2>3, <2>4, <2>5, TypeOKNext
<1>3. ASSUME NEW o \in Opening, Running, Begun(o), Walk(o), UNCHANGED bun
      PROVE  TypeOK' /\ Forward' /\ FilesOK'
  <2>1. UNCHANGED <<closing, saved, usedVideoStems, at, try, slot, abandoned>>
    BY <1>3, WalkLeaves DEF bun
  <2>2. RecordingsOK' /\ BunOK'
    BY <1>1, <2>1 DEF RecordingsOK, BunOK, Closing, Recording
  <2>3. FilesOK'
    BY <2>1 DEF FilesOK, SavingOK, RecordingsApart, Saving
  <2> QED
    BY <1>3, <2>2, <2>3, WalkShared, WalkThreads, WalkForward, TypeOKNext
<1>4. ASSUME NEW s \in Scenarios, Running, AfterAll(s), UNCHANGED bun
      PROVE  TypeOK' /\ Forward' /\ FilesOK'
  <2>1. BunOK'
    BY <1>1, <1>4 DEF bun, BunOK
  <2> QED
    BY <1>4, <2>1, AfterAllShared, AfterAllRecordings, AfterAllForward, TypeOKNext
<1>5. ASSUME NEW b \in Opening, BrowserDies(b), UNCHANGED bun
      PROVE  TypeOK' /\ Forward' /\ FilesOK'
  <2>1. /\ UNCHANGED <<browser, context, page, currentLabel, videoSteps, usedVideoStems, pc, local,
                       found, nth, closing, stuck, within, rawVideos, timeline, saved, at, try, slot, abandoned>>
        /\ alive' \subseteq alive /\ open' \subseteq open
    BY <1>5 DEF BrowserDies, shared, threads, bun
  <2>2. SharedOK'
    BY <1>1, <2>1 DEF SharedOK
  <2>3. ThreadsOK' /\ RecordingsOK' /\ BunOK'
    BY <1>1, <2>1 DEF ThreadsOK, RecordingsOK, BunOK, Closing, Recording
  <2>4. Forward'
    BY <2>1 DEF Forward, Running, Reached
  <2>5. FilesOK'
    BY <2>1 DEF FilesOK, SavingOK, RecordingsApart, Saving
  <2> QED
    BY <2>2, <2>3, <2>4, <2>5, TypeOKNext
<1>6. CASE UNCHANGED vars
  <2>1. UNCHANGED <<browser, context, page, currentLabel, videoSteps, usedVideoStems, pc, local,
                    found, nth, closing, alive, open, stuck, within, rawVideos, timeline, saved, at, try, slot,
                    abandoned>>
    BY <1>6 DEF vars, shared, threads, world, bun
  <2>2. SharedOK' /\ ThreadsOK' /\ RecordingsOK' /\ BunOK'
    BY <1>1, <2>1 DEF SharedOK, ThreadsOK, RecordingsOK, BunOK, Closing, Recording
  <2>3. Forward' /\ FilesOK'
    BY <2>1 DEF Forward, Running, Reached, FilesOK, SavingOK, RecordingsApart, Saving
  <2> QED
    BY <2>2, <2>3, TypeOKNext
<1> QED
  BY <1>2, <1>3, <1>4, <1>5, <1>6 DEF Next

\* The types of everything, for any scenarios, retries and steps.
THEOREM TypeCorrect == Spec => []TypeOK
<1>1. TInv => TypeOK
  BY DEF TInv
<1> QED
  BY <1>1, InitTInv, NextTInv, PTL DEF Spec

\* uniqueVideoStem and closePage: however scenarios are named, and whatever bun
\* abandons and the browser breaks, no two recordings have one file, and none has
\* that of an earlier one of the process.
THEOREM FilesStayApart == Spec => []RecordingsApart
<1>1. TInv => RecordingsApart
  BY DEF TInv, FilesOK
<1> QED
  BY <1>1, InitTInv, NextTInv, PTL DEF Spec

-----------------------------------------------------------------------------
(***************************************************************************)
(* The shared variables are those of the opening, or closing, in turn.     *)
(***************************************************************************)

\* bun never takes back what it abandoned.
LEMMA AbandonedStays ==
    ASSUME TInv, [Next]_vars
    PROVE  abandoned \subseteq abandoned' /\ (StepsOnly' => StepsOnly)
<1>1. abandoned \subseteq abandoned'
  <2>1. CASE Running /\ Bun
    BY <2>1, BunMoves DEF TInv
  <2>2. CASE abandoned' = abandoned
    BY <2>2
  <2> QED
    BY <2>1, <2>2 DEF Next, vars, bun
<1> QED
  BY <1>1 DEF StepsOnly

\* While it abandons walking attempts only, bun goes from one slot to the next as
\* the code in it ends.
LEMMA BunInTurn ==
    ASSUME TypeOK, Forward, Running, Bun, StepsOnly'
    PROVE  \/ NextScenario /\ slot = "before" /\ (at \in Legacy => pc[Current] = "failed")
           \/ NextScenario /\ slot = "after" /\ closing[at].at \in {"done", "threw"}
           \/ ToTest /\ (at \in Legacy => pc[Current] = "walking")
           \/ /\ (slot = "test" /\ Retries) \/ ToAfter
              /\ pc[Current] \in {"passed", "failed"} \/ (pc[Current] \in Walking /\ abandoned' # {})
<1> DEFINE Ended == \/ pc[Current] \in {"passed", "failed"}
                    \/ pc[Current] \in Walking /\ abandoned' # {}
<1>1. ASSUME NEW threw \in BOOLEAN, SetUp(threw)
      PROVE  slot = "before" /\ at \notin Legacy /\ (NextScenario \/ ToTest)
  BY <1>1 DEF SetUp, ToTest
<1>2. ASSUME LegacyOpened
      PROVE  slot = "before" /\ ((NextScenario /\ pc[Current] = "failed") \/ (ToTest /\ pc[Current] = "walking"))
  BY <1>2 DEF LegacyOpened, ToTest
<1>3. ASSUME TestSettles
      PROVE  ((slot = "test" /\ Retries) \/ ToAfter) /\ Ended
  BY <1>3 DEF TestSettles, TestEnds, Retries, ToAfter
<1>4. ASSUME AfterAllEnds
      PROVE  NextScenario /\ slot = "after" /\ closing[at].at \in {"done", "threw"}
  BY <1>4 DEF AfterAllEnds
<1>5. ASSUME TimesOut
      PROVE  ((slot = "test" /\ Retries) \/ ToAfter) /\ Ended
  <2>1. ASSUME NEW i \in {"opening", "closing"},
               abandoned' = abandoned \cup {[in |-> i, of |-> Current]}
        PROVE  FALSE
    <3>1. [in |-> i, of |-> Current].in = "walk"
      BY <2>1 DEF StepsOnly
    <3> QED
      BY <3>1
  <2>2. /\ slot = "test" /\ pc[Current] \in Walking
        /\ abandoned' = abandoned \cup {[in |-> "walk", of |-> Current]}
        /\ TestEnds(TRUE)
    BY <1>5, <2>1 DEF TimesOut, Walking
  <2>3. (slot = "test" /\ Retries) \/ ToAfter
    BY <2>2 DEF TestEnds, Retries, ToAfter
  <2> QED
    BY <2>2, <2>3
<1> QED
  BY <1>1, <1>2, <1>3, <1>4, <1>5 DEF Bun

\* An opening that has begun and not ended is the current one, in its slot.
LEMMA OpensInTurn ==
    ASSUME WInv, StepsOnly, Running, NEW o \in Opening, Begun(o), pc[o] \in Opens \cup {"new"}
    PROVE  /\ o = Current /\ slot = Turn /\ slot # "after"
           /\ \A s \in Scenarios : closing[s].at \notin {"closing", "saving"}
           /\ \A p \in Opening \ {o} : pc[p] \notin Opens
BY DEF WInv, InTurn, OpeningOK, ClosingOK, Begun, Turn

\* It is enough to look at that opening.
LEMMA OpeningKeepsTurn ==
    ASSUME WInv, StepsOnly, Running, NEW o \in Opening, Begun(o), pc[o] \in Opens \cup {"new"},
           NEW p, Become(o, p), UNCHANGED <<closing, bun>>,
           p # "new", p \in Opens => OpeningOK(o)', PageOK', p = "leftover" \/ page' \in {None, o},
           p \in Walking => context' = o /\ page' = o /\ within'[o] = o,
           open' \subseteq {context'} \cup stuck'
    PROVE  InTurn'
<1>1. /\ o = Current /\ slot = Turn /\ slot # "after"
      /\ \A s \in Scenarios : closing[s].at \notin {"closing", "saving"}
      /\ \A q \in Opening \ {o} : pc[q] \notin Opens
  BY OpensInTurn
<1>2. pc'[o] = p /\ \A q \in Opening \ {o} : pc'[q] = pc[q]
  BY DEF Become, WInv, TInv, TypeOK
<1>3. UNCHANGED <<at, try, slot>> /\ Current' = Current
  BY DEF bun, Current
<1>4. \A q \in Opening : OpeningOK(q)'
  <2>1. ASSUME NEW q \in Opening, pc'[q] \notin Opens PROVE OpeningOK(q)'
    BY <2>1 DEF OpeningOK, Opens
  <2> QED
    BY <1>1, <1>2, <2>1
<1>5. \A s \in Scenarios : ClosingOK(s)'
  BY <1>1 DEF ClosingOK
<1>6. CurrentOK'
  BY <1>1, <1>2, <1>3 DEF CurrentOK
<1> QED
  BY <1>4, <1>5, <1>6 DEF InTurn

LEMMA OpeningInTurn ==
    ASSUME WInv, StepsOnly, Running, NEW o \in Opening, Begun(o), Walk(o), UNCHANGED bun,
           pc[o] \in Opens \cup {"new"}
    PROVE  InTurn'
<1>1. UNCHANGED closing
  BY WalkLeaves
<1>2. /\ o = Current /\ slot = Turn
      /\ PageOK /\ OpeningOK(o) /\ open \subseteq {context} \cup stuck
      /\ context \in Opening \cup {None} /\ open \subseteq Opening /\ o # None
      /\ Running' /\ Turn' = Turn /\ slot' = slot /\ Current' = Current
      /\ at \in Scenarios
  BY OpensInTurn, OpeningIs, CurrentIsOpening
     DEF WInv, TInv, InTurn, TypeOK, Turn, bun, Current, Running
<1>3. \A p : Become(o, p) => pc'[o] = p
  BY DEF Become, WInv, TInv, TypeOK
<1>4. ASSUME GetBrowser(o), context' = None, page' = None, UNCHANGED <<currentLabel, videoSteps>>,
             open' \subseteq stuck'
      PROVE  InTurn'
  <2>1. PICK p \in {"resolving", "launching"} : Become(o, p)
    BY <1>4 DEF GetBrowser
  <2>2. OpeningOK(o)'
    BY <1>2, <1>3, <1>4, <2>1 DEF OpeningOK
  <2>3. PageOK'
    BY <1>4 DEF PageOK
  <2> QED
    BY <1>1, <1>4, <2>1, <2>2, <2>3, OpeningKeepsTurn DEF Walking
<1>5. CASE LaunchPage(o)
  <2>1. UNCHANGED <<context, page, currentLabel, videoSteps, open, stuck>>
    BY <1>5 DEF LaunchPage, shared, world
  <2>2. CASE context # None
    <3>1. Become(o, "leftover") /\ found'[o] = [context |-> context, page |-> page]
      BY <1>5, <2>2 DEF LaunchPage, WInv, TInv, TypeOK
    <3>2. OpeningOK(o)'
      BY <1>2, <1>3, <2>1, <3>1 DEF OpeningOK
    <3>3. PageOK'
      BY <1>2, <2>1 DEF PageOK
    <3> QED
      BY <1>1, <1>2, <2>1, <3>1, <3>2, <3>3, OpeningKeepsTurn DEF Walking
  <2>3. CASE context = None
    <3>1. GetBrowser(o) /\ page = None
      BY <1>2, <1>5, <2>3 DEF LaunchPage, PageOK
    <3>2. open' \subseteq stuck'
      BY <1>2, <2>1, <2>3, OpeningIs
    <3> QED
      BY <1>4, <2>1, <2>3, <3>1, <3>2
  <2> QED
    BY <2>2, <2>3
<1>6. ASSUME NEW threw \in BOOLEAN, LeftoverClosed(o, threw) PROVE InTurn'
  <2>1. found[o].context = context
    BY <1>2, <1>6 DEF LeftoverClosed, OpeningOK
  <2>2. open' \subseteq stuck'
    BY <1>2, <1>6, <2>1 DEF LeftoverClosed
  <2> QED
    BY <1>4, <1>6, <2>2 DEF LeftoverClosed
<1>7. CASE BrowserLaunched(o)
  <2>1. Become(o, "resolving") /\ UNCHANGED <<context, page, currentLabel, videoSteps, open, stuck>>
        /\ pc[o] = "launching"
    BY <1>7 DEF BrowserLaunched
  <2>2. context = None /\ page = None
    BY <1>2, <2>1 DEF OpeningOK
  <2>3. OpeningOK(o)'
    BY <1>2, <1>3, <2>1, <2>2 DEF OpeningOK
  <2>4. PageOK'
    BY <2>1, <2>2 DEF PageOK
  <2> QED
    BY <1>1, <1>2, <2>1, <2>2, <2>3, <2>4, OpeningKeepsTurn DEF Walking
<1>8. CASE ContextOpened(o)
  <2>1. /\ Become(o, "context") /\ UNCHANGED <<page, currentLabel, videoSteps>>
        /\ context' = o /\ open' = open \cup {o} /\ stuck' = stuck /\ pc[o] = "resolving"
    BY <1>8 DEF ContextOpened
  <2>2. context = None /\ page = None
    BY <1>2, <2>1 DEF OpeningOK
  <2>3. OpeningOK(o)'
    BY <1>2, <1>3, <2>1, <2>2 DEF OpeningOK
  <2>4. PageOK'
    BY <2>1, <2>2 DEF PageOK
  <2>5. open' \subseteq {context'} \cup stuck'
    BY <1>2, <2>1, <2>2, OpeningIs
  <2> QED
    BY <1>1, <2>1, <2>2, <2>3, <2>4, <2>5, OpeningKeepsTurn DEF Walking
<1>9. CASE Named(o)
  <2>1. /\ Become(o, "page") /\ UNCHANGED <<context, page, open, stuck>>
        /\ currentLabel' = o[1] /\ videoSteps' = o /\ pc[o] = "context"
        /\ within' = [within EXCEPT ![o] = context]
    BY <1>9 DEF Named
  <2>2. context = o /\ page = None
    BY <1>2, <2>1 DEF OpeningOK
  <2>5. within'[o] = o
    BY <2>1, <2>2 DEF WInv, TInv, TypeOK
  <2>3. OpeningOK(o)'
    BY <1>2, <1>3, <2>1, <2>2, <2>5 DEF OpeningOK
  <2>4. PageOK'
    BY <2>1, <2>2 DEF PageOK
  <2> QED
    BY <1>1, <1>2, <2>1, <2>2, <2>3, <2>4, OpeningKeepsTurn DEF Walking
<1>10. CASE PageOpened(o)
  <2>1. /\ Become(o, "going") /\ UNCHANGED <<context, currentLabel, videoSteps, open, stuck, within>>
        /\ page' = o /\ pc[o] = "page"
    BY <1>10 DEF PageOpened
  <2>2. context = o /\ videoSteps = o /\ currentLabel = o[1] /\ within[o] = o
    BY <1>2, <2>1 DEF OpeningOK
  <2>4. OpeningOK(o)'
    BY <1>2, <1>3, <2>1, <2>2 DEF OpeningOK
  <2>5. PageOK'
    BY <1>2, <2>1, <2>2 DEF PageOK
  <2> QED
    BY <1>1, <1>2, <2>1, <2>4, <2>5, OpeningKeepsTurn DEF Walking
<1>11. CASE Navigated(o)
  <2>1. /\ Become(o, "walking")
        /\ UNCHANGED <<context, page, currentLabel, videoSteps, open, stuck, within>>
        /\ pc[o] = "going"
    BY <1>11 DEF Navigated, shared, world
  <2>2. context = o /\ page = o /\ within[o] = o
    BY <1>2, <2>1 DEF OpeningOK
  <2>3. PageOK'
    BY <1>2, <2>1 DEF PageOK
  <2> QED
    BY <1>1, <1>2, <2>1, <2>2, <2>3, OpeningKeepsTurn DEF Opens
<1>12. CASE OpenThrows(o)
  <2>1. /\ Become(o, "failed") /\ UNCHANGED <<context, page, currentLabel, videoSteps, open, stuck>>
        /\ pc[o] \in Opens \ {"leftover"}
    BY <1>12 DEF OpenThrows, shared, world
  <2>2. page \in {None, o}
    BY <1>2, <2>1 DEF OpeningOK, Opens
  <2>3. PageOK'
    BY <1>2, <2>1 DEF PageOK
  <2> QED
    BY <1>1, <1>2, <2>1, <2>2, <2>3, OpeningKeepsTurn DEF Opens, Walking
<1> QED
  BY <1>5, <1>6, <1>7, <1>8, <1>9, <1>10, <1>11, <1>12
     DEF Walk, StepEnds, RecordVideoStep, BodyReturns, Opens

\* The steps of an attempt leave the shared variables alone.
LEMMA WalkerMoves ==
    ASSUME TypeOK, NEW o \in Opening, Walk(o), pc[o] \notin Opens \cup {"new"}
    PROVE  /\ UNCHANGED <<browser, context, page, currentLabel, videoSteps, found, open, stuck, within>>
           /\ pc[o] \in Walking /\ pc'[o] \in Walking \cup {"passed", "failed"}
           /\ \A p \in Opening \ {o} : pc'[p] = pc[p] /\ nth'[p] = nth[p]
           /\ (\E passed \in BOOLEAN : StepEnds(o, passed)) \/ RecordVideoStep(o) \/ BodyReturns(o)
BY DEF Walk, LaunchPage, LeftoverClosed, BrowserLaunched, ContextOpened, Named, PageOpened,
       Navigated, OpenThrows, StepEnds, RecordVideoStep, BodyReturns, Become, Opens, Walking,
       TypeOK, shared, world

LEMMA WalkerInTurn ==
    ASSUME WInv, StepsOnly, NEW o \in Opening, Walk(o), UNCHANGED bun,
           pc[o] \notin Opens \cup {"new"}
    PROVE  InTurn'
<1>1. /\ UNCHANGED <<browser, context, page, currentLabel, videoSteps, found, open, stuck, within,
                     closing, at, try, slot>>
      /\ pc[o] \in Walking /\ pc'[o] \in Walking \cup {"passed", "failed"}
      /\ \A p \in Opening \ {o} : pc'[p] = pc[p]
  BY WalkerMoves, WalkLeaves DEF bun, WInv, TInv
<1>2. InTurn
  BY DEF WInv
<1>3. \A p \in Opening : pc'[p] = pc[p] \/ (pc[p] \in Walking /\ pc'[p] \in Walking \cup {"passed", "failed"})
  BY <1>1
<1>4. \A p \in Opening : OpeningOK(p)'
  BY <1>1, <1>2, <1>3 DEF InTurn, OpeningOK, Opens, Walking, Running, Current, Turn
<1>5. (\A s \in Scenarios : ClosingOK(s)') /\ PageOK' /\ open' \subseteq {context'} \cup stuck'
  BY <1>1, <1>2 DEF InTurn, ClosingOK, PageOK
<1>6. CurrentOK'
  <2>1. Running <=> Running'
    BY <1>1 DEF Running
  <2>2. CASE Running
    <3>1. Current \in Opening /\ Current' = Current /\ CurrentOK
      BY <1>1, <1>2, <2>2, CurrentIsOpening DEF WInv, TInv, Current, InTurn
    <3>2. pc'[Current] = pc[Current] \/ (pc[Current] \in Walking /\ pc'[Current] \in Walking \cup {"passed", "failed"})
      BY <1>3, <3>1
    <3> QED
      BY <1>1, <2>1, <2>2, <3>1, <3>2 DEF CurrentOK, Opens, Walking
  <2>3. CASE ~Running
    BY <1>1, <2>1, <2>3 DEF CurrentOK, WInv, TInv, Forward
  <2> QED
    BY <2>2, <2>3
<1> QED
  BY <1>4, <1>5, <1>6 DEF InTurn

\* closePage runs when nothing opens, and takes down what it found.
LEMMA AfterAllInTurn ==
    ASSUME WInv, StepsOnly, Running, NEW s \in Scenarios, AfterAll(s), UNCHANGED bun
    PROVE  InTurn'
<1>1. /\ UNCHANGED <<pc, found, within, at, try, slot>> /\ InTurn
      /\ closing \in [Scenarios -> Closing] /\ context \in Opening \cup {None}
  BY AfterAllLeaves DEF bun, WInv, TInv, TypeOK
<1>2. s = at /\ slot = "after"
  BY <1>1 DEF InTurn, ClosingOK, AfterAll, ClosePage, ContextClosed, SaveSettles
<1>3. /\ \A o \in Opening : pc[o] \notin Opens
      /\ \A t \in Scenarios \ {s} : closing[t].at \notin {"closing", "saving"}
  BY <1>1, <1>2 DEF InTurn, OpeningOK, ClosingOK, Turn
<1>4. \A o \in Opening : OpeningOK(o)'
  BY <1>1, <1>3 DEF OpeningOK, Opens
<1>5. /\ slot' = "after" /\ pc'[Current'] \notin Opens \cup {"new"} /\ page \in {None, Current}
      /\ Current' = Current
  BY <1>1, <1>2 DEF InTurn, CurrentOK, Current, Opens
<1>6. \A t \in Scenarios \ {s} : closing'[t] = closing[t]
  BY <1>1 DEF AfterAll, ClosePage, ContextClosed, SaveSettles
<1>7. \A t \in Scenarios \ {s} : ClosingOK(t)'
  BY <1>3, <1>6 DEF ClosingOK
<1>8. CASE ClosePage(s)
  <2>1. /\ UNCHANGED <<context, page, currentLabel, videoSteps, open, stuck>> /\ closing[s].at = "no"
        /\ closing'[s].at = "closing"
        /\ closing'[s].held = [page |-> page, label |-> currentLabel, steps |-> videoSteps,
                               context |-> context]
    BY <1>1, <1>8 DEF ClosePage, shared, world
  <2>2. ClosingOK(s)'
    BY <1>1, <1>2, <2>1 DEF ClosingOK
  <2> QED
    BY <1>1, <1>4, <1>5, <1>7, <2>1, <2>2 DEF InTurn, PageOK, CurrentOK
<1>9. ASSUME NEW threw \in BOOLEAN, ContextClosed(s, threw)
      PROVE  InTurn'
  <2>1. /\ closing[s].at = "closing" /\ context' = None /\ page' = None
        /\ IF threw THEN stuck' = stuck \cup {closing[s].held.context} /\ open' = open
           ELSE open' = open \ {closing[s].held.context} /\ stuck' = stuck
    BY <1>9 DEF ContextClosed
  <2>2. closing[s].held.context = context
    BY <1>1, <2>1 DEF InTurn, ClosingOK
  <2>3. open' \subseteq stuck'
    BY <1>1, <2>1, <2>2 DEF InTurn
  <2>4. closing'[s].at \in {"saving", "threw", "done"}
    <3> DEFINE held == closing[s].held
               kept == ~threw /\ held.page # None /\ held.label # None
               saves == [at |-> "saving", held |-> held, stem |-> UniqueVideoStem(Slug[held.label])]
               ends == [at |-> IF threw THEN "threw" ELSE "done", stem |-> None, held |-> NothingHeld]
    <3>1. closing' = [closing EXCEPT ![s] = IF kept THEN saves ELSE ends]
      BY <1>9 DEF ContextClosed
    <3>2. saves.at = "saving" /\ ends.at \in {"threw", "done"}
      OBVIOUS
    <3> HIDE DEF held, kept, saves, ends
    <3>3. closing'[s] \in {saves, ends}
      BY <1>1, <3>1
    <3> QED
      BY <3>2, <3>3
  <2>5. ClosingOK(s)'
    BY <1>1, <1>2, <2>4 DEF ClosingOK
  <2> QED
    BY <1>4, <1>5, <1>7, <2>1, <2>3, <2>5 DEF InTurn, PageOK, CurrentOK
<1>10. ASSUME NEW ok \in BOOLEAN, SaveSettles(s, ok)
       PROVE  InTurn'
  <2>1. /\ UNCHANGED <<context, page, currentLabel, videoSteps, open, stuck>>
        /\ closing[s].at = "saving" /\ closing'[s].at = "done"
    BY <1>1, <1>10 DEF SaveSettles, shared
  <2>2. ClosingOK(s)'
    BY <2>1 DEF ClosingOK
  <2> QED
    BY <1>1, <1>4, <1>5, <1>7, <2>1, <2>2 DEF InTurn, PageOK, CurrentOK
<1> QED
  BY <1>8, <1>9, <1>10 DEF AfterAll

\* Between two slots nothing opens and nothing closes.
LEMMA BunKeepsTurn ==
    ASSUME WInv, StepsOnly, StepsOnly', Running, Bun, UNCHANGED <<shared, threads, world>>
    PROVE  InTurn'
<1>1. /\ UNCHANGED <<browser, context, page, currentLabel, videoSteps, pc, found, within, open, stuck,
                     closing>>
      /\ InTurn /\ TypeOK /\ Forward /\ Forward' /\ TypeOK'
      /\ Current \in Opening /\ at \in Scenarios /\ Current = <<at, try>>
  BY NextTInv, CurrentIsOpening DEF shared, threads, world, WInv, TInv, Next, Current
<1>2. \A o \in Opening : pc[o] \in Opens => o = Current /\ slot = Turn
  BY <1>1 DEF InTurn, OpeningOK
<1>3. ASSUME \A o \in Opening : pc[o] \notin Opens,
             \A s \in Scenarios : closing[s].at \notin {"closing", "saving"}, CurrentOK'
      PROVE  InTurn'
  <2>1. \A o \in Opening : OpeningOK(o)'
    BY <1>1, <1>3 DEF OpeningOK, Opens
  <2>2. (\A s \in Scenarios : ClosingOK(s)') /\ PageOK' /\ open' \subseteq {context'} \cup stuck'
    BY <1>1, <1>3 DEF InTurn, ClosingOK, PageOK
  <2> QED
    BY <1>3, <2>1, <2>2 DEF InTurn
\* The next scenario, and the next attempt, have opened nothing yet.
<1>4. ASSUME Running', ~Reached(Current')
      PROVE  pc[Current'] = "new"
  <2>1. Current' \in Opening
    <3>1. at' \in Scenarios /\ try' \in 0..LastTry[at']
      BY <1>1, <1>4, WalkthroughAssumption DEF Running, Scenarios, TypeOK, Forward
    <3> QED
      BY <3>1, IsOpening DEF Current
  <2> QED
    BY <1>1, <1>4, <2>1 DEF Forward
<1>5. NextScenario \/ Retries => ~Reached(Current')
  <2>1. Current'[1] = at' /\ Current'[2] = try' /\ at \in Nat /\ try \in Nat
    BY <1>1 DEF Current, TypeOK
  <2>2. NextScenario => at' = at + 1
    BY DEF NextScenario
  <2>3. Retries => at' = at /\ try' = try + 1
    BY DEF Retries
  <2> QED
    BY <2>1, <2>2, <2>3 DEF Reached
<1>6. CASE NextScenario /\ slot = "before" /\ (at \in Legacy => pc[Current] = "failed")
  <2>1. \A o \in Opening : pc[o] \notin Opens
    BY <1>2, <1>6 DEF Turn, Opens
  <2>2. \A s \in Scenarios : closing[s].at \notin {"closing", "saving"}
    BY <1>1, <1>6 DEF InTurn, ClosingOK
  <2>3. CurrentOK'
    BY <1>1, <1>4, <1>5, <1>6 DEF CurrentOK, NextScenario, Walking
  <2> QED
    BY <1>3, <2>1, <2>2, <2>3
<1>7. CASE NextScenario /\ slot = "after" /\ closing[at].at \in {"done", "threw"}
  <2>1. \A o \in Opening : pc[o] \notin Opens
    BY <1>2, <1>7 DEF Turn, Opens
  <2>2. \A s \in Scenarios : closing[s].at \notin {"closing", "saving"}
    BY <1>1, <1>7 DEF InTurn, ClosingOK
  <2>3. CurrentOK'
    BY <1>1, <1>4, <1>5, <1>7 DEF CurrentOK, NextScenario, Walking
  <2> QED
    BY <1>3, <2>1, <2>2, <2>3
<1>8. CASE ToTest /\ (at \in Legacy => pc[Current] = "walking")
  <2>1. slot = "before" /\ slot' = "test" /\ Current' = Current
    BY <1>8 DEF ToTest, Current
  <2>2. \A o \in Opening : pc[o] \notin Opens
    BY <1>2, <1>8, <2>1 DEF Turn, Opens
  <2>3. \A s \in Scenarios : closing[s].at \notin {"closing", "saving"}
    BY <1>1, <2>1 DEF InTurn, ClosingOK
  <2>4. CurrentOK'
    BY <1>1, <1>8, <2>1 DEF InTurn, CurrentOK, ToTest, Running
  <2> QED
    BY <1>3, <2>2, <2>3, <2>4
<1>9. CASE /\ (slot = "test" /\ Retries) \/ ToAfter
           /\ pc[Current] \in {"passed", "failed"} \/ (pc[Current] \in Walking /\ abandoned' # {})
  <2>1. slot = "test" /\ pc[Current] \notin Opens \cup {"new"}
    BY <1>9 DEF ToAfter, Opens, Walking
  <2>2. \A o \in Opening : pc[o] \notin Opens
    BY <1>2, <2>1
  <2>3. \A s \in Scenarios : closing[s].at \notin {"closing", "saving"}
    BY <1>1, <2>1 DEF InTurn, ClosingOK
  <2>4. CASE Retries
    BY <1>1, <1>4, <1>5, <2>1, <2>2, <2>3, <2>4, <1>3 DEF CurrentOK, Retries, Walking
  <2>5. CASE ToAfter
    <3>1. slot' = "after" /\ Current' = Current /\ Running'
      BY <2>5 DEF ToAfter, Current, Running
    <3>2. CurrentOK'
      BY <1>1, <2>1, <3>1 DEF InTurn, CurrentOK, Opens
    <3> QED
      BY <1>3, <2>2, <2>3, <3>2
  <2> QED
    BY <1>9, <2>4, <2>5
<1> QED
  BY <1>1, <1>6, <1>7, <1>8, <1>9, BunInTurn

LEMMA InitWInv == Init => WInv
<1> SUFFICES ASSUME Init PROVE WInv
  OBVIOUS
<1>1. TInv
  BY InitTInv
<1>2. /\ \A o \in Opening : pc[o] = "new"
      /\ \A s \in Scenarios : closing[s].at = "no"
      /\ page = None /\ slot = "before" /\ open = {}
  BY DEF Init
<1>3. Running => pc[Current] = "new"
  BY <1>1, <1>2, CurrentIsOpening DEF TInv
<1>4. InTurn
  BY <1>2, <1>3 DEF InTurn, OpeningOK, ClosingOK, PageOK, CurrentOK, Opens, Walking
<1> QED
  BY <1>1, <1>4 DEF WInv

LEMMA NextWInv == WInv /\ [Next]_vars => WInv'
<1> SUFFICES ASSUME WInv, [Next]_vars, StepsOnly' PROVE InTurn'
  BY NextTInv DEF WInv
<1>1. StepsOnly /\ InTurn
  BY AbandonedStays DEF WInv
<1>2. CASE Running /\ Bun /\ UNCHANGED <<shared, threads, world>>
  BY <1>1, <1>2, BunKeepsTurn
<1>3. ASSUME NEW o \in Opening, Running, Begun(o), Walk(o), UNCHANGED bun
      PROVE  InTurn'
  BY <1>1, <1>3, OpeningInTurn, WalkerInTurn
<1>4. ASSUME NEW s \in Scenarios, Running, AfterAll(s), UNCHANGED bun
      PROVE  InTurn'
  BY <1>1, <1>4, AfterAllInTurn
<1>5. ASSUME UNCHANGED <<shared, threads, bun, stuck, within>>, open' \subseteq open
      PROVE  InTurn'
  <2>1. /\ UNCHANGED <<context, page, currentLabel, videoSteps, pc, found, closing, at, try, slot,
                       stuck, within>>
        /\ open' \subseteq open
    BY <1>5 DEF shared, threads, bun
  <2>2. Running' = Running /\ Current' = Current /\ Turn' = Turn
    BY <2>1 DEF Running, Current, Turn
  <2>3. \A o \in Opening : OpeningOK(o)'
    BY <1>1, <2>1, <2>2 DEF InTurn, OpeningOK
  <2>4. (\A s \in Scenarios : ClosingOK(s)') /\ PageOK' /\ CurrentOK'
    BY <1>1, <2>1, <2>2 DEF InTurn, ClosingOK, PageOK, CurrentOK
  <2>5. open' \subseteq {context'} \cup stuck'
    BY <1>1, <2>1, <2>2 DEF InTurn
  <2> QED
    BY <2>3, <2>4, <2>5 DEF InTurn
<1>6. ASSUME NEW b \in Opening, BrowserDies(b), UNCHANGED bun
      PROVE  InTurn'
  BY <1>5, <1>6 DEF BrowserDies
<1>7. CASE UNCHANGED vars
  BY <1>5, <1>7 DEF vars, world
<1> QED
  BY <1>2, <1>3, <1>4, <1>6, <1>7 DEF Next

\* "A leftover context is closed first": while bun abandons no opening and no hook,
\* an attempt walks on the page and in the context it opened, under its scenario's
\* name, and no other context is open but those that could not be closed.
THEOREM AttemptsWalkAlone == Spec => []WalksAlone
<1>1. WInv => WalksAlone
  <2> SUFFICES ASSUME WInv, Running, StepsOnly, slot = "test", pc[Current] \in Walking
               PROVE  /\ context = Current /\ page = Current /\ within[Current] = Current
                      /\ open \subseteq {Current} \cup stuck
                      /\ currentLabel = at
    BY DEF WalksAlone, Walking
  <2>1. context = Current /\ page = Current /\ within[Current] = Current
    BY DEF WInv, InTurn, CurrentOK
  <2>2. open \subseteq {Current} \cup stuck
    BY <2>1 DEF WInv, InTurn
  <2>3. currentLabel = at
    BY <2>1, CurrentIsOpening, OpeningIs DEF WInv, TInv, InTurn, PageOK
  <2> QED
    BY <2>1, <2>2, <2>3
<1> QED
  BY <1>1, InitWInv, NextWInv, PTL DEF Spec

-----------------------------------------------------------------------------
(***************************************************************************)
(* Arrays of steps.                                                        *)
(***************************************************************************)

\* What an opening has recorded stays what it recorded when it goes on.
LEMMA FirstInOrderStays ==
    ASSUME NEW steps, NEW o, NEW n \in Nat, NEW m \in Nat, n <= m, FirstInOrder(steps, o, n)
    PROVE  FirstInOrder(steps, o, m)
BY DEF FirstInOrder

\* longer is steps and the entry e.
Longer(longer, steps, e) ==
    \E l \in Nat : /\ DOMAIN steps = 1..l /\ DOMAIN longer = 1..(l + 1)
                   /\ \A i \in 1..l : longer[i] = steps[i]
                   /\ longer[l + 1] = e

LEMMA AppendIsLonger ==
    ASSUME NEW steps \in Seq(Entry), NEW e \in Entry
    PROVE  Longer(Append(steps, e), steps, e)
<1>1. Len(steps) \in Nat
  OBVIOUS
<1> QED
  BY <1>1 DEF Longer

\* A step of its own goes to the end, when it is the next.
LEMMA OwnStepRecorded ==
    ASSUME NEW o, NEW n \in Nat \ {0}, NEW steps, NEW longer,
           Longer(longer, steps, [by |-> o, nth |-> n]),
           FirstInOrder(steps, o, n), UpTo(steps, o, n - 1), LacksNone(steps, o, n - 1)
    PROVE  FirstInOrder(longer, o, n) /\ LacksNone(longer, o, n)
<1> DEFINE e == [by |-> o, nth |-> n]
<1>1. e.by = o /\ e.nth = n
  OBVIOUS
<1> HIDE DEF e
<1>2. PICK l \in Nat : /\ DOMAIN steps = 1..l /\ DOMAIN longer = 1..(l + 1)
                       /\ \A i \in 1..l : longer[i] = steps[i]
                       /\ longer[l + 1].by = o /\ longer[l + 1].nth = n
  BY <1>1 DEF Longer, e
<1>3. /\ OwnSteps(longer, o) = OwnSteps(steps, o) \cup {l + 1}
      /\ \A i \in OwnSteps(steps, o) : i \in 1..l /\ longer[i] = steps[i]
  <2>1. \A i : i \in 1..(l + 1) <=> i \in 1..l \/ i = l + 1
    OBVIOUS
  <2> QED
    BY <1>2, <2>1, Zenon DEF OwnSteps
<1>4. ASSUME NEW k \in 1..n
      PROVE  \E j \in OwnSteps(longer, o) : longer[j].nth = k
  <2>1. CASE k = n
    BY <1>2, <1>3, <2>1
  <2>2. CASE k # n
    <3>1. k \in 1..(n - 1)
      BY <2>2
    <3> QED
      BY <1>3, <3>1 DEF LacksNone
  <2> QED
    BY <2>1, <2>2
<1>5. ASSUME NEW i \in OwnSteps(longer, o)
      PROVE  /\ longer[i].nth \in 1..n
             /\ \A j \in OwnSteps(longer, o) : j < i => longer[j].nth < longer[i].nth
  <2>1. CASE i = l + 1
    <3>1. \A j \in OwnSteps(longer, o) : j < i => longer[j].nth \in 1..(n - 1)
      BY <1>2, <1>3, <2>1 DEF UpTo
    <3> QED
      BY <1>2, <2>1, <3>1
  <2>2. CASE i \in OwnSteps(steps, o)
    <3>1. /\ longer[i] = steps[i] /\ i \in 1..l /\ steps[i].nth \in 1..n
          /\ \A j \in OwnSteps(steps, o) : j < i => steps[j].nth < steps[i].nth
      BY <1>3, <2>2 DEF FirstInOrder
    <3>2. \A j \in OwnSteps(longer, o) : j < i => j \in OwnSteps(steps, o) /\ longer[j] = steps[j]
      BY <1>2, <1>3, <3>1
    <3> QED
      BY <3>1, <3>2
  <2> QED
    BY <1>3, <2>1, <2>2
<1>6. ASSUME NEW i \in OwnSteps(longer, o), NEW k \in 1..longer[i].nth
      PROVE  \E j \in OwnSteps(longer, o) : longer[j].nth = k
  <2>1. k \in 1..n
    BY <1>5, <1>6
  <2> QED
    BY <1>4, <2>1
<1> QED
  BY <1>4, <1>5, <1>6 DEF FirstInOrder, LacksNone

\* Another's step changes nothing for an opening.
LEMMA OtherStepRecorded ==
    ASSUME NEW o, NEW e, e.by # o, NEW steps, NEW longer, Longer(longer, steps, e)
    PROVE  /\ OwnSteps(longer, o) = OwnSteps(steps, o)
           /\ \A i \in OwnSteps(steps, o) : longer[i] = steps[i]
           /\ \A n : /\ FirstInOrder(steps, o, n) => FirstInOrder(longer, o, n)
                     /\ LacksNone(steps, o, n) => LacksNone(longer, o, n)
<1>1. PICK l \in Nat : /\ DOMAIN steps = 1..l /\ DOMAIN longer = 1..(l + 1)
                       /\ \A i \in 1..l : longer[i] = steps[i]
                       /\ longer[l + 1].by # o
  BY DEF Longer
<1>2. /\ OwnSteps(longer, o) = OwnSteps(steps, o)
      /\ \A i \in OwnSteps(steps, o) : longer[i] = steps[i]
  BY <1>1 DEF OwnSteps
<1> QED
  BY <1>2 DEF FirstInOrder, LacksNone

LEMMA LongerUpTo ==
    ASSUME NEW o, NEW n, NEW e, NEW steps, NEW longer, Longer(longer, steps, e),
           UpTo(steps, o, n), e.by = o => e.nth \in 1..n
    PROVE  UpTo(longer, o, n)
<1>1. PICK l \in Nat : /\ DOMAIN steps = 1..l /\ DOMAIN longer = 1..(l + 1)
                       /\ \A i \in 1..l : longer[i] = steps[i]
                       /\ longer[l + 1] = e
  BY DEF Longer
<1>2. \A i \in 1..(l + 1) : i \in 1..l \/ i = l + 1
  OBVIOUS
<1> QED
  BY <1>1, <1>2, Zenon DEF UpTo, OwnSteps

LEMMA FirstStepsNone == ASSUME NEW o PROVE FirstSteps(o, 0) = <<>>
BY DEF FirstSteps

LEMMA FirstStepsGrow ==
    ASSUME NEW o \in Opening, NEW n \in Nat \ {0}
    PROVE  Append(FirstSteps(o, n - 1), [by |-> o, nth |-> n]) = FirstSteps(o, n)
<1> DEFINE e == [by |-> o, nth |-> n]
<1>1. e \in Entry
  BY DEF Entry
<1>2. FirstSteps(o, n - 1) \in Seq(Entry) /\ FirstSteps(o, n) \in Seq(Entry)
  BY DEF FirstSteps, Entry
<1>3. Len(FirstSteps(o, n - 1)) = n - 1 /\ Len(FirstSteps(o, n)) = n
  BY DEF FirstSteps
<1>4. /\ Append(FirstSteps(o, n - 1), e) \in Seq(Entry)
      /\ Len(Append(FirstSteps(o, n - 1), e)) = n
  BY <1>1, <1>2, <1>3
<1>5. \A i \in 1..n : Append(FirstSteps(o, n - 1), e)[i] = FirstSteps(o, n)[i]
  BY <1>1, <1>2, <1>3 DEF FirstSteps
<1> QED
  BY <1>2, <1>3, <1>4, <1>5, SeqEqual

-----------------------------------------------------------------------------
(***************************************************************************)
(* What is recorded.                                                       *)
(***************************************************************************)

\* After an attempt that is last no other begins.
LEMMA LastStaysLast ==
    ASSUME WInv, NEW o \in Opening, Begun(o), Walk(o), UNCHANGED bun,
           NEW x \in Opening, IsLast(x)
    PROVE  IsLast(x)'
<1>1. /\ UNCHANGED <<closing, at, slot>> /\ Forward
      /\ \A p \in Opening \ {o} : pc'[p] = pc[p]
  BY WalkLeaves DEF bun, WInv, TInv, TypeOK, Walk, LaunchPage, LeftoverClosed, BrowserLaunched,
                    ContextOpened, Named, PageOpened, Navigated, OpenThrows, BodyReturns,
                    RecordVideoStep, StepEnds, GetBrowser, Become
<1>2. x[1] \in Scenarios /\ closing[x[1]].at # "no"
  BY OpeningIs DEF IsLast
<1>3. pc[o] = "new" => o[1] # x[1]
  <2>1. x[1] < at \/ (x[1] = at /\ slot = "after")
    BY <1>1, <1>2 DEF Forward
  <2>2. pc[o] = "new" => o[1] = at /\ slot # "after" /\ at \in Nat
    BY DEF Begun, Current, WInv, TInv, TypeOK
  <2> QED
    BY <2>1, <2>2
<1>4. ASSUME NEW later \in (x[2] + 1)..LastTry[x[1]]
      PROVE  pc'[<<x[1], later>>] = "new"
  <2>1. <<x[1], later>> \in Opening
    <3>1. later \in 0..LastTry[x[1]]
      BY <1>2, OpeningIs, WalkthroughAssumption
    <3> QED
      BY <1>2, <3>1, IsOpening
  <2>2. pc[<<x[1], later>>] = "new"
    BY DEF IsLast
  <2>3. <<x[1], later>> # o
    BY <1>3, <2>2
  <2> QED
    BY <1>1, <2>1, <2>2, <2>3
<1> QED
  BY <1>1, <1>2, <1>4 DEF IsLast

\* Where no array and no recording changes, only what is recorded to matters.
LEMMA ArraysStay ==
    ASSUME WInv, WInv', TimelinesOK, UNCHANGED <<timeline, saved, closing>>,
           \A o \in Opening : IsLast(o) => IsLast(o)',
           \A o \in Opening : nth[o] <= nth'[o] /\ Recorded(o) <= Recorded(o)',
           CurrentArrayOK'
    PROVE  TimelinesOK'
<1>1. /\ \A o \in Opening : nth[o] \in Nat /\ nth'[o] \in Nat
      /\ \A o \in Opening : Recorded(o) \in Int /\ Recorded(o)' \in Int
  <2>1. \A o \in Opening : nth[o] \in Nat /\ nth'[o] \in Nat
    BY DEF WInv, TInv, TypeOK
  <2> QED
    BY <2>1 DEF Recorded
<1>2. /\ timeline \in [Opening \cup {None} -> Seq(Entry)]
      /\ saved \subseteq Recording /\ closing \in [Scenarios -> Closing]
  BY DEF WInv, TInv, TypeOK
<1>3. EntriesOK'
  <2> SUFFICES ASSUME NEW a \in Opening \cup {None}, NEW o \in Opening
               PROVE  UpTo(timeline[a], o, Recorded(o)')
    BY DEF EntriesOK
  <2>1. UpTo(timeline[a], o, Recorded(o))
    BY DEF TimelinesOK, EntriesOK
  <2> QED
    BY <1>1, <2>1 DEF UpTo
<1>4. ASSUME NEW o \in Opening PROVE FirstInOrder(timeline[o], o, nth'[o])
  BY <1>1, FirstInOrderStays DEF TimelinesOK
<1>5. ASSUME NEW s \in Saving' PROVE OwnSaving(s)'
  <2>1. s \in Saving /\ SavingOK(s) /\ OwnSaving(s)
    BY DEF Saving, WInv, TInv, FilesOK, TimelinesOK
  <2> QED
    BY <2>1 DEF SavingOK, OwnSaving
<1>6. ASSUME NEW r \in saved PROVE OwnRecording(r)'
  <2>1. r.video \in Opening /\ OwnRecording(r)
    BY <1>2 DEF Recording, TimelinesOK
  <2>2. FirstInOrder(r.steps, r.video, nth'[r.video])
    BY <1>1, <2>1, FirstInOrderStays DEF OwnRecording
  <2> QED
    BY <2>1, <2>2 DEF OwnRecording
<1> QED
  BY <1>3, <1>4, <1>5, <1>6 DEF TimelinesOK

\* Nor do the recordings of attempts that have ended.
LEMMA EndedStays ==
    ASSUME WInv, WInv', Undisturbed, UNCHANGED <<timeline, saved, closing>>,
           \A o \in Opening : pc[o] \in {"passed", "failed"} => pc'[o] = pc[o] /\ nth'[o] = nth[o]
    PROVE  /\ \A s \in Saving' : LET o == closing'[s].held.page IN
                  pc'[o] \in {"passed", "failed"} /\ timeline'[o] = FirstSteps(o, nth'[o])
           /\ \A r \in saved' :
                  pc'[r.video] \in {"passed", "failed"} /\ r.steps = FirstSteps(r.video, nth'[r.video])
<1>1. ASSUME NEW s \in Saving'
      PROVE  LET o == closing'[s].held.page IN
                 pc'[o] \in {"passed", "failed"} /\ timeline'[o] = FirstSteps(o, nth'[o])
  <2>1. s \in Saving /\ SavingOK(s)
    BY DEF Saving, WInv, TInv, FilesOK
  <2>2. closing[s].held.page \in Opening /\ closing' = closing
    BY <2>1 DEF SavingOK
  <2> QED
    BY <2>1, <2>2 DEF Undisturbed
<1>2. ASSUME NEW r \in saved'
      PROVE  pc'[r.video] \in {"passed", "failed"} /\ r.steps = FirstSteps(r.video, nth'[r.video])
  <2>1. r \in saved /\ r.video \in Opening
    BY DEF WInv, TInv, TypeOK, Recording
  <2> QED
    BY <2>1 DEF Undisturbed
<1> QED
  BY <1>1, <1>2

\* An opening records nothing, and its page is the first of an empty array.
LEMMA OpeningRecords ==
    ASSUME WInv, WInv', StepsOnly, TimelinesOK, Running, NEW o \in Opening, Begun(o), Walk(o),
           UNCHANGED bun, pc[o] \in Opens \cup {"new"}
    PROVE  TimelinesOK' /\ (Undisturbed => Undisturbed')
<1>1. /\ UNCHANGED <<timeline, saved, closing, nth, at, try, slot>>
      /\ pc'[o] \in Opens \cup {"walking", "failed"}
      /\ \A q \in Opening \ {o} : pc'[q] = pc[q]
      /\ \/ page' \in {page, None} /\ videoSteps' \in {videoSteps, o}
         \/ pc[o] = "page" /\ page' = o /\ videoSteps' = videoSteps
  BY DEF bun, WInv, TInv, TypeOK, Opens, Walk, LaunchPage, LeftoverClosed, BrowserLaunched,
         ContextOpened, Named, PageOpened, Navigated, OpenThrows, BodyReturns, RecordVideoStep,
         StepEnds, GetBrowser, Become, shared, world
<1>2. /\ o = Current /\ slot = Turn /\ OpeningOK(o)
      /\ nth[o] = 0 /\ Recorded(o) = 0 /\ Recorded(o)' = 0
  BY <1>1, OpensInTurn DEF WInv, TInv, Forward, InTurn, Recorded, Opens
<1>3. \A q \in Opening : Recorded(q)' = Recorded(q)
  BY <1>1, <1>2 DEF Recorded
<1>4. \A q \in Opening : nth[q] <= nth'[q] /\ Recorded(q) <= Recorded(q)'
  BY <1>1, <1>3 DEF WInv, TInv, TypeOK, Recorded
<1>5. CurrentArrayOK'
  <2> SUFFICES ASSUME NEW q \in Opening, videoSteps' = q,
                      page' # None \/ pc'[q] \in {"recording", "failing"}
               PROVE  LacksNone(timeline[q], q, Recorded(q)')
    BY <1>1 DEF CurrentArrayOK
  <2>1. CASE q = o
    BY <1>2, <2>1 DEF LacksNone
  <2>2. CASE q # o
    <3>1. videoSteps = q /\ (page # None \/ pc[q] \in {"recording", "failing"})
      BY <1>1, <1>2, <2>2 DEF OpeningOK
    <3> QED
      BY <1>3, <3>1 DEF TimelinesOK, CurrentArrayOK
  <2> QED
    BY <2>1, <2>2
<1>6. TimelinesOK'
  BY <1>1, <1>4, <1>5, LastStaysLast, ArraysStay
<1>7. ASSUME Undisturbed PROVE Undisturbed'
  <2>1. /\ \A q \in Opening : pc[q] \in {"passed", "failed"} => pc'[q] = pc[q] /\ nth'[q] = nth[q]
        /\ Running' = Running /\ Current' = Current /\ Turn' = Turn
    BY <1>1 DEF Opens, Running, Current, Turn
  <2>2. ASSUME NEW q \in Opening
        PROVE  /\ pc'[q] \in Walking => Running' /\ q = Current' /\ slot' \in {Turn', "test"}
               /\ pc'[q] \in Opens \cup {"new"} => timeline'[q] = <<>>
    BY <1>1, <1>2, <1>7, <2>1 DEF Undisturbed
  <2>3. ASSUME NEW q \in Opening, page' = q
        PROVE  timeline'[q] = FirstSteps(q, Recorded(q)')
    <3>1. CASE q = o
      BY <1>1, <1>2, <1>7, <3>1, FirstStepsNone DEF Undisturbed
    <3>2. CASE q # o
      <4>1. page = q
        BY <1>1, <2>3, <3>2, OpeningIs
      <4> QED
        BY <1>1, <1>3, <1>7, <4>1 DEF Undisturbed
    <3> QED
      BY <3>1, <3>2
  <2> QED
    BY <1>1, <1>7, <2>1, <2>2, <2>3, EndedStays DEF Undisturbed
<1> QED
  BY <1>6, <1>7

\* A step that is called waits to be recorded, or never will be: then there is no page.
LEMMA StepEndRecords ==
    ASSUME WInv, WInv', StepsOnly, TimelinesOK, Running, NEW o \in Opening, Begun(o),
           NEW passed \in BOOLEAN, StepEnds(o, passed), UNCHANGED bun
    PROVE  TimelinesOK' /\ (Undisturbed => Undisturbed')
<1>1. /\ UNCHANGED <<timeline, saved, closing, page, videoSteps, at, try, slot>>
      /\ pc[o] = "walking" /\ nth'[o] = nth[o] + 1 /\ nth[o] \in Nat
      /\ pc'[o] \in IF currentLabel # None /\ page # None THEN {"recording", "failing"}
                    ELSE {"walking", "failed"}
      /\ \A q \in Opening \ {o} : pc'[q] = pc[q] /\ nth'[q] = nth[q] /\ nth[q] \in Nat
  BY DEF bun, WInv, TInv, TypeOK, StepEnds, Become, shared, world
<1>2. page # None => currentLabel # None
  BY OpeningIs DEF WInv, TInv, TypeOK, InTurn, PageOK
<1>3. \A q \in Opening \ {o} : Recorded(q)' = Recorded(q)
  BY <1>1 DEF Recorded
<1>4. Recorded(o) = nth[o] /\ (Recorded(o)' = IF page # None THEN nth[o] ELSE nth[o] + 1)
  BY <1>1, <1>2 DEF Recorded
<1>5. \A q \in Opening : nth[q] <= nth'[q] /\ Recorded(q) <= Recorded(q)'
  <2>1. \A q \in Opening \ {o} : Recorded(q) \in Int
    BY <1>1 DEF Recorded
  <2> QED
    BY <1>1, <1>3, <1>4, <2>1
<1>6. CurrentArrayOK'
  <2> SUFFICES ASSUME NEW q \in Opening, videoSteps = q,
                      page # None \/ pc'[q] \in {"recording", "failing"}
               PROVE  LacksNone(timeline[q], q, Recorded(q)')
    BY <1>1 DEF CurrentArrayOK
  <2>1. page # None \/ pc[q] \in {"recording", "failing"}
    BY <1>1
  <2>2. Recorded(q)' = Recorded(q)
    BY <1>1, <1>3, <1>4
  <2> QED
    BY <2>1, <2>2 DEF TimelinesOK, CurrentArrayOK
<1>7. Walk(o)
  BY DEF Walk
<1>8. TimelinesOK'
  BY <1>1, <1>5, <1>6, <1>7, LastStaysLast, ArraysStay
<1>9. ASSUME Undisturbed PROVE Undisturbed'
  <2>1. /\ \A q \in Opening : pc[q] \in {"passed", "failed"} => pc'[q] = pc[q] /\ nth'[q] = nth[q]
        /\ Running' = Running /\ Current' = Current /\ Turn' = Turn
    BY <1>1 DEF Running, Current, Turn
  <2>2. o = Current /\ slot \in {Turn, "test"} /\ page = o
    <3>1. o = Current /\ slot \in {Turn, "test"} /\ slot # "after"
      BY <1>1, <1>9 DEF Undisturbed, Walking, Turn
    <3> QED
      BY <1>1, <3>1 DEF WInv, InTurn, CurrentOK, Walking
  <2>3. ASSUME NEW q \in Opening
        PROVE  /\ pc'[q] \in Walking => Running' /\ q = Current' /\ slot' \in {Turn', "test"}
               /\ pc'[q] \in Opens \cup {"new"} => timeline'[q] = <<>>
    BY <1>1, <1>9, <2>1, <2>2 DEF Undisturbed, Opens
  <2>4. ASSUME NEW q \in Opening, page' = q
        PROVE  timeline'[q] = FirstSteps(q, Recorded(q)')
    <3>1. q = o /\ Recorded(o)' = Recorded(o)
      BY <1>1, <1>4, <2>2, <2>4, OpeningIs
    <3> QED
      BY <1>1, <1>9, <2>2, <3>1 DEF Undisturbed
  <2> QED
    BY <1>1, <1>9, <2>1, <2>3, <2>4, EndedStays DEF Undisturbed
<1> QED
  BY <1>8, <1>9

LEMMA BodyReturnRecords ==
    ASSUME WInv, WInv', StepsOnly, TimelinesOK, Running, NEW o \in Opening, Begun(o),
           BodyReturns(o), UNCHANGED bun
    PROVE  TimelinesOK' /\ (Undisturbed => Undisturbed')
<1>1. /\ UNCHANGED <<timeline, saved, closing, page, videoSteps, nth, at, try, slot>>
      /\ pc[o] = "walking" /\ pc'[o] = "passed"
      /\ \A q \in Opening \ {o} : pc'[q] = pc[q]
      /\ \A q \in Opening : nth[q] \in Nat
  BY DEF bun, WInv, TInv, TypeOK, BodyReturns, Become, shared, world
<1>2. \A q \in Opening : Recorded(q)' = Recorded(q) /\ Recorded(q) \in Int
  BY <1>1 DEF Recorded
<1>3. CurrentArrayOK'
  BY <1>1, <1>2 DEF TimelinesOK, CurrentArrayOK
<1>4. Walk(o)
  BY DEF Walk
<1>5. TimelinesOK'
  BY <1>1, <1>2, <1>3, <1>4, LastStaysLast, ArraysStay
<1>6. ASSUME Undisturbed PROVE Undisturbed'
  <2>1. /\ \A q \in Opening : pc[q] \in {"passed", "failed"} => pc'[q] = pc[q] /\ nth'[q] = nth[q]
        /\ Running' = Running /\ Current' = Current /\ Turn' = Turn
    BY <1>1 DEF Running, Current, Turn
  <2>2. ASSUME NEW q \in Opening
        PROVE  /\ pc'[q] \in Walking => Running' /\ q = Current' /\ slot' \in {Turn', "test"}
               /\ pc'[q] \in Opens \cup {"new"} => timeline'[q] = <<>>
    BY <1>1, <1>6, <2>1 DEF Undisturbed, Opens, Walking
  <2>3. ASSUME NEW q \in Opening, page' = q
        PROVE  timeline'[q] = FirstSteps(q, Recorded(q)')
    BY <1>1, <1>2, <1>6, <2>3 DEF Undisturbed
  <2> QED
    BY <1>1, <1>6, <2>1, <2>2, <2>3, EndedStays DEF Undisturbed
<1> QED
  BY <1>5, <1>6

\* recordVideoStep: whatever array is current gets the step; its own, none is missing.
LEMMA VideoStepRecords ==
    ASSUME WInv, WInv', StepsOnly, TimelinesOK, Running, NEW o \in Opening, Begun(o),
           RecordVideoStep(o), UNCHANGED bun
    PROVE  TimelinesOK' /\ (Undisturbed => Undisturbed')
<1> DEFINE a == videoSteps
           e == [by |-> o, nth |-> nth[o]]
<1>1. /\ UNCHANGED <<saved, closing, page, videoSteps, nth, at, try, slot>>
      /\ pc[o] \in {"recording", "failing"} /\ pc'[o] \in {"walking", "failed"}
      /\ \A q \in Opening \ {o} : pc'[q] = pc[q]
      /\ \A q \in Opening : nth[q] \in Nat
      /\ nth[o] \in Nat \ {0}
      /\ a \in Opening \cup {None} /\ timeline \in [Opening \cup {None} -> Seq(Entry)]
      /\ timeline' = [timeline EXCEPT ![a] = Append(@, e)]
  <2>1. /\ TypeOK /\ UNCHANGED <<saved, closing, page, videoSteps, nth, at, try, slot>>
        /\ pc[o] \in {"recording", "failing"}
        /\ Become(o, IF pc[o] = "recording" THEN "walking" ELSE "failed")
        /\ timeline' = [timeline EXCEPT ![a] = Append(@, e)]
    BY DEF bun, WInv, TInv, RecordVideoStep, shared
  <2>2. nth[o] > 0
    BY <2>1 DEF WInv, TInv, Forward
  <2> QED
    BY <2>1, <2>2 DEF TypeOK, Become
<1>2. /\ e \in Entry /\ e.by = o /\ e.nth = nth[o]
      /\ timeline'[a] = Append(timeline[a], e) /\ timeline[a] \in Seq(Entry)
      /\ \A b \in Opening \cup {None} : b # a => timeline'[b] = timeline[b]
  BY <1>1 DEF Entry
<1>3. Longer(timeline'[a], timeline[a], e)
  BY <1>2, AppendIsLonger
<1> HIDE DEF a, e
<1>4. /\ Recorded(o) = nth[o] - 1 /\ Recorded(o)' = nth[o]
      /\ \A q \in Opening \ {o} : Recorded(q)' = Recorded(q)
      /\ \A q \in Opening : Recorded(q) \in Int /\ Recorded(q)' \in Int /\ Recorded(q) <= Recorded(q)'
  <2>1. Recorded(o) = nth[o] - 1 /\ Recorded(o)' = nth[o]
    BY <1>1 DEF Recorded
  <2>2. ASSUME NEW q \in Opening \ {o}
        PROVE  Recorded(q)' = Recorded(q) /\ Recorded(q) \in Int
    BY <1>1 DEF Recorded
  <2> QED
    BY <1>1, <2>1, <2>2
<1>5. \A b \in Opening \cup {None}, q \in Opening :
          UpTo(timeline[b], q, Recorded(q)) /\ UpTo(timeline[b], q, Recorded(q)')
  <2>1. \A b \in Opening \cup {None}, q \in Opening : UpTo(timeline[b], q, Recorded(q))
    BY DEF TimelinesOK, EntriesOK
  <2> QED
    BY <1>4, <2>1 DEF UpTo
<1>6. EntriesOK'
  <2> SUFFICES ASSUME NEW b \in Opening \cup {None}, NEW q \in Opening
               PROVE  UpTo(timeline'[b], q, Recorded(q)')
    BY DEF EntriesOK
  <2>1. CASE b # a
    BY <1>2, <1>5, <2>1
  <2>2. CASE b = a
    <3>1. UpTo(timeline[a], q, Recorded(q)')
      BY <1>1, <1>5
    <3>2. e.by = q => e.nth \in 1..(Recorded(q)')
      BY <1>1, <1>2, <1>4
    <3> QED
      BY <1>3, <2>2, <3>1, <3>2, LongerUpTo
  <2> QED
    BY <2>1, <2>2
\* The array that is current, for its opening.
<1>7. ASSUME a = o
      PROVE  FirstInOrder(timeline'[o], o, nth[o]) /\ LacksNone(timeline'[o], o, nth[o])
  <2>1. FirstInOrder(timeline[o], o, nth[o]) /\ LacksNone(timeline[o], o, nth[o] - 1)
    BY <1>1, <1>4, <1>7 DEF TimelinesOK, CurrentArrayOK, a
  <2>2. UpTo(timeline[o], o, nth[o] - 1)
    BY <1>4, <1>5
  <2> QED
    BY <1>1, <1>3, <1>7, <2>1, <2>2, OwnStepRecorded DEF e
<1>8. ASSUME NEW q \in Opening, q # o
      PROVE  /\ FirstInOrder(timeline'[q], q, nth[q])
             /\ \A n : LacksNone(timeline[q], q, n) => LacksNone(timeline'[q], q, n)
  <2>1. FirstInOrder(timeline[q], q, nth[q])
    BY DEF TimelinesOK
  <2>2. CASE q = a
    BY <1>2, <1>3, <1>8, <2>1, <2>2, OtherStepRecorded
  <2>3. CASE q # a
    BY <1>2, <2>1, <2>3
  <2> QED
    BY <2>2, <2>3
<1>9. \A q \in Opening : FirstInOrder(timeline'[q], q, nth[q])
  <2>1. a # o => FirstInOrder(timeline'[o], o, nth[o])
    BY <1>2 DEF TimelinesOK
  <2> QED
    BY <1>7, <1>8, <2>1
<1>10. CurrentArrayOK'
  <2> SUFFICES ASSUME NEW q \in Opening, a = q, page # None \/ pc'[q] \in {"recording", "failing"}
               PROVE  LacksNone(timeline'[q], q, Recorded(q)')
    BY <1>1 DEF CurrentArrayOK, a
  <2>1. CASE q = o
    BY <1>4, <1>7, <2>1
  <2>2. CASE q # o
    <3>1. page # None \/ pc[q] \in {"recording", "failing"}
      BY <1>1, <2>2
    <3>2. LacksNone(timeline[q], q, Recorded(q)')
      BY <1>4, <2>2, <3>1 DEF TimelinesOK, CurrentArrayOK, a
    <3> QED
      BY <1>8, <2>2, <3>2
  <2> QED
    BY <2>1, <2>2
<1>11. Walk(o)
  BY DEF Walk
<1>12. \A q \in Opening : IsLast(q) => IsLast(q)'
  BY <1>11, LastStaysLast
<1>13. Saving' = Saving
  BY <1>1 DEF Saving
<1>14. (\A s \in Saving' : OwnSaving(s)') /\ (\A r \in saved' : OwnRecording(r)')
  <2>1. \A s \in Saving : closing[s].held.page \in Opening
    BY DEF WInv, TInv, FilesOK, SavingOK
  <2>2. \A r \in saved : r.video \in Opening
    BY DEF WInv, TInv, TypeOK, Recording
  <2> QED
    BY <1>1, <1>12, <1>13, <2>1, <2>2 DEF TimelinesOK, OwnSaving, OwnRecording
<1>15. TimelinesOK'
  BY <1>1, <1>6, <1>9, <1>10, <1>14 DEF TimelinesOK
<1>16. ASSUME Undisturbed PROVE Undisturbed'
  <2>1. o = Current /\ slot \in {Turn, "test"} /\ slot # "after" /\ page = o /\ a = o
    <3>1. o = Current /\ slot \in {Turn, "test"} /\ slot # "after"
      BY <1>1, <1>16 DEF Undisturbed, Walking, Turn
    <3>2. page = o /\ o # None
      BY <1>1, <3>1, OpeningIs DEF WInv, InTurn, CurrentOK, Walking
    <3> QED
      BY <3>1, <3>2 DEF WInv, InTurn, PageOK, a
  <2>2. Running' = Running /\ Current' = Current /\ Turn' = Turn
    BY <1>1 DEF Running, Current, Turn
  <2>3. ASSUME NEW q \in Opening
        PROVE  /\ pc'[q] \in Walking => Running' /\ q = Current' /\ slot' \in {Turn', "test"}
               /\ pc'[q] \in Opens \cup {"new"} => timeline'[q] = <<>>
    BY <1>1, <1>2, <1>16, <2>1, <2>2 DEF Undisturbed, Opens
  <2>4. ASSUME NEW q \in Opening, page' = q
        PROVE  timeline'[q] = FirstSteps(q, Recorded(q)')
    <3>1. q = o /\ timeline[o] = FirstSteps(o, nth[o] - 1)
      BY <1>1, <1>4, <1>16, <2>1, <2>4 DEF Undisturbed
    <3> QED
      BY <1>1, <1>2, <1>4, <2>1, <3>1, FirstStepsGrow DEF e
  <2>5. Saving' = {}
    BY <1>13, <2>1 DEF WInv, InTurn, ClosingOK, Saving
  <2>6. ASSUME NEW r \in saved
        PROVE  pc'[r.video] \in {"passed", "failed"} /\ r.steps = FirstSteps(r.video, nth'[r.video])
    <3>1. r.video \in Opening
      BY DEF WInv, TInv, TypeOK, Recording
    <3> QED
      BY <1>1, <1>16, <3>1 DEF Undisturbed
  <2> QED
    BY <1>1, <2>3, <2>4, <2>5, <2>6 DEF Undisturbed
<1> QED
  BY <1>15, <1>16

\* closePage: what it takes down is the last attempt's, and it saves what it took down.
LEMMA ClosingRecords ==
    ASSUME WInv, WInv', StepsOnly, TimelinesOK, Running, NEW s \in Scenarios, AfterAll(s),
           UNCHANGED bun
    PROVE  TimelinesOK' /\ (Undisturbed => Undisturbed')
<1>1. /\ UNCHANGED <<pc, nth, at, try, slot>> /\ InTurn /\ Forward /\ TypeOK
      /\ closing \in [Scenarios -> Closing] /\ saved \subseteq Recording
  BY AfterAllLeaves DEF bun, WInv, TInv, TypeOK
<1>2. s = at /\ slot = "after"
  BY <1>1 DEF InTurn, ClosingOK, AfterAll, ClosePage, ContextClosed, SaveSettles
<1>3. /\ Current \in Opening /\ at \in Scenarios /\ Current[1] = at /\ Current[2] = try
      /\ Current = <<at, try>>
  BY <1>1, CurrentIsOpening DEF Current
<1>4. \A q \in Opening : Recorded(q)' = Recorded(q)
  BY <1>1 DEF Recorded
<1>5. /\ \A t \in Scenarios \ {s} : closing'[t] = closing[t]
      /\ closing'[s].at # "no"
  <2>1. CASE ClosePage(s)
    BY <1>1, <2>1 DEF ClosePage
  <2>2. ASSUME NEW threw \in BOOLEAN, ContextClosed(s, threw)
        PROVE  /\ \A t \in Scenarios \ {s} : closing'[t] = closing[t]
               /\ closing'[s].at # "no"
    BY <1>1, <2>2 DEF ContextClosed
  <2>3. ASSUME NEW ok \in BOOLEAN, SaveSettles(s, ok)
        PROVE  /\ \A t \in Scenarios \ {s} : closing'[t] = closing[t]
               /\ closing'[s].at # "no"
    BY <1>1, <2>3 DEF SaveSettles
  <2> QED
    BY <2>1, <2>2, <2>3 DEF AfterAll
<1>6. \A q \in Opening : IsLast(q) => IsLast(q)'
  BY <1>1, <1>5, OpeningIs DEF IsLast
<1>7. \A r \in saved : OwnRecording(r)'
  <2>1. \A r \in saved : r.video \in Opening
    BY <1>1 DEF Recording
  <2> QED
    BY <1>1, <1>6, <2>1 DEF TimelinesOK, OwnRecording
\* Of the other closings, none is saving.
<1>8. Saving \subseteq {s} /\ Saving' \subseteq {s}
  <2>1. \A t \in Scenarios \ {s} : closing[t].at # "saving"
    BY <1>1, <1>2 DEF InTurn, ClosingOK
  <2> QED
    BY <1>5, <2>1 DEF Saving
<1>9. ASSUME Undisturbed, \A q \in Opening : timeline'[q] = timeline[q], page' \in {page, None}
      PROVE  \A q \in Opening :
                /\ pc'[q] \in Walking => Running' /\ q = Current' /\ slot' \in {Turn', "test"}
                /\ pc'[q] \in Opens \cup {"new"} => timeline'[q] = <<>>
                /\ page' = q => timeline'[q] = FirstSteps(q, Recorded(q)')
  <2>1. Running' = Running /\ Current' = Current /\ Turn' = Turn
    BY <1>1 DEF Running, Current, Turn
  <2> QED
    BY <1>1, <1>4, <1>9, <2>1, OpeningIs DEF Undisturbed
<1>10. CASE ClosePage(s)
  <2>1. UNCHANGED <<timeline, page, videoSteps, saved>> /\ closing'[s].at = "closing"
    BY <1>1, <1>10 DEF ClosePage, shared, world
  <2>2. Saving' = {}
    BY <1>8, <2>1 DEF Saving
  <2>3. EntriesOK' /\ CurrentArrayOK' /\ \A q \in Opening : FirstInOrder(timeline'[q], q, nth'[q])
    BY <1>1, <1>4, <2>1 DEF TimelinesOK, EntriesOK, CurrentArrayOK
  <2>4. TimelinesOK'
    BY <1>7, <2>1, <2>2, <2>3 DEF TimelinesOK
  <2>5. Undisturbed => Undisturbed'
    BY <1>1, <1>9, <2>1, <2>2 DEF Undisturbed
  <2> QED
    BY <2>4, <2>5
<1>11. ASSUME NEW threw \in BOOLEAN, ContextClosed(s, threw)
       PROVE  TimelinesOK' /\ (Undisturbed => Undisturbed')
  <2>1. /\ closing[s].at = "closing" /\ UNCHANGED saved
        /\ page' = None /\ videoSteps' = None /\ timeline' = [timeline EXCEPT ![None] = <<>>]
    BY <1>11 DEF ContextClosed
  <2>2. /\ \A q \in Opening : timeline'[q] = timeline[q]
        /\ timeline'[None] = <<>>
    BY <1>1, <2>1, WalkthroughAssumption DEF TypeOK
  <2>3. s \in Saving' => /\ closing'[s].held = closing[s].held
                         /\ closing[s].held.page # None
    <3> DEFINE kept == ~threw /\ closing[s].held.page # None /\ closing[s].held.label # None
    <3>1. CASE kept
      BY <1>1, <1>11, <3>1 DEF ContextClosed
    <3>2. CASE ~kept
      BY <1>1, <1>11, <3>2 DEF ContextClosed, Saving
    <3> QED
      BY <3>1, <3>2
  <2>4. s \in Saving' => /\ closing'[s].held.page = Current /\ closing'[s].held.label = at
                         /\ closing'[s].held.steps = Current /\ page = Current
    <3>1. closing[s].held = [page |-> page, label |-> currentLabel, steps |-> videoSteps,
                             context |-> context]
      BY <1>1, <2>1 DEF InTurn, ClosingOK
    <3>2. page \in {None, Current} /\ (page = Current => videoSteps = page /\ currentLabel = at)
      BY <1>1, <1>2, <1>3, OpeningIs DEF InTurn, CurrentOK, PageOK, Opens
    <3> QED
      BY <2>3, <3>1, <3>2
  <2>5. IsLast(Current)'
    <3>1. ASSUME NEW later \in (try + 1)..LastTry[at]
          PROVE  pc[<<at, later>>] = "new"
      <4>1. later \in 0..LastTry[at] /\ ~(later <= try) /\ at \in Nat
        <5>1. try \in Nat /\ at \in Nat
          BY <1>1 DEF TypeOK
        <5>2. LastTry[at] \in Nat
          BY <1>3, WalkthroughAssumption
        <5> QED
          BY <5>1, <5>2
      <4>2. <<at, later>> \in Opening /\ ~Reached(<<at, later>>)
        BY <1>3, <4>1, IsOpening DEF Reached
      <4> QED
        BY <1>1, <4>2 DEF Forward
    <3>2. Current' = Current
      BY <1>1 DEF Current
    <3> QED
      BY <1>1, <1>2, <1>3, <1>5, <3>1, <3>2 DEF IsLast
  <2>6. \A t \in Saving' : OwnSaving(t)'
    BY <1>1, <1>3, <1>8, <2>4, <2>5 DEF OwnSaving, Current
  <2>7. EntriesOK'
    <3> SUFFICES ASSUME NEW b \in Opening \cup {None}, NEW q \in Opening
                 PROVE  UpTo(timeline'[b], q, Recorded(q)')
      BY DEF EntriesOK
    <3>1. CASE b = None
      BY <2>2, <3>1 DEF UpTo, OwnSteps
    <3>2. CASE b # None
      BY <1>4, <2>2, <3>2 DEF TimelinesOK, EntriesOK
    <3> QED
      BY <3>1, <3>2
  <2>8. CurrentArrayOK' /\ \A q \in Opening : FirstInOrder(timeline'[q], q, nth'[q])
    BY <1>1, <2>1, <2>2, WalkthroughAssumption DEF TimelinesOK, CurrentArrayOK
  <2>9. TimelinesOK'
    BY <1>7, <2>1, <2>6, <2>7, <2>8 DEF TimelinesOK
  <2>10. ASSUME Undisturbed PROVE Undisturbed'
    <3>1. pc[Current] \in {"passed", "failed"}
      <4>1. pc[Current] \notin Walking
        BY <1>2, <1>3, <2>10 DEF Undisturbed, Turn
      <4>2. pc[Current] \notin Opens \cup {"new"}
        BY <1>1, <1>2 DEF InTurn, CurrentOK
      <4>3. pc[Current] \in Opens \cup {"new", "walking", "recording", "failing", "passed", "failed"}
        BY <1>1, <1>3 DEF TypeOK
      <4> QED
        BY <4>1, <4>2, <4>3 DEF Walking
    <3>2. page = Current => timeline[Current] = FirstSteps(Current, nth[Current])
      BY <1>3, <2>10, <3>1 DEF Undisturbed, Recorded
    <3>3. \A t \in Saving' : LET o == closing'[t].held.page IN
              pc'[o] \in {"passed", "failed"} /\ timeline'[o] = FirstSteps(o, nth'[o])
      BY <1>1, <1>3, <1>8, <2>2, <2>4, <3>1, <3>2
    <3> QED
      BY <1>1, <1>9, <2>1, <2>2, <2>10, <3>3 DEF Undisturbed
  <2> QED
    BY <2>9, <2>10
<1>12. ASSUME NEW ok \in BOOLEAN, SaveSettles(s, ok)
       PROVE  TimelinesOK' /\ (Undisturbed => Undisturbed')
  <2> DEFINE o == closing[s].held.page
             r == [stem |-> closing[s].stem, label |-> closing[s].held.label, video |-> o,
                   steps |-> timeline[closing[s].held.steps]]
  <2>1. /\ UNCHANGED <<timeline, page, videoSteps>> /\ s \in Saving /\ closing'[s].at = "done"
        /\ saved' \subseteq saved \cup {r}
    BY <1>1, <1>12 DEF SaveSettles, shared, Saving
  <2>2. Saving' = {}
    BY <1>8, <2>1 DEF Saving
  <2>3. EntriesOK' /\ CurrentArrayOK' /\ \A q \in Opening : FirstInOrder(timeline'[q], q, nth'[q])
    BY <1>1, <1>4, <2>1 DEF TimelinesOK, EntriesOK, CurrentArrayOK
  <2>4. /\ o \in Opening /\ r.video = o /\ r.label = o[1] /\ r.steps = timeline[o]
        /\ IsLast(o)
    BY <2>1 DEF TimelinesOK, OwnSaving, WInv, TInv, FilesOK, SavingOK
  <2> HIDE DEF o, r
  <2>5. ASSUME NEW x, x = r PROVE OwnRecording(x)'
    <3>1. /\ x.video \in Opening /\ x.video[1] = x.label /\ IsLast(x.video)
          /\ FirstInOrder(x.steps, x.video, nth[x.video])
      BY <2>4, <2>5 DEF TimelinesOK
    <3> QED
      BY <1>1, <1>6, <3>1 DEF OwnRecording
  <2>6. TimelinesOK'
    BY <1>7, <2>1, <2>2, <2>3, <2>5 DEF TimelinesOK
  <2>7. ASSUME Undisturbed PROVE Undisturbed'
    <3>1. pc[o] \in {"passed", "failed"} /\ timeline[o] = FirstSteps(o, nth[o])
      BY <2>1, <2>7 DEF Undisturbed, o
    <3>2. \A x \in saved' :
              pc'[x.video] \in {"passed", "failed"} /\ x.steps = FirstSteps(x.video, nth'[x.video])
      BY <1>1, <2>1, <2>4, <2>7, <3>1 DEF Undisturbed
    <3> QED
      BY <1>1, <1>9, <2>1, <2>2, <2>7, <3>2 DEF Undisturbed
  <2> QED
    BY <2>6, <2>7
<1> QED
  BY <1>10, <1>11, <1>12 DEF AfterAll

\* bun goes on when the current attempt has ended: it walks no more.
LEMMA BunRecords ==
    ASSUME WInv, WInv', StepsOnly, StepsOnly', TimelinesOK, Running, Bun,
           UNCHANGED <<shared, threads, world>>
    PROVE  TimelinesOK' /\ (abandoned' = {} /\ Undisturbed => Undisturbed')
<1>1. /\ UNCHANGED <<pc, nth, timeline, page, videoSteps, closing, saved>>
      /\ TypeOK /\ Forward /\ Current \in Opening /\ at \in Scenarios
  BY CurrentIsOpening DEF shared, threads, world, WInv, TInv
<1>2. \A q \in Opening : Recorded(q)' = Recorded(q) /\ (IsLast(q) => IsLast(q)')
  BY <1>1 DEF Recorded, IsLast
<1>3. nth \in [Opening -> Nat]
  BY <1>1 DEF TypeOK
<1>4. \A q \in Opening : nth[q] <= nth'[q] /\ Recorded(q) <= Recorded(q)'
  BY <1>1, <1>2, <1>3 DEF Recorded
<1>5. CurrentArrayOK'
  BY <1>1, <1>2 DEF TimelinesOK, CurrentArrayOK
<1>6. TimelinesOK'
  BY <1>1, <1>2, <1>4, <1>5, ArraysStay
<1>7. ASSUME abandoned' = {}, Undisturbed PROVE Undisturbed'
  <2>1. ASSUME NEW q \in Opening, pc[q] \in Walking
        PROVE  Running' /\ q = Current' /\ slot' \in {Turn', "test"}
    <3>1. q = Current /\ slot \in {Turn, "test"} /\ slot # "after" /\ pc[Current] \notin {"passed", "failed"}
      BY <1>7, <2>1 DEF Undisturbed, Turn, Walking
    <3>2. ToTest
      BY <1>1, <1>7, <3>1, BunInTurn DEF Turn, ToTest, ToAfter, Retries
    <3> QED
      BY <3>1, <3>2 DEF ToTest, Running, Current
  <2>2. \A q \in Opening : /\ pc'[q] \in Opens \cup {"new"} => timeline'[q] = <<>>
                           /\ page' = q => timeline'[q] = FirstSteps(q, Recorded(q)')
    BY <1>1, <1>2, <1>7 DEF Undisturbed
  <2> QED
    BY <1>1, <1>7, <2>1, <2>2, EndedStays DEF Undisturbed
<1> QED
  BY <1>6, <1>7

LEMMA InitFInv == Init => FInv
<1> SUFFICES ASSUME Init PROVE FInv
  OBVIOUS
<1>1. WInv
  BY InitWInv
<1>2. /\ \A o \in Opening : pc[o] = "new" /\ nth[o] = 0 /\ timeline[o] = <<>>
      /\ timeline[None] = <<>> /\ page = None /\ videoSteps = None /\ saved = {} /\ Saving = {}
  BY DEF Init, Saving
<1>3. TimelinesOK
  <2>1. EntriesOK
    BY <1>2 DEF EntriesOK, UpTo, OwnSteps
  <2>2. CurrentArrayOK
    BY <1>2, OpeningIs DEF CurrentArrayOK
  <2>3. \A o \in Opening : FirstInOrder(timeline[o], o, nth[o])
    BY <1>2 DEF FirstInOrder, OwnSteps
  <2> QED
    BY <1>2, <2>1, <2>2, <2>3 DEF TimelinesOK
<1>4. Undisturbed
  BY <1>2, OpeningIs DEF Undisturbed, Walking
<1> QED
  BY <1>1, <1>3, <1>4 DEF FInv

LEMMA NextFInv == FInv /\ [Next]_vars => FInv'
<1> SUFFICES ASSUME FInv, [Next]_vars, StepsOnly'
             PROVE  TimelinesOK' /\ (abandoned' = {} => Undisturbed')
  <2>1. FInv /\ [Next]_vars => WInv'
    BY NextWInv DEF FInv
  <2>2. abandoned' = {} => StepsOnly'
    BY DEF StepsOnly
  <2> QED
    BY <2>1, <2>2 DEF FInv
<1>1. WInv /\ WInv' /\ StepsOnly /\ TimelinesOK
  BY NextWInv, AbandonedStays DEF FInv, WInv
<1>2. abandoned' = {} => Undisturbed
  BY <1>1, AbandonedStays DEF FInv, WInv
<1>3. CASE Running /\ Bun /\ UNCHANGED <<shared, threads, world>>
  BY <1>1, <1>2, <1>3, BunRecords
<1>4. ASSUME NEW o \in Opening, Running, Begun(o), Walk(o), UNCHANGED bun
      PROVE  TimelinesOK' /\ (Undisturbed => Undisturbed')
  <2>1. CASE pc[o] \in Opens \cup {"new"}
    BY <1>1, <1>4, <2>1, OpeningRecords
  <2>2. CASE pc[o] \notin Opens \cup {"new"}
    <3>1. \/ \E passed \in BOOLEAN : StepEnds(o, passed)
          \/ RecordVideoStep(o)
          \/ BodyReturns(o)
      BY <1>4, <2>2 DEF Walk, LaunchPage, LeftoverClosed, BrowserLaunched, ContextOpened, Named,
                        PageOpened, Navigated, OpenThrows, Opens
    <3> QED
      BY <1>1, <1>4, <3>1, StepEndRecords, VideoStepRecords, BodyReturnRecords
  <2> QED
    BY <2>1, <2>2
<1>5. ASSUME NEW s \in Scenarios, Running, AfterAll(s), UNCHANGED bun
      PROVE  TimelinesOK' /\ (Undisturbed => Undisturbed')
  BY <1>1, <1>5, ClosingRecords
<1>6. ASSUME UNCHANGED <<shared, threads, bun, timeline, saved>>
      PROVE  TimelinesOK' /\ (Undisturbed => Undisturbed')
  <2>1. /\ UNCHANGED <<pc, nth, timeline, page, videoSteps, closing, saved, at, try, slot>>
        /\ Running' = Running /\ Current' = Current /\ Turn' = Turn
    BY <1>6 DEF shared, threads, bun, Running, Current, Turn
  <2>2. \A q \in Opening : Recorded(q)' = Recorded(q) /\ (IsLast(q) => IsLast(q)')
    BY <2>1 DEF Recorded, IsLast
  <2>3. nth \in [Opening -> Nat]
    BY <1>1 DEF WInv, TInv, TypeOK
  <2>4. \A q \in Opening : nth[q] <= nth'[q] /\ Recorded(q) <= Recorded(q)'
    BY <2>1, <2>2, <2>3 DEF Recorded
  <2>5. CurrentArrayOK'
    BY <1>1, <2>1, <2>2 DEF TimelinesOK, CurrentArrayOK
  <2>6. TimelinesOK'
    BY <1>1, <2>1, <2>2, <2>4, <2>5, ArraysStay
  <2>7. ASSUME Undisturbed PROVE Undisturbed'
    BY <1>1, <2>1, <2>2, <2>7, EndedStays DEF Undisturbed
  <2> QED
    BY <2>6, <2>7
<1>7. ASSUME NEW b \in Opening, BrowserDies(b), UNCHANGED bun
      PROVE  TimelinesOK' /\ (Undisturbed => Undisturbed')
  BY <1>6, <1>7 DEF BrowserDies
<1>8. CASE UNCHANGED vars
  BY <1>6, <1>8, <1>2 DEF vars, world
<1> QED
  BY <1>2, <1>3, <1>4, <1>5, <1>7, <1>8 DEF Next

\* While bun abandons walking attempts only, the recording of a scenario is its last
\* attempt's, and of that attempt's steps it lists the first ones, in their order; when
\* it abandons none, all of them and nothing else.
THEOREM FootageStaysOwn == Spec => []FootageIsOwn
<1>1. FInv => FootageIsOwn
  <2> SUFFICES ASSUME FInv, StepsOnly, NEW r \in saved
               PROVE  /\ r.video[1] = r.label
                      /\ \A later \in (r.video[2] + 1)..LastTry[r.label] : pc[<<r.label, later>>] = "new"
                      /\ FirstInOrder(r.steps, r.video, nth[r.video])
                      /\ abandoned = {} => r.steps = FirstSteps(r.video, nth[r.video])
    BY DEF FootageIsOwn
  <2>1. OwnRecording(r)
    BY DEF FInv, TimelinesOK
  <2>2. abandoned = {} => r.steps = FirstSteps(r.video, nth[r.video])
    BY DEF FInv, Undisturbed
  <2> QED
    BY <2>1, <2>2 DEF OwnRecording, IsLast
<1> QED
  BY <1>1, InitFInv, NextFInv, PTL DEF Spec

=============================================================================
