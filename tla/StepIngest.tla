------------------------------ MODULE StepIngest ------------------------------
(***************************************************************************)
(* What the worker does with the steps and the walkthrough video of a      *)
(* scenario (routes/ingest.ts, db.ts): a step is a row first, then an      *)
(* object in the bucket, then the key in the row; a video is the object,   *)
(* then the key.  Requests are fire-and-forget: they overlap, arrive in    *)
(* any order, are cut short, and come again when the answer was lost.      *)
(* The scenario is one whose creation was answered, in a run of the caller:*)
(* uploadVideo checks that, createStep takes the harness's word for it.    *)
(***************************************************************************)
EXTENDS Naturals, Sequences, FiniteSetsExt

CONSTANTS
    Step,        \* the steps the harness posts, by the numbers they go under and the
                 \* attempt whose body runs them: a step that bun gave up on is posted
                 \* under its own place and the attempt that runs by then (Scenario)
    Req,         \* requests the worker receives, each once: the bound of retries
    Nothing, Video

ASSUME StepAssumption ==
    /\ Step \subseteq [attempt : Nat, place : Nat, body : Nat]
    /\ Nothing \notin Step /\ Video \notin Step \cup Nat

VARIABLES
    numbers,     \* the client sends attempt and sequence; an old one neither
    rows,        \* the table steps, in the order of its ids
    videoKey,    \* scenarios.video_r2_key is set
    bucket,      \* the objects, by what names them: the step's id or the scenario's
    request,
    unflagged,   \* history: rows whose flag could not be written
    overlapped   \* history: a row came in between a place's choice and its insert

ingestVars == <<numbers, rows, videoKey, bucket, request, unflagged, overlapped>>

Backoffs == 2    \* putWithRetry's backoffMs

Row == [step : Step, attempt : Nat, sequence : Nat, screenshot : BOOLEAN, failed : BOOLEAN]
At == {"free", "numbering", "recording", "storing", "attaching", "flagging",
       "answered", "gone"}
Request == [at : At, of : Step \cup {Nothing, Video}, sequence : Nat, row : Nat,
            tries : 0 .. Backoffs, failed : BOOLEAN]

Blank(at) == [at |-> at, of |-> Nothing, sequence |-> 0, row |-> 0, tries |-> 0, failed |-> FALSE]

IngestTypeOK ==
    /\ numbers \in BOOLEAN /\ videoKey \in BOOLEAN /\ overlapped \in BOOLEAN
    /\ rows \in Seq(Row) /\ unflagged \subseteq DOMAIN rows
    /\ bucket \subseteq DOMAIN rows \cup {Video}
    /\ request \in [Req -> Request]

IngestInit ==
    /\ numbers \in BOOLEAN
    /\ rows = <<>> /\ videoKey = FALSE /\ bucket = {}
    /\ request = [q \in Req |-> Blank("free")]
    /\ unflagged = {} /\ overlapped = FALSE

-----------------------------------------------------------------------------
(***************************************************************************)
(* POST .../steps.                                                         *)
(***************************************************************************)
AttemptOf(step) == IF numbers THEN step.attempt ELSE 0

\* SELECT COALESCE(MAX(sequence), -1) + 1.
NextPlace(attempt) ==
    Max({0} \cup {rows[i].sequence + 1 : i \in {j \in DOMAIN rows : rows[j].attempt = attempt}})

PostStep(q, step) ==
    /\ request[q].at = "free"
    /\ request' = [request EXCEPT ![q].at = IF numbers THEN "recording" ELSE "numbering",
                                  ![q].of = step, ![q].sequence = step.place]
    /\ UNCHANGED <<numbers, rows, videoKey, bucket, unflagged, overlapped>>

\* The place of a step that came without one, in a statement of its own.
Number(q) ==
    /\ request[q].at = "numbering"
    /\ request' = [request EXCEPT ![q].at = "recording",
                                  ![q].sequence = NextPlace(AttemptOf(request[q].of))]
    /\ UNCHANGED <<numbers, rows, videoKey, bucket, unflagged, overlapped>>

\* A mutant: the place a step came with is not used.
ArrivalPlace(q) == NextPlace(AttemptOf(request[q].of))

SequenceOf(q) == request[q].sequence

\* The insert; it may throw, and even then have been carried out.
Record(q, done, heard, shot) ==
    LET step == request[q].of
        row  == [step |-> step, attempt |-> AttemptOf(step), sequence |-> SequenceOf(q),
                 screenshot |-> FALSE, failed |-> FALSE]
    IN
    /\ request[q].at = "recording" /\ (heard => done)
    /\ rows' = IF done THEN Append(rows, row) ELSE rows
    /\ overlapped' = (overlapped \/ (done /\ ~numbers /\ row.sequence # NextPlace(row.attempt)))
    /\ request' = [request EXCEPT ![q] = IF heard
           THEN [@ EXCEPT !.at = IF shot THEN "storing" ELSE "answered",
                          !.row = Len(rows'), !.sequence = 0]
           ELSE Blank("gone")]
    /\ UNCHANGED <<numbers, videoKey, bucket, unflagged>>

-----------------------------------------------------------------------------
(***************************************************************************)
(* PUT .../video, and the object of either.                                *)
(***************************************************************************)
PutVideo(q) ==
    /\ request[q].at = "free"
    /\ request' = [request EXCEPT ![q].at = "storing", ![q].of = Video]
    /\ UNCHANGED <<numbers, rows, videoKey, bucket, unflagged, overlapped>>

IsVideo(q) == request[q].of = Video
KeyOf(q) == IF IsVideo(q) THEN Video ELSE request[q].row

\* The catch of either handler: only a step has a flag to set.
Caught(q) == [request EXCEPT ![q].at = IF IsVideo(q) THEN "answered" ELSE "flagging",
                             ![q].failed = TRUE, ![q].tries = 0]

\* A mutant: the last failure is not thrown.
LastFailureForgotten(q) ==
    [request EXCEPT ![q].tries = IF @ < Backoffs THEN @ + 1 ELSE @,
                    ![q].at = IF request[q].tries < Backoffs THEN @ ELSE "attaching"]

NotStored(q) ==
    IF request[q].tries < Backoffs THEN [request EXCEPT ![q].tries = @ + 1] ELSE Caught(q)

\* One attempt of putWithRetry; put may throw and have stored.
Store(q, done, heard) ==
    /\ request[q].at = "storing" /\ (heard => done)
    /\ bucket' = IF done THEN bucket \cup {KeyOf(q)} ELSE bucket
    /\ request' = IF heard THEN [request EXCEPT ![q].at = "attaching", ![q].tries = 0]
                            ELSE NotStored(q)
    /\ UNCHANGED <<numbers, rows, videoKey, unflagged, overlapped>>

\* attachScreenshot, attachVideo.
Attach(q, done, heard) ==
    /\ request[q].at = "attaching" /\ (heard => done)
    /\ rows' = IF done /\ ~IsVideo(q) THEN [rows EXCEPT ![request[q].row].screenshot = TRUE]
                                      ELSE rows
    /\ videoKey' = (videoKey \/ (done /\ IsVideo(q)))
    /\ request' = IF heard THEN [request EXCEPT ![q].at = "answered"] ELSE Caught(q)
    /\ UNCHANGED <<numbers, bucket, unflagged, overlapped>>

\* markScreenshotFailed, best effort.
Flag(q, done) ==
    /\ request[q].at = "flagging"
    /\ rows' = IF done THEN [rows EXCEPT ![request[q].row].failed = TRUE] ELSE rows
    /\ unflagged' = IF done THEN unflagged ELSE unflagged \cup {request[q].row}
    /\ request' = [request EXCEPT ![q].at = "answered"]
    /\ UNCHANGED <<numbers, videoKey, bucket, overlapped>>

\* The isolate is evicted, or a read before the first write throws.
Cut(q) ==
    /\ request[q].at \notin {"free", "answered", "gone"}
    /\ request' = [request EXCEPT ![q] = Blank("gone")]
    /\ UNCHANGED <<numbers, rows, videoKey, bucket, unflagged, overlapped>>

Ingest(q) ==
    \/ \E step \in Step : PostStep(q, step)
    \/ PutVideo(q) \/ Number(q) \/ Cut(q)
    \/ \E done, heard, shot \in BOOLEAN : Record(q, done, heard, shot)
    \/ \E done, heard \in BOOLEAN : Store(q, done, heard) \/ Attach(q, done, heard)
    \/ \E done \in BOOLEAN : Flag(q, done)

IngestNext == \E q \in Req : Ingest(q)
IngestSpec == IngestInit /\ [][IngestNext]_ingestVars

-----------------------------------------------------------------------------
\* listStepsForScenario: the rows of the last attempt, by sequence.
Listed ==
    {i \in DOMAIN rows : rows[i].attempt = Max({rows[j].attempt : j \in DOMAIN rows})}

(***************************************************************************)
(* Properties.                                                             *)
(***************************************************************************)

\* An answer of 200 is true: without screenshotFailed (or videoFailed) the object
\* is stored and its key is in the row; with it, the row says so, unless that write
\* failed too.  No screenshot gets lost between the runner's log and the dashboard.
GapsAreFlagged ==
    \A q \in Req : request[q].at = "answered" =>
        LET r == request[q] IN
        IF r.of = Video THEN r.failed \/ (videoKey /\ Video \in bucket)
        ELSE IF r.failed THEN rows[r.row].failed \/ r.row \in unflagged
        ELSE ~rows[r.row].failed /\ (rows[r.row].screenshot <=> r.row \in bucket)

\* The comment on createStep's sequence: steps that arrive in any order are shown in
\* the order the harness authored them, and under the last attempt only; two have one
\* place only when they were posted under one number: one step twice, or a step that
\* bun gave up on beside one of the retry.  Those of an old client have the order in
\* which they were recorded, provided that no two were numbered at once.
ShownInAuthoringOrder ==
    \A i, j \in Listed :
        /\ numbers => /\ rows[i].step.attempt = rows[j].step.attempt
                      /\ rows[i].sequence < rows[j].sequence
                            <=> rows[i].step.place < rows[j].step.place
        /\ ~numbers /\ ~overlapped => (rows[i].sequence < rows[j].sequence <=> i < j)

=============================================================================
