---------------------------- MODULE RunPage_proofs ----------------------------
(***************************************************************************)
(* What the ingest answers, what a page shows and to whom, for any number  *)
(* of steps, requests and links.                                           *)
(***************************************************************************)
EXTENDS RunPage, WellFoundedInduction, TLAPS

(***************************************************************************)
(* The type of the ingest's state, with a bound of the places given so far *)
(* without which their maximum would be nobody's.                          *)
(***************************************************************************)
Bounded == \E b \in Nat : \A i \in DOMAIN rows : rows[i].sequence <= b

\* A request that holds a row, or the video.
Held == {"storing", "attaching", "flagging", "answered"}

(***************************************************************************)
(* What each request knows, by where it is.                                *)
(***************************************************************************)
Holds(q) ==
    /\ request[q].at \in {"numbering", "recording"} => request[q].of \in Step
    /\ request[q].at \in Held => request[q].of \in Step \cup {Video}
    /\ request[q].at \in Held /\ request[q].of # Video => request[q].row \in DOMAIN rows
    /\ request[q].at = "flagging" => request[q].of # Video /\ request[q].failed
    /\ request[q].at \in {"free", "numbering", "recording", "storing", "attaching"} =>
           ~request[q].failed

Numbered(q) ==
    numbers => /\ request[q].at # "numbering"
               /\ request[q].at = "recording" =>
                      request[q].sequence = request[q].of.place

StepIsTrue(q) ==
    request[q].at \in Held /\ request[q].of # Video =>
        LET i == request[q].row IN
        /\ request[q].at \in {"storing", "attaching"} => ~rows[i].failed
        /\ request[q].at = "storing" => ~rows[i].screenshot
        /\ request[q].at = "attaching" => i \in bucket
        /\ request[q].at = "answered" /\ ~request[q].failed =>
               ~rows[i].failed /\ (rows[i].screenshot <=> i \in bucket)
        /\ request[q].at = "answered" /\ request[q].failed =>
               rows[i].failed \/ i \in unflagged

VideoIsTrue(q) ==
    request[q].of = Video =>
        /\ request[q].at = "attaching" => Video \in bucket
        /\ request[q].at = "answered" /\ ~request[q].failed => videoKey /\ Video \in bucket

\* No two requests hold one row.
Apart ==
    \A q1, q2 \in Req :
        /\ q1 # q2
        /\ request[q1].at \in Held /\ request[q1].of # Video
        /\ request[q2].at \in Held /\ request[q2].of # Video
        => request[q1].row # request[q2].row

\* The keys that are set, and the places that were given.
KeysAreStored ==
    /\ \A i \in DOMAIN rows : rows[i].screenshot => i \in bucket
    /\ videoKey => Video \in bucket

PlacesAreKept ==
    /\ numbers => \A i \in DOMAIN rows : /\ rows[i].attempt = rows[i].step.attempt
                                         /\ rows[i].sequence = rows[i].step.place
    /\ ~numbers => \A i \in DOMAIN rows : rows[i].attempt = 0
    /\ ~numbers /\ ~overlapped =>
           \A i, j \in DOMAIN rows : i < j => rows[i].sequence < rows[j].sequence

IngestInv ==
    /\ IngestTypeOK /\ Bounded
    /\ \A q \in Req : Holds(q) /\ Numbered(q) /\ StepIsTrue(q) /\ VideoIsTrue(q)
    /\ Apart /\ KeysAreStored /\ PlacesAreKept

-----------------------------------------------------------------------------
\* The greatest of some natural numbers, none of them above a bound.
LEMMA MaxIsGreatest ==
    ASSUME NEW S \in SUBSET Nat, S # {}, NEW b \in Nat, \A x \in S : x <= b
    PROVE  Max(S) \in S /\ \A y \in S : Max(S) >= y
<1> DEFINE T == {b - x : x \in S}
<1>1. T \subseteq Nat /\ T # {}
  <2>1. \A x \in S : b - x \in Nat
    OBVIOUS
  <2>2. T \subseteq Nat
    BY <2>1
  <2>3. PICK x \in S : TRUE
    OBVIOUS
  <2>4. b - x \in T
    BY <2>3
  <2> QED
    BY <2>2, <2>4
<1> DEFINE R == OpToRel(<, Nat)
<1>2. IsWellFoundedOn(R, Nat)
  BY NatLessThanWellFounded
<1>3. \A x, y \in Nat : x < y => <<x, y>> \in R
  BY DEF OpToRel
<1> HIDE DEF R, T
<1>4. PICK t \in T : \A u \in T : ~ (<<u, t>> \in R)
  BY <1>1, <1>2, WFMin
<1>5. \A u \in T : ~ (u < t)
  BY <1>1, <1>3, <1>4
<1>6. PICK x \in S : t = b - x
  BY DEF T
<1>7. ASSUME NEW y \in S
      PROVE  x >= y
  <2>1. b - y \in T
    BY DEF T
  <2>2. ~ (b - y < b - x)
    BY <1>5, <1>6, <2>1
  <2> QED
    BY <2>2
<1>8. \E z \in S : \A y \in S : z >= y
  BY <1>7
<1> QED
  BY <1>8 DEF Max

\* The rows and the requests, field by field.
LEMMA RowFields ==
    ASSUME IngestTypeOK, NEW i \in DOMAIN rows
    PROVE  /\ rows[i] \in Row /\ i \in Nat /\ i <= Len(rows)
           /\ rows[i].step \in Step /\ rows[i].attempt \in Nat /\ rows[i].sequence \in Nat
           /\ rows[i].screenshot \in BOOLEAN /\ rows[i].failed \in BOOLEAN
<1>1. rows \in Seq(Row)
  BY DEF IngestTypeOK
<1> HIDE DEF Row
<1>2. rows[i] \in Row /\ i \in Nat /\ i <= Len(rows)
  BY <1>1
<1> QED
  BY <1>2 DEF Row

\* A place without a number is above every place of its attempt.
LEMMA NextPlaceIsNew ==
    ASSUME IngestTypeOK, Bounded, NEW a \in Nat
    PROVE  /\ NextPlace(a) \in Nat
           /\ \A i \in DOMAIN rows : rows[i].attempt = a => rows[i].sequence < NextPlace(a)
<1> DEFINE S == {0} \cup {rows[i].sequence + 1 : i \in {j \in DOMAIN rows : rows[j].attempt = a}}
<1>1. \A i \in DOMAIN rows : rows[i].sequence \in Nat
  BY RowFields
<1>2. PICK b \in Nat : \A i \in DOMAIN rows : rows[i].sequence <= b
  BY DEF Bounded
<1>3. S \in SUBSET Nat /\ S # {} /\ \A x \in S : x <= b + 1
  BY <1>1, <1>2
<1>4. NextPlace(a) = Max(S)
  BY DEF NextPlace
<1>5. \A i \in DOMAIN rows : rows[i].attempt = a => rows[i].sequence + 1 \in S
  OBVIOUS
<1> HIDE DEF S
<1>6. b + 1 \in Nat
  BY <1>2
<1>7. Max(S) \in S /\ \A y \in S : Max(S) >= y
  BY <1>3, <1>6, MaxIsGreatest
<1>8. ASSUME NEW i \in DOMAIN rows, rows[i].attempt = a
      PROVE  rows[i].sequence < NextPlace(a)
  <2>1. Max(S) >= rows[i].sequence + 1 /\ Max(S) \in Nat
    BY <1>3, <1>5, <1>7, <1>8
  <2> QED
    BY <1>1, <1>4, <2>1
<1> QED
  BY <1>3, <1>4, <1>7, <1>8

LEMMA RequestFields ==
    ASSUME IngestTypeOK, NEW q \in Req
    PROVE  /\ request[q] \in Request
           /\ request[q].at \in At /\ request[q].of \in Step \cup {Nothing, Video}
           /\ request[q].sequence \in Nat /\ request[q].row \in Nat
           /\ request[q].tries \in 0 .. Backoffs /\ request[q].failed \in BOOLEAN
<1>1. request[q] \in Request
  BY DEF IngestTypeOK
<1> QED
  BY <1>1 DEF Request

-----------------------------------------------------------------------------
(***************************************************************************)
(* What one request does to the state leaves what the others know true.    *)
(***************************************************************************)
LEMMA OthersKnow ==
    ASSUME IngestInv, NEW p \in Req, UNCHANGED numbers, request'[p] = request[p],
           DOMAIN rows \subseteq DOMAIN rows', bucket \subseteq bucket',
           unflagged \subseteq unflagged', videoKey => videoKey',
           request[p].at \in Held /\ request[p].of # Video =>
               /\ rows'[request[p].row] = rows[request[p].row]
               /\ request[p].row \in bucket' => request[p].row \in bucket
    PROVE  Holds(p)' /\ Numbered(p)' /\ StepIsTrue(p)' /\ VideoIsTrue(p)'
<1>0. Holds(p) /\ Numbered(p) /\ StepIsTrue(p) /\ VideoIsTrue(p)
  BY DEF IngestInv
<1>1. Holds(p)'
  BY <1>0 DEF Holds
<1>2. Numbered(p)'
  BY <1>0 DEF Numbered
<1>3. StepIsTrue(p)'
  BY <1>0 DEF StepIsTrue
<1>4. VideoIsTrue(p)'
  BY <1>0 DEF VideoIsTrue
<1> QED
  BY <1>1, <1>2, <1>3, <1>4

\* A request that goes on without touching a row or an object.
LEMMA QuietKeeps ==
    ASSUME IngestInv, NEW q \in Req, NEW r \in Request,
           UNCHANGED <<numbers, rows, videoKey, bucket, unflagged, overlapped>>,
           request' = [request EXCEPT ![q] = r],
           \/ r.at \in {"numbering", "recording"} /\ r.of \in Step /\ ~r.failed
           \/ r.at = "gone" \/ (r.at = "storing" /\ r.of = Video /\ ~r.failed),
           numbers => r.at # "numbering" /\ (r.at = "recording" => r.sequence = r.of.place)
    PROVE  IngestInv'
<1>1. request' \in [Req -> Request] /\ request'[q] = r
      /\ \A p \in Req \ {q} : request'[p] = request[p]
  BY DEF IngestInv, IngestTypeOK
<1>2. \A p \in Req \ {q} : Holds(p)' /\ Numbered(p)' /\ StepIsTrue(p)' /\ VideoIsTrue(p)'
  BY <1>1, OthersKnow
<1>3. Holds(q)' /\ Numbered(q)' /\ StepIsTrue(q)' /\ VideoIsTrue(q)'
  <2>1. Holds(q)'
    BY <1>1 DEF Holds, Held
  <2>2. Numbered(q)'
    BY <1>1 DEF Numbered
  <2>3. StepIsTrue(q)' /\ VideoIsTrue(q)'
    BY <1>1 DEF StepIsTrue, VideoIsTrue, Held
  <2> QED
    BY <2>1, <2>2, <2>3
<1>4. IngestTypeOK' /\ Bounded' /\ KeysAreStored' /\ PlacesAreKept'
  <2>1. IngestTypeOK'
    BY <1>1 DEF IngestInv, IngestTypeOK
  <2>2. Bounded'
    BY DEF IngestInv, Bounded
  <2>3. KeysAreStored' /\ PlacesAreKept'
    BY DEF IngestInv, KeysAreStored, PlacesAreKept
  <2> QED
    BY <2>1, <2>2, <2>3
<1>5. Apart'
  <2>1. ~ (request'[q].at \in Held /\ request'[q].of # Video)
    BY <1>1 DEF Held
  <2> QED
    BY <1>1, <2>1 DEF IngestInv, Apart
<1> QED
  BY <1>2, <1>3, <1>4, <1>5 DEF IngestInv

\* A request that goes on with the row or the video it holds.
LEMMA HolderKeeps ==
    ASSUME IngestInv, NEW q \in Req, NEW r \in Request,
           request[q].at \in {"storing", "attaching", "flagging"},
           request' = [request EXCEPT ![q] = r],
           r.of = request[q].of, r.row = request[q].row, r.at \in Held,
           UNCHANGED <<numbers, overlapped>>, rows' \in Seq(Row), DOMAIN rows' = DOMAIN rows,
           \A i \in DOMAIN rows : /\ rows'[i].step = rows[i].step
                                  /\ rows'[i].attempt = rows[i].attempt
                                  /\ rows'[i].sequence = rows[i].sequence
                                  /\ i # KeyOf(q) => rows'[i] = rows[i],
           bucket \subseteq bucket', bucket' \subseteq bucket \cup {KeyOf(q)},
           unflagged \subseteq unflagged', unflagged' \subseteq DOMAIN rows,
           videoKey' \in BOOLEAN, videoKey => videoKey',
           Holds(q)', StepIsTrue(q)', VideoIsTrue(q)', KeysAreStored'
    PROVE  IngestInv'
<1>1. request' \in [Req -> Request] /\ request'[q] = r
      /\ \A p \in Req \ {q} : request'[p] = request[p]
  BY DEF IngestInv, IngestTypeOK
<1>2. Holds(q)
  BY DEF IngestInv
<1>3. KeyOf(q) \in DOMAIN rows \cup {Video}
  BY <1>2 DEF KeyOf, IsVideo, Holds, Held
<1>4. ASSUME NEW p \in Req \ {q}
      PROVE  Holds(p)' /\ Numbered(p)' /\ StepIsTrue(p)' /\ VideoIsTrue(p)'
  <2>1. CASE request[p].at \in Held /\ request[p].of # Video
    <3>1. request[p].row \in DOMAIN rows /\ request[p].row \in Nat
      BY <2>1, RequestFields DEF IngestInv, Holds
    <3>2. request[p].row # KeyOf(q)
      BY <2>1, <3>1, StepAssumption DEF KeyOf, IsVideo, IngestInv, Apart, Held
    <3> QED
      BY <1>1, <2>1, <3>1, <3>2, OthersKnow
  <2>2. CASE ~ (request[p].at \in Held /\ request[p].of # Video)
    BY <1>1, <2>2, OthersKnow
  <2> QED
    BY <2>1, <2>2
<1>5. Numbered(q)'
  BY <1>1 DEF Numbered, Held
<1>6. IngestTypeOK'
  BY <1>1, <1>3 DEF IngestInv, IngestTypeOK
<1>7. Bounded'
  BY DEF IngestInv, Bounded
<1>8. PlacesAreKept'
  <2>1. PlacesAreKept
    BY DEF IngestInv
  <2> QED
    BY <2>1 DEF PlacesAreKept
<1>9. Apart'
  <2>1. Apart /\ (request'[q].at \in Held <=> request[q].at \in Held)
    BY <1>1 DEF IngestInv, Held
  <2> QED
    BY <1>1, <2>1 DEF Apart
<1> QED
  BY <1>4, <1>5, <1>6, <1>7, <1>8, <1>9 DEF IngestInv

-----------------------------------------------------------------------------
(***************************************************************************)
(* The actions of the ingest.                                              *)
(***************************************************************************)
LEMMA AttemptIsNat ==
    ASSUME IngestTypeOK, NEW step \in Step
    PROVE  AttemptOf(step) \in Nat
BY StepAssumption DEF AttemptOf, IngestTypeOK

LEMMA PostStepKeeps ==
    ASSUME IngestInv, NEW q \in Req, NEW step \in Step, PostStep(q, step)
    PROVE  IngestInv'
<1> DEFINE r == [request[q] EXCEPT !.at = IF numbers THEN "recording" ELSE "numbering",
                                   !.of = step, !.sequence = step.place]
<1>1. request[q] \in Request /\ step.place \in Nat /\ ~request[q].failed
  BY StepAssumption, RequestFields DEF IngestInv, PostStep, Holds
<1>2. r \in Request /\ r.at = (IF numbers THEN "recording" ELSE "numbering")
      /\ r.of = step /\ r.sequence = step.place /\ ~r.failed
  BY <1>1 DEF Request, At
<1>3. request' = [request EXCEPT ![q] = r]
  BY DEF PostStep, IngestInv, IngestTypeOK
<1>4. UNCHANGED <<numbers, rows, videoKey, bucket, unflagged, overlapped>>
  BY DEF PostStep
<1> HIDE DEF r
<1> QED
  BY <1>2, <1>3, <1>4, QuietKeeps

LEMMA NumberKeeps ==
    ASSUME IngestInv, NEW q \in Req, Number(q)
    PROVE  IngestInv'
<1> DEFINE n == NextPlace(AttemptOf(request[q].of))
           r == [request[q] EXCEPT !.at = "recording", !.sequence = n]
<1>1. request[q].at = "numbering" /\ request[q].of \in Step /\ ~numbers /\ ~request[q].failed
  BY DEF Number, IngestInv, Holds, Numbered, IngestTypeOK
<1>2. n \in Nat
  BY <1>1, AttemptIsNat, NextPlaceIsNew DEF IngestInv
<1>3. request' = [request EXCEPT ![q] = r]
  BY DEF Number, IngestInv, IngestTypeOK
<1> HIDE DEF n
<1>4. request[q] \in Request
  BY RequestFields DEF IngestInv
<1>5. r \in Request /\ r.at = "recording" /\ r.of \in Step /\ ~r.failed
  BY <1>1, <1>2, <1>4 DEF Request, At
<1>6. UNCHANGED <<numbers, rows, videoKey, bucket, unflagged, overlapped>>
  BY DEF Number
<1> HIDE DEF r
<1> QED
  BY <1>1, <1>3, <1>5, <1>6, QuietKeeps

LEMMA PutVideoKeeps ==
    ASSUME IngestInv, NEW q \in Req, PutVideo(q)
    PROVE  IngestInv'
<1> DEFINE r == [request[q] EXCEPT !.at = "storing", !.of = Video]
<1>1. request[q] \in Request /\ ~request[q].failed
  BY RequestFields DEF IngestInv, PutVideo, Holds
<1>2. r \in Request /\ r.at = "storing" /\ r.of = Video /\ ~r.failed
  BY <1>1 DEF Request, At
<1>3. request' = [request EXCEPT ![q] = r]
  BY DEF PutVideo, IngestInv, IngestTypeOK
<1>4. UNCHANGED <<numbers, rows, videoKey, bucket, unflagged, overlapped>>
  BY DEF PutVideo
<1> HIDE DEF r
<1> QED
  BY <1>2, <1>3, <1>4, QuietKeeps

LEMMA BlankIsRequest ==
    Blank("gone") \in Request /\ Blank("gone").at = "gone"
BY DEF Blank, Request, At, Backoffs

LEMMA CutKeeps ==
    ASSUME IngestInv, NEW q \in Req, Cut(q)
    PROVE  IngestInv'
BY BlankIsRequest, QuietKeeps DEF Cut

\* The insert appends a row nobody holds yet; its number, if it has to be given
\* one, is above all others but where another row came in between.
LEMMA RecordKeeps ==
    ASSUME IngestInv, NEW q \in Req, NEW done \in BOOLEAN, NEW heard \in BOOLEAN,
           NEW shot \in BOOLEAN, Record(q, done, heard, shot)
    PROVE  IngestInv'
<1> DEFINE row == [step |-> request[q].of, attempt |-> AttemptOf(request[q].of),
                   sequence |-> SequenceOf(q), screenshot |-> FALSE, failed |-> FALSE]
           n == Len(rows) + 1
<1>1. /\ request[q].at = "recording" /\ (heard => done)
      /\ rows' = (IF done THEN Append(rows, row) ELSE rows)
      /\ overlapped' = (overlapped \/ (done /\ ~numbers /\ row.sequence # NextPlace(row.attempt)))
      /\ UNCHANGED <<numbers, videoKey, bucket, unflagged>>
  BY DEF Record
<1>2. /\ request[q] \in Request /\ request[q].of \in Step /\ request[q].sequence \in Nat
      /\ ~request[q].failed
      /\ numbers => request[q].sequence = request[q].of.place
  BY <1>1, RequestFields DEF IngestInv, Holds, Numbered
<1>3. /\ row \in Row /\ row.step = request[q].of /\ row.attempt = AttemptOf(request[q].of)
      /\ row.sequence = request[q].sequence /\ ~row.screenshot /\ ~row.failed
      /\ row.attempt \in Nat
  BY <1>2, AttemptIsNat DEF IngestInv, Row, SequenceOf
<1>4. /\ rows \in Seq(Row) /\ Len(rows) \in Nat /\ DOMAIN rows = 1 .. Len(rows)
      /\ n \notin DOMAIN rows /\ n \notin bucket
  <2>1. rows \in Seq(Row) /\ Len(rows) \in Nat /\ DOMAIN rows = 1 .. Len(rows)
    BY DEF IngestInv, IngestTypeOK
  <2>2. n \notin DOMAIN rows /\ n \in Nat
    BY <2>1
  <2> QED
    BY <2>1, <2>2, StepAssumption DEF IngestInv, IngestTypeOK
<1> HIDE DEF row
<1>5. /\ rows' \in Seq(Row) /\ DOMAIN rows \subseteq DOMAIN rows'
      /\ \A i \in DOMAIN rows : rows'[i] = rows[i]
  <2>1. CASE done
    <3>1. rows' = Append(rows, row)
      BY <1>1, <2>1
    <3> QED
      BY <1>3, <1>4, <3>1
  <2>2. CASE ~done
    BY <1>1, <1>4, <2>2
  <2> QED
    BY <2>1, <2>2
<1>6. \A i \in DOMAIN rows' \ DOMAIN rows : i = n /\ rows'[i] = row /\ done
  <2>1. CASE done
    <3>1. rows' = Append(rows, row)
      BY <1>1, <2>1
    <3> QED
      BY <1>3, <1>4, <2>1, <3>1
  <2>2. CASE ~done
    BY <1>1, <2>2
  <2> QED
    BY <2>1, <2>2
<1>7. heard => Len(rows') = n /\ n \in DOMAIN rows' /\ rows'[n] = row
  <2>1. heard => rows' = Append(rows, row)
    BY <1>1
  <2> QED
    BY <1>3, <1>4, <2>1
<1> DEFINE r == IF heard
                THEN [request[q] EXCEPT !.at = IF shot THEN "storing" ELSE "answered",
                                        !.row = Len(rows'), !.sequence = 0]
                ELSE Blank("gone")
<1>8. request' = [request EXCEPT ![q] = r]
  BY DEF Record, IngestInv, IngestTypeOK
<1>9. /\ r \in Request
      /\ heard => /\ r.at \in {"storing", "answered"} /\ r.of = request[q].of
                  /\ r.row = n /\ ~r.failed
      /\ ~heard => r.at = "gone"
  <2>1. CASE heard
    <3> DEFINE at == IF shot THEN "storing" ELSE "answered"
    <3>1. r = [request[q] EXCEPT !.at = at, !.row = n, !.sequence = 0]
      BY <1>7, <2>1
    <3>2. n \in Nat /\ at \in At /\ at \in {"storing", "answered"}
      BY <1>4 DEF At
    <3> HIDE DEF n, r, at
    <3>3. r \in Request /\ r.at = at /\ r.row = n /\ r.of = request[q].of
          /\ r.failed = request[q].failed
      BY <1>2, <3>1, <3>2 DEF Request
    <3> QED
      BY <1>2, <2>1, <3>2, <3>3
  <2>2. CASE ~heard
    BY <2>2, BlankIsRequest
  <2> QED
    BY <2>1, <2>2
<1> HIDE DEF r
<1>10. request' \in [Req -> Request] /\ request'[q] = r
       /\ \A p \in Req \ {q} : request'[p] = request[p]
  BY <1>8, <1>9 DEF IngestInv, IngestTypeOK
<1>11. \A p \in Req \ {q} : Holds(p)' /\ Numbered(p)' /\ StepIsTrue(p)' /\ VideoIsTrue(p)'
  <2>1. \A p \in Req : request[p].at \in Held /\ request[p].of # Video =>
            request[p].row \in DOMAIN rows
    BY DEF IngestInv, Holds
  <2> QED
    BY <1>1, <1>5, <1>10, <2>1, OthersKnow
<1>12. Holds(q)' /\ Numbered(q)' /\ StepIsTrue(q)' /\ VideoIsTrue(q)'
  <2>1. Holds(q)'
    BY <1>2, <1>7, <1>9, <1>10 DEF Holds, Held
  <2>2. Numbered(q)'
    BY <1>9, <1>10 DEF Numbered
  <2>3. StepIsTrue(q)'
    BY <1>1, <1>3, <1>4, <1>7, <1>9, <1>10 DEF StepIsTrue, Held
  <2>4. VideoIsTrue(q)'
    BY <1>2, <1>9, <1>10, StepAssumption DEF VideoIsTrue
  <2> QED
    BY <2>1, <2>2, <2>3, <2>4
<1>13. IngestTypeOK'
  BY <1>1, <1>5, <1>10 DEF IngestInv, IngestTypeOK
<1>14. Bounded'
  <2>1. PICK b \in Nat : \A i \in DOMAIN rows : rows[i].sequence <= b
    BY DEF IngestInv, Bounded
  <2>2. \A i \in DOMAIN rows : rows[i].sequence \in Nat
    BY RowFields DEF IngestInv
  <2>3. \A i \in DOMAIN rows' : rows'[i].sequence <= b + row.sequence
    BY <1>2, <1>3, <1>5, <1>6, <2>1, <2>2
  <2>4. b + row.sequence \in Nat
    BY <1>2, <1>3, <2>1
  <2> QED
    BY <2>3, <2>4 DEF Bounded
<1>15. Apart'
  <2>1. ASSUME NEW p \in Req \ {q}, request[p].at \in Held, request[p].of # Video
        PROVE  request[p].row # n
    BY <1>4, <2>1 DEF IngestInv, Holds
  <2>2. r.at \in Held => r.row = n
    BY <1>9 DEF Held
  <2> QED
    BY <1>10, <2>1, <2>2 DEF IngestInv, Apart
<1>16. KeysAreStored'
  <2>1. ASSUME NEW i \in DOMAIN rows', rows'[i].screenshot
        PROVE  i \in bucket'
    <3>1. i \in DOMAIN rows
      BY <1>3, <1>6, <2>1
    <3> QED
      BY <1>1, <1>5, <2>1, <3>1 DEF IngestInv, KeysAreStored
  <2> QED
    BY <1>1, <2>1 DEF IngestInv, KeysAreStored
<1>17. PlacesAreKept'
  <2>1. PlacesAreKept
    BY DEF IngestInv
  <2>2. ASSUME numbers, NEW i \in DOMAIN rows'
        PROVE  rows'[i].attempt = rows'[i].step.attempt /\ rows'[i].sequence = rows'[i].step.place
    <3>1. CASE i \in DOMAIN rows
      BY <1>5, <2>1, <2>2, <3>1 DEF PlacesAreKept
    <3>2. CASE i \notin DOMAIN rows
      BY <1>2, <1>3, <1>6, <2>2, <3>2 DEF AttemptOf
    <3> QED
      BY <3>1, <3>2
  <2>3. ASSUME ~numbers, NEW i \in DOMAIN rows'
        PROVE  rows'[i].attempt = 0
    <3>1. CASE i \in DOMAIN rows
      BY <1>5, <2>1, <2>3, <3>1 DEF PlacesAreKept
    <3>2. CASE i \notin DOMAIN rows
      BY <1>3, <1>6, <2>3, <3>2 DEF AttemptOf
    <3> QED
      BY <3>1, <3>2
  <2>4. ASSUME ~numbers, ~overlapped', NEW i \in DOMAIN rows', NEW j \in DOMAIN rows', i < j
        PROVE  rows'[i].sequence < rows'[j].sequence
    <3>1. i \in DOMAIN rows
      <4>1. i \in Nat /\ j \in Nat
        BY <1>5
      <4> QED
        BY <1>4, <1>6, <2>4, <4>1
    <3>2. CASE j \in DOMAIN rows
      BY <1>1, <1>5, <2>1, <2>4, <3>1, <3>2 DEF PlacesAreKept
    <3>3. CASE j \notin DOMAIN rows
      <4>1. rows'[j] = row /\ row.sequence = NextPlace(row.attempt)
        BY <1>1, <1>6, <2>4, <3>3
      <4>2. row.attempt = 0 /\ rows[i].attempt = 0
        BY <1>3, <2>1, <2>4, <3>1 DEF AttemptOf, PlacesAreKept
      <4>3. rows[i].sequence < NextPlace(0)
        BY <3>1, <4>2, NextPlaceIsNew DEF IngestInv
      <4> QED
        BY <1>5, <3>1, <4>1, <4>2, <4>3
    <3> QED
      BY <3>2, <3>3
  <2> QED
    BY <1>1, <2>2, <2>3, <2>4 DEF PlacesAreKept
<1> QED
  BY <1>11, <1>12, <1>13, <1>14, <1>15, <1>16, <1>17 DEF IngestInv

LEMMA RowUpdate ==
    ASSUME IngestTypeOK, NEW i \in DOMAIN rows, NEW row \in Row
    PROVE  LET s == [rows EXCEPT ![i] = row] IN
           /\ s \in Seq(Row) /\ DOMAIN s = DOMAIN rows
           /\ s[i] = row /\ \A j \in DOMAIN rows \ {i} : s[j] = rows[j]
<1>1. rows \in Seq(Row)
  BY DEF IngestTypeOK
<1> HIDE DEF Row
<1> QED
  BY <1>1

\* A request with its retries set back.
LEMMA Fields ==
    ASSUME NEW r \in Request, NEW at \in At, NEW failed \in BOOLEAN
    PROVE  LET s == [r EXCEPT !.at = at, !.failed = failed, !.tries = 0] IN
           /\ s \in Request /\ s.at = at /\ s.failed = failed
           /\ s.of = r.of /\ s.row = r.row
<1>1. 0 \in 0 .. Backoffs
  BY DEF Backoffs
<1> DEFINE tries == 0 .. Backoffs
<1>2. Request = [at : At, of : Step \cup {Nothing, Video}, sequence : Nat, row : Nat,
                 tries : tries, failed : BOOLEAN]
  BY DEF Request
<1>3. 0 \in tries
  BY <1>1
<1> HIDE DEF tries
<1> QED
  BY <1>2, <1>3

LEMMA CaughtIs ==
    ASSUME IngestTypeOK, NEW q \in Req
    PROVE  \E r \in Request :
               /\ Caught(q) = [request EXCEPT ![q] = r]
               /\ r.at = IF IsVideo(q) THEN "answered" ELSE "flagging"
               /\ r.failed /\ r.of = request[q].of /\ r.row = request[q].row
<1> DEFINE at == IF IsVideo(q) THEN "answered" ELSE "flagging"
           r == [request[q] EXCEPT !.at = at, !.failed = TRUE, !.tries = 0]
<1>1. request[q] \in Request
  BY RequestFields
<1>2. at \in At
  BY DEF At
<1>3. Caught(q) = [request EXCEPT ![q] = r]
  BY DEF Caught, IngestTypeOK
<1> HIDE DEF at
<1>4. /\ r \in Request /\ r.at = at /\ r.failed
      /\ r.of = request[q].of /\ r.row = request[q].row
  BY <1>1, <1>2, Fields
<1> HIDE DEF r
<1> QED
  BY <1>3, <1>4 DEF at

\* Only what was stored is attached.
LEMMA StoreKeeps ==
    ASSUME IngestInv, NEW q \in Req, NEW done \in BOOLEAN, NEW heard \in BOOLEAN,
           Store(q, done, heard)
    PROVE  IngestInv'
<1>1. /\ request[q].at = "storing" /\ (heard => done)
      /\ bucket' = (IF done THEN bucket \cup {KeyOf(q)} ELSE bucket)
      /\ UNCHANGED <<numbers, rows, videoKey, unflagged, overlapped>>
  BY DEF Store
<1>2. Holds(q) /\ StepIsTrue(q) /\ ~request[q].failed
  BY <1>1 DEF IngestInv, Holds
<1>3. PICK r \in Request :
          /\ request' = [request EXCEPT ![q] = r]
          /\ r.of = request[q].of /\ r.row = request[q].row
          /\ \/ heard /\ r.at = "attaching" /\ ~r.failed
             \/ ~heard /\ r.at = "storing" /\ ~r.failed
             \/ r.at = "answered" /\ IsVideo(q) /\ r.failed
             \/ r.at = "flagging" /\ ~IsVideo(q) /\ r.failed
  <2>0. request[q] \in Request
    BY RequestFields DEF IngestInv
  <2>1. CASE heard
    <3> DEFINE r == [request[q] EXCEPT !.at = "attaching", !.failed = FALSE, !.tries = 0]
    <3>1. request' = [request EXCEPT ![q] = r]
      <4>1. request' = [request EXCEPT ![q] = [request[q] EXCEPT !.at = "attaching", !.tries = 0]]
        BY <2>1 DEF Store, IngestInv, IngestTypeOK
      <4>2. request[q].failed = FALSE
        BY <1>2, RequestFields DEF IngestInv
      <4>3. [request[q] EXCEPT !.at = "attaching", !.tries = 0] = r
        BY <2>0, <4>2 DEF Request
      <4> QED
        BY <4>1, <4>3
    <3>2. r \in Request /\ r.at = "attaching" /\ r.of = request[q].of /\ r.row = request[q].row
          /\ r.failed = FALSE
      <4>1. "attaching" \in At
        BY DEF At
      <4> QED
        BY <2>0, <4>1, Fields
    <3> HIDE DEF r
    <3> QED
      BY <1>2, <2>1, <3>1, <3>2
  <2>2. CASE ~heard /\ request[q].tries < Backoffs
    <3> DEFINE r == [request[q] EXCEPT !.tries = @ + 1]
    <3>1. request' = [request EXCEPT ![q] = r]
      BY <2>2 DEF Store, NotStored, IngestInv, IngestTypeOK
    <3>2. r \in Request /\ r.at = request[q].at /\ r.of = request[q].of
          /\ r.row = request[q].row /\ r.failed = request[q].failed
      BY <2>0, <2>2 DEF Request, Backoffs
    <3> HIDE DEF r
    <3> QED
      BY <1>1, <1>2, <2>2, <3>1, <3>2
  <2>3. CASE ~heard /\ ~(request[q].tries < Backoffs)
    <3>1. request' = Caught(q)
      BY <2>3 DEF Store, NotStored
    <3> QED
      BY <2>3, <3>1, CaughtIs DEF IngestInv
  <2> QED
    BY <2>1, <2>2, <2>3
<1>4. request'[q] = r
  BY <1>3 DEF IngestInv, IngestTypeOK
<1>5. Holds(q)'
  BY <1>1, <1>2, <1>3, <1>4 DEF Holds, Held, IsVideo
<1>6. StepIsTrue(q)'
  BY <1>1, <1>2, <1>3, <1>4 DEF StepIsTrue, Held, IsVideo, KeyOf
<1>7. VideoIsTrue(q)'
  BY <1>1, <1>3, <1>4 DEF VideoIsTrue, IsVideo, KeyOf
<1>8. KeysAreStored'
  BY <1>1 DEF IngestInv, KeysAreStored
<1>9. /\ rows \in Seq(Row) /\ unflagged \subseteq DOMAIN rows /\ videoKey \in BOOLEAN
      /\ r.at \in Held
  BY <1>3 DEF IngestInv, IngestTypeOK, Held
<1> QED
  BY <1>1, <1>3, <1>5, <1>6, <1>7, <1>8, <1>9, HolderKeeps

\* The key is written into the row the request holds, or of the video.
LEMMA AttachKeeps ==
    ASSUME IngestInv, NEW q \in Req, NEW done \in BOOLEAN, NEW heard \in BOOLEAN,
           Attach(q, done, heard)
    PROVE  IngestInv'
<1>1. /\ request[q].at = "attaching" /\ (heard => done)
      /\ videoKey' = (videoKey \/ (done /\ IsVideo(q)))
      /\ UNCHANGED <<numbers, bucket, unflagged, overlapped>>
  BY DEF Attach
<1>2. Holds(q) /\ StepIsTrue(q) /\ VideoIsTrue(q) /\ ~request[q].failed /\ KeysAreStored
      /\ IngestTypeOK
  BY <1>1 DEF IngestInv, Holds
<1>3. PICK r \in Request :
          /\ request' = [request EXCEPT ![q] = r]
          /\ r.of = request[q].of /\ r.row = request[q].row
          /\ \/ heard /\ r.at = "answered" /\ ~r.failed
             \/ r.at = "answered" /\ IsVideo(q) /\ r.failed
             \/ r.at = "flagging" /\ ~IsVideo(q) /\ r.failed
  <2>0. request[q] \in Request
    BY <1>2, RequestFields
  <2>1. CASE heard
    <3> DEFINE r == [request[q] EXCEPT !.at = "answered"]
    <3>1. request' = [request EXCEPT ![q] = r]
      BY <1>2, <2>1 DEF Attach, IngestTypeOK
    <3>2. r \in Request /\ r.at = "answered" /\ r.of = request[q].of /\ r.row = request[q].row
          /\ r.failed = request[q].failed
      BY <2>0 DEF Request, At
    <3> HIDE DEF r
    <3> QED
      BY <1>2, <2>1, <3>1, <3>2
  <2>2. CASE ~heard
    BY <1>2, <2>2, CaughtIs DEF Attach
  <2> QED
    BY <2>1, <2>2
<1>4. request'[q] = r
  BY <1>2, <1>3 DEF IngestTypeOK
<1>5. /\ rows' \in Seq(Row) /\ DOMAIN rows' = DOMAIN rows
      /\ \A i \in DOMAIN rows : /\ rows'[i].step = rows[i].step
                                /\ rows'[i].attempt = rows[i].attempt
                                /\ rows'[i].sequence = rows[i].sequence
                                /\ rows'[i].failed = rows[i].failed
                                /\ i # KeyOf(q) => rows'[i] = rows[i]
                                /\ i = KeyOf(q) /\ ~IsVideo(q) /\ done => rows'[i].screenshot
  <2>1. CASE done /\ ~IsVideo(q)
    <3> DEFINE i == request[q].row
               row == [rows[i] EXCEPT !.screenshot = TRUE]
    <3>1. i \in DOMAIN rows /\ i = KeyOf(q)
      BY <1>1, <1>2, <2>1 DEF Holds, Held, IsVideo, KeyOf
    <3>2. rows' = [rows EXCEPT ![i] = row]
      BY <2>1, <3>1 DEF Attach
    <3> HIDE DEF i
    <3>3. rows[i] \in Row
      BY <1>2, <3>1, RowFields
    <3>4. /\ row \in Row /\ row.step = rows[i].step /\ row.attempt = rows[i].attempt
          /\ row.sequence = rows[i].sequence /\ row.failed = rows[i].failed /\ row.screenshot
      BY <3>3 DEF Row
    <3> HIDE DEF row
    <3>5. /\ rows' \in Seq(Row) /\ DOMAIN rows' = DOMAIN rows
          /\ rows'[i] = row /\ \A j \in DOMAIN rows \ {i} : rows'[j] = rows[j]
      BY <1>2, <3>1, <3>2, <3>4, RowUpdate
    <3> QED
      BY <3>1, <3>4, <3>5
  <2>2. CASE ~(done /\ ~IsVideo(q))
    <3>1. rows' = rows /\ rows \in Seq(Row)
      BY <1>2, <2>2 DEF Attach, IngestTypeOK
    <3> QED
      BY <2>2, <3>1
  <2> QED
    BY <2>1, <2>2
<1>6. Holds(q)'
  BY <1>1, <1>2, <1>3, <1>4, <1>5 DEF Holds, Held, IsVideo
<1>7. StepIsTrue(q)'
  <2>1. CASE request[q].of # Video
    <3> DEFINE i == request[q].row
    <3>1. i \in DOMAIN rows /\ i = KeyOf(q) /\ ~IsVideo(q) /\ ~rows[i].failed /\ i \in bucket
      BY <1>1, <1>2, <2>1 DEF Holds, StepIsTrue, Held, IsVideo, KeyOf
    <3>2. rows'[i].failed = rows[i].failed /\ (~IsVideo(q) /\ done => rows'[i].screenshot)
      <4> HIDE DEF i
      <4> QED
        BY <1>5, <3>1
    <3>3. ~rows'[i].failed /\ (done => rows'[i].screenshot) /\ i \in bucket'
      BY <1>1, <3>1, <3>2
    <3> QED
      BY <1>1, <1>3, <1>4, <3>1, <3>3 DEF StepIsTrue, Held
  <2>2. CASE request[q].of = Video
    BY <1>3, <1>4, <2>2 DEF StepIsTrue
  <2> QED
    BY <2>1, <2>2
<1>8. VideoIsTrue(q)'
  BY <1>1, <1>2, <1>3, <1>4 DEF VideoIsTrue, IsVideo
<1>9. KeysAreStored'
  <2>1. KeyOf(q) \in bucket
    BY <1>1, <1>2 DEF StepIsTrue, VideoIsTrue, Held, KeyOf, IsVideo
  <2>2. videoKey' => Video \in bucket
    BY <1>1, <1>2, <2>1 DEF KeysAreStored, KeyOf
  <2>3. ASSUME NEW i \in DOMAIN rows, rows'[i].screenshot
        PROVE  i \in bucket
    <3>1. CASE i = KeyOf(q)
      BY <2>1, <3>1
    <3>2. CASE i # KeyOf(q)
      <4>1. rows'[i] = rows[i]
        BY <1>5, <3>2
      <4> QED
        BY <1>2, <2>3, <4>1 DEF KeysAreStored
    <3> QED
      BY <3>1, <3>2
  <2> QED
    BY <1>1, <1>5, <2>2, <2>3 DEF KeysAreStored
<1>10. /\ unflagged \subseteq unflagged' /\ unflagged' \subseteq DOMAIN rows
       /\ videoKey' \in BOOLEAN /\ (videoKey => videoKey') /\ r.at \in Held
       /\ bucket \subseteq bucket' /\ bucket' \subseteq bucket \cup {KeyOf(q)}
       /\ request[q].at \in {"storing", "attaching", "flagging"}
       /\ UNCHANGED <<numbers, overlapped>>
  BY <1>1, <1>2, <1>3 DEF IngestTypeOK, Held
<1>11. \A i \in DOMAIN rows : /\ rows'[i].step = rows[i].step
                              /\ rows'[i].attempt = rows[i].attempt
                              /\ rows'[i].sequence = rows[i].sequence
                              /\ i # KeyOf(q) => rows'[i] = rows[i]
  BY <1>5
<1>12. rows' \in Seq(Row) /\ DOMAIN rows' = DOMAIN rows
  BY <1>5
<1> QED
  BY <1>3, <1>6, <1>7, <1>8, <1>9, <1>10, <1>11, <1>12, HolderKeeps

\* The flag is written into that row, or noted not to be.
LEMMA FlagKeeps ==
    ASSUME IngestInv, NEW q \in Req, NEW done \in BOOLEAN, Flag(q, done)
    PROVE  IngestInv'
<1> DEFINE i == request[q].row
           r == [request[q] EXCEPT !.at = "answered"]
<1>1. /\ request[q].at = "flagging"
      /\ rows' = (IF done THEN [rows EXCEPT ![i].failed = TRUE] ELSE rows)
      /\ unflagged' = (IF done THEN unflagged ELSE unflagged \cup {i})
      /\ UNCHANGED <<numbers, videoKey, bucket, overlapped>>
  BY DEF Flag
<1>2. Holds(q) /\ IngestTypeOK /\ KeysAreStored
  BY DEF IngestInv
<1>3. i \in DOMAIN rows /\ i = KeyOf(q) /\ request[q].of # Video /\ request[q].failed
  BY <1>1, <1>2 DEF Holds, Held, KeyOf, IsVideo
<1>4. request' = [request EXCEPT ![q] = r]
  BY <1>2 DEF Flag, IngestTypeOK
<1>5. request[q] \in Request
  BY <1>2, RequestFields
<1>6. /\ r \in Request /\ r.at = "answered" /\ r.of = request[q].of
      /\ r.row = i /\ r.failed = request[q].failed
  BY <1>5 DEF Request, At
<1> HIDE DEF r
<1>7. request'[q] = r
  BY <1>2, <1>4 DEF IngestTypeOK
<1>8. /\ rows' \in Seq(Row) /\ DOMAIN rows' = DOMAIN rows
      /\ done => rows'[i].failed
      /\ \A j \in DOMAIN rows : /\ rows'[j].step = rows[j].step
                                /\ rows'[j].attempt = rows[j].attempt
                                /\ rows'[j].sequence = rows[j].sequence
                                /\ rows'[j].screenshot = rows[j].screenshot
                                /\ j # KeyOf(q) => rows'[j] = rows[j]
  <2>1. CASE done
    <3> DEFINE row == [rows[i] EXCEPT !.failed = TRUE]
    <3>1. rows' = [rows EXCEPT ![i] = row]
      BY <1>1, <1>3, <2>1
    <3> HIDE DEF i
    <3>2. rows[i] \in Row
      BY <1>2, <1>3, RowFields
    <3>3. /\ row \in Row /\ row.step = rows[i].step /\ row.attempt = rows[i].attempt
          /\ row.sequence = rows[i].sequence /\ row.screenshot = rows[i].screenshot /\ row.failed
      BY <3>2 DEF Row
    <3> HIDE DEF row
    <3>4. /\ rows' \in Seq(Row) /\ DOMAIN rows' = DOMAIN rows
          /\ rows'[i] = row /\ \A j \in DOMAIN rows \ {i} : rows'[j] = rows[j]
      BY <1>2, <1>3, <3>1, <3>3, RowUpdate
    <3> QED
      BY <1>3, <3>3, <3>4
  <2>2. CASE ~done
    <3>1. rows' = rows /\ rows \in Seq(Row)
      BY <1>1, <1>2, <2>2 DEF IngestTypeOK
    <3> QED
      BY <2>2, <3>1
  <2> QED
    BY <2>1, <2>2
<1>9. Holds(q)'
  BY <1>2, <1>3, <1>6, <1>7, <1>8, <1>1 DEF Holds, Held
<1>10. StepIsTrue(q)'
  BY <1>1, <1>3, <1>6, <1>7, <1>8 DEF StepIsTrue, Held
<1>11. VideoIsTrue(q)'
  BY <1>3, <1>6, <1>7 DEF VideoIsTrue
<1>12. KeysAreStored'
  BY <1>1, <1>2, <1>8 DEF KeysAreStored
<1>13. /\ unflagged \subseteq unflagged' /\ unflagged' \subseteq DOMAIN rows
       /\ videoKey' \in BOOLEAN /\ (videoKey => videoKey') /\ r.at \in Held
       /\ bucket \subseteq bucket' /\ bucket' \subseteq bucket \cup {KeyOf(q)}
       /\ request[q].at \in {"storing", "attaching", "flagging"}
       /\ UNCHANGED <<numbers, overlapped>>
  BY <1>1, <1>2, <1>3, <1>6 DEF IngestTypeOK, Held
<1>14. \A j \in DOMAIN rows : /\ rows'[j].step = rows[j].step
                              /\ rows'[j].attempt = rows[j].attempt
                              /\ rows'[j].sequence = rows[j].sequence
                              /\ j # KeyOf(q) => rows'[j] = rows[j]
  BY <1>8
<1>15. r \in Request /\ r.of = request[q].of /\ r.row = request[q].row
  BY <1>6
<1>16. rows' \in Seq(Row) /\ DOMAIN rows' = DOMAIN rows
  BY <1>8
<1> HIDE DEF i
<1> QED
  BY <1>4, <1>9, <1>10, <1>11, <1>12, <1>13, <1>14, <1>15, <1>16, HolderKeeps

-----------------------------------------------------------------------------
LEMMA IngestBegins ==
    IngestInit => IngestInv
<1> SUFFICES ASSUME IngestInit PROVE IngestInv
  OBVIOUS
<1>1. /\ Blank("free") \in Request /\ Blank("free").at = "free"
      /\ Blank("free").failed = FALSE /\ Blank("free").of = Nothing
  BY DEF Blank, Request, At, Backoffs
<1>2. \A q \in Req : request[q] = Blank("free")
  BY DEF IngestInit
<1>3. IngestTypeOK
  <2>1. /\ numbers \in BOOLEAN /\ videoKey \in BOOLEAN /\ overlapped \in BOOLEAN
        /\ unflagged \subseteq DOMAIN rows /\ bucket \subseteq DOMAIN rows \cup {Video}
    BY DEF IngestInit
  <2>2. rows \in Seq(Row)
    <3>1. rows = <<>>
      BY DEF IngestInit
    <3> HIDE DEF Row
    <3> QED
      BY <3>1
  <2>3. request \in [Req -> Request]
    BY <1>1 DEF IngestInit
  <2> QED
    BY <2>1, <2>2, <2>3 DEF IngestTypeOK
<1>4. Bounded
  BY DEF IngestInit, Bounded
<1>5. \A q \in Req : Holds(q) /\ Numbered(q) /\ StepIsTrue(q)
  BY <1>1, <1>2 DEF Holds, Numbered, StepIsTrue, Held
<1>6. \A q \in Req : VideoIsTrue(q)
  BY <1>1, <1>2 DEF VideoIsTrue
<1>7. Apart
  BY <1>1, <1>2 DEF Apart, Held
<1>8. KeysAreStored /\ PlacesAreKept
  BY DEF IngestInit, KeysAreStored, PlacesAreKept
<1> QED
  BY <1>3, <1>4, <1>5, <1>6, <1>7, <1>8 DEF IngestInv

LEMMA IngestKeeps ==
    IngestInv /\ [IngestNext]_ingestVars => IngestInv'
<1> SUFFICES ASSUME IngestInv, [IngestNext]_ingestVars PROVE IngestInv'
  OBVIOUS
<1>1. ASSUME NEW q \in Req, Ingest(q) PROVE IngestInv'
  BY <1>1, PostStepKeeps, PutVideoKeeps, NumberKeeps, CutKeeps, RecordKeeps, StoreKeeps,
     AttachKeeps, FlagKeeps DEF Ingest
<1>2. CASE UNCHANGED ingestVars
  <2>1. UNCHANGED <<numbers, rows, videoKey, bucket, request, unflagged, overlapped>>
    BY <1>2 DEF ingestVars
  <2>2. IngestTypeOK' /\ Bounded' /\ Apart' /\ KeysAreStored' /\ PlacesAreKept'
    BY <2>1 DEF IngestInv, IngestTypeOK, Bounded, Apart, KeysAreStored, PlacesAreKept
  <2>3. \A q \in Req : Holds(q)' /\ Numbered(q)' /\ StepIsTrue(q)' /\ VideoIsTrue(q)'
    BY <2>1 DEF IngestInv, Holds, Numbered, StepIsTrue, VideoIsTrue
  <2> QED
    BY <2>2, <2>3 DEF IngestInv
<1> QED
  BY <1>1, <1>2 DEF IngestNext

\* An object that is stored stays: nothing of the ingest deletes one.
LEMMA BucketGrows ==
    IngestNext => bucket \subseteq bucket'
BY DEF IngestNext, Ingest, PostStep, PutVideo, Number, Cut, Record, Store, Attach, Flag

-----------------------------------------------------------------------------
(***************************************************************************)
(* The pages: what one has was stored when it was read, and whoever has    *)
(* been admitted by a share has held it.                                   *)
(***************************************************************************)
PageIsStored == page.shots \subseteq bucket /\ (page.video => Video \in bucket)

HolderIsInvited == secret \in live \cap OwnShare => invited

Inv ==
    /\ IngestInv /\ TypeOK /\ PageIsStored /\ HolderIsInvited
    /\ ShareShowsItsRunOnly

LEMMA ShotsAreStored ==
    ASSUME IngestInv
    PROVE  Shots \subseteq bucket /\ Shots \subseteq Nat
BY RowFields DEF Shots, Listed, IngestInv, KeysAreStored

\* A new page of the same reader.
LEMMA PageKeeps ==
    ASSUME Inv, NEW new \in Page, page' = new,
           UNCHANGED <<ingestVars, reader, granted, live, secret, invited>>,
           new.shots \subseteq bucket, new.video => Video \in bucket,
           new.run = "loaded" => page.run = "loaded" \/ MayRead,
           new.scenarios => page.scenarios \/ MayRead
    PROVE  Inv'
<1>1. UNCHANGED <<bucket>> /\ IngestInv' /\ IngestTypeOK'
  BY IngestKeeps DEF Inv, ingestVars, IngestInv
<1>2. TypeOK' /\ PageIsStored' /\ HolderIsInvited'
  BY <1>1 DEF Inv, TypeOK, PageIsStored, HolderIsInvited
<1>3. ShareShowsItsRunOnly'
  <2>1. PlaneOf' = PlaneOf
    BY DEF PlaneOf
  <2>2. PlaneOf = "/s" /\ MayRead => invited
    BY DEF PlaneOf, MayRead, OperatorReads, HandleRead, ShareReads, CapCanReadRun, Redeemed,
           Inv, HolderIsInvited
  <2> QED
    BY <2>1, <2>2 DEF Inv, ShareShowsItsRunOnly
<1> QED
  BY <1>1, <1>2, <1>3 DEF Inv

\* The fields of the page that a read sets, one read at a time.
LEMMA PageFields ==
    ASSUME TypeOK
    PROVE  /\ page \in Page
           /\ page.run \in {"loading", "loaded", "error"} /\ page.scenarios \in BOOLEAN
           /\ page.video \in BOOLEAN /\ page.shots \subseteq Nat
BY DEF TypeOK, Page

LEMMA RunIsRead ==
    ASSUME Inv, NEW to \in {"loaded", "error"}, to = "loaded" => MayRead,
           page' = [page EXCEPT !.run = to],
           UNCHANGED <<ingestVars, reader, granted, live, secret, invited>>
    PROVE  Inv'
<1> DEFINE new == [page EXCEPT !.run = to]
<1>1. /\ new \in Page /\ new.run = to /\ new.scenarios = page.scenarios
      /\ new.video = page.video /\ new.shots = page.shots
  BY PageFields DEF Inv, Page
<1> HIDE DEF new
<1>2. page' = new
  BY DEF new
<1> QED
  BY <1>1, <1>2, PageKeeps DEF Inv, PageIsStored

LEMMA ScenariosAreRead ==
    ASSUME Inv, MayRead, NEW video \in BOOLEAN, video => Video \in bucket,
           page' = [page EXCEPT !.scenarios = TRUE, !.video = video],
           UNCHANGED <<ingestVars, reader, granted, live, secret, invited>>
    PROVE  Inv'
<1> DEFINE new == [page EXCEPT !.scenarios = TRUE, !.video = video]
<1>1. new \in Page /\ new.video = video /\ new.shots = page.shots
  BY PageFields DEF Inv, Page
<1> HIDE DEF new
<1>2. page' = new
  BY DEF new
<1> QED
  BY <1>1, <1>2, PageKeeps DEF Inv, PageIsStored

LEMMA StepsAreRead ==
    ASSUME Inv, NEW shots \in SUBSET (bucket \cap Nat),
           page' = [page EXCEPT !.shots = shots],
           UNCHANGED <<ingestVars, reader, granted, live, secret, invited>>
    PROVE  Inv'
<1> DEFINE new == [page EXCEPT !.shots = shots]
<1>1. /\ new \in Page /\ new.run = page.run /\ new.scenarios = page.scenarios
      /\ new.video = page.video /\ new.shots = shots
  BY PageFields DEF Inv, Page
<1> HIDE DEF new
<1>2. page' = new
  BY DEF new
<1> QED
  BY <1>1, <1>2, PageKeeps DEF Inv, PageIsStored

\* Links, shares and grants change what the next read may see, not the page.
LEMMA AccessKeeps ==
    ASSUME Inv, UNCHANGED <<ingestVars, reader, page>>, live' \subseteq live,
           granted' \in BOOLEAN, secret' \in Share \cup {NoShare}, invited' \in BOOLEAN,
           invited => invited', secret' # secret /\ secret' \in live' \cap OwnShare => invited'
    PROVE  Inv'
<1>1. UNCHANGED bucket /\ IngestInv' /\ IngestTypeOK'
  BY IngestKeeps DEF Inv, ingestVars, IngestInv
<1>2. TypeOK' /\ PageIsStored'
  BY <1>1 DEF Inv, TypeOK, PageIsStored
<1>3. HolderIsInvited'
  BY DEF Inv, HolderIsInvited
<1>4. ShareShowsItsRunOnly'
  BY DEF Inv, ShareShowsItsRunOnly, PlaneOf
<1> QED
  BY <1>1, <1>2, <1>3, <1>4 DEF Inv

LEMMA Initially ==
    Init => Inv
<1> SUFFICES ASSUME Init PROVE Inv
  OBVIOUS
<1>1. IngestInv
  BY IngestBegins DEF Init
<1>2. /\ Empty \in Page /\ Empty.run = "loading" /\ Empty.scenarios = FALSE
      /\ Empty.video = FALSE /\ Empty.shots = {}
  BY DEF Empty, Page
<1>3. TypeOK
  BY <1>1, <1>2 DEF TypeOK, Init, IngestInv
<1>4. PageIsStored /\ HolderIsInvited /\ ShareShowsItsRunOnly
  BY <1>2 DEF PageIsStored, HolderIsInvited, ShareShowsItsRunOnly, Init
<1> QED
  BY <1>1, <1>3, <1>4 DEF Inv

LEMMA Inductive ==
    Inv /\ [Next]_vars => Inv'
<1> SUFFICES ASSUME Inv, [Next]_vars PROVE Inv'
  OBVIOUS
<1>0. page \in Page /\ Shots \in SUBSET (bucket \cap Nat)
      /\ videoKey \in BOOLEAN /\ (videoKey => Video \in bucket)
  BY ShotsAreStored DEF Inv, TypeOK, IngestInv, IngestTypeOK, KeysAreStored
<1>1. CASE IngestNext /\ UNCHANGED readVars
  <2>1. bucket \subseteq bucket'
    BY <1>1, BucketGrows
  <2>2. IngestInv' /\ IngestTypeOK'
    BY <1>1, IngestKeeps DEF Inv, IngestInv
  <2>3. TypeOK' /\ PageIsStored' /\ HolderIsInvited'
    BY <1>1, <2>1, <2>2 DEF readVars, Inv, TypeOK, PageIsStored, HolderIsInvited
  <2>4. ShareShowsItsRunOnly'
    BY <1>1 DEF readVars, Inv, ShareShowsItsRunOnly, PlaneOf
  <2> QED
    BY <2>2, <2>3, <2>4 DEF Inv
<1>2. ASSUME NEW share \in Share, OpenLink(share)
      PROVE  Inv'
  BY <1>2, AccessKeeps DEF OpenLink, Inv, TypeOK
<1>3. ASSUME NEW share \in Share, Revoke(share)
      PROVE  Inv'
  BY <1>3, AccessKeeps DEF Revoke, Inv, TypeOK
<1>4. CASE Regrant
  BY <1>4, AccessKeeps DEF Regrant, Inv, TypeOK
<1>5. CASE LoadRun \/ DigestRun
  <2> DEFINE to == IF MayRead THEN "loaded" ELSE "error"
  <2>1. /\ page' = [page EXCEPT !.run = to]
        /\ UNCHANGED <<ingestVars, reader, granted, live, secret, invited>>
    BY <1>5 DEF LoadRun, DigestRun, OnPage, InDigest
  <2>2. to \in {"loaded", "error"} /\ (to = "loaded" => MayRead)
    OBVIOUS
  <2> HIDE DEF to
  <2> QED
    BY <2>1, <2>2, RunIsRead
<1>6. CASE LoadScenarios
  BY <1>0, <1>6, ScenariosAreRead DEF LoadScenarios, OnPage
<1>7. CASE DigestScenarios
  <2>1. CASE MayRead
    <3>1. page' = [page EXCEPT !.scenarios = TRUE]
          /\ UNCHANGED <<ingestVars, reader, granted, live, secret, invited>>
      BY <1>7, <2>1 DEF DigestScenarios, InDigest
    <3>2. page.video \in BOOLEAN /\ (page.video => Video \in bucket)
      BY PageFields DEF Inv, PageIsStored
    <3>3. [page EXCEPT !.scenarios = TRUE] =
              [page EXCEPT !.scenarios = TRUE, !.video = page.video]
      BY <1>0, <3>2 DEF Page
    <3> QED
      BY <2>1, <3>1, <3>2, <3>3, ScenariosAreRead
  <2>2. CASE ~MayRead
    BY <1>7, <2>2, RunIsRead DEF DigestScenarios, InDigest
  <2> QED
    BY <2>1, <2>2
<1>8. CASE LoadSteps
  BY <1>0, <1>8, StepsAreRead DEF LoadSteps, OnPage
<1>9. CASE DigestSteps
  <2> DEFINE shots == IF MayRead THEN Shots ELSE {}
  <2>1. /\ page' = [page EXCEPT !.shots = shots]
        /\ UNCHANGED <<ingestVars, reader, granted, live, secret, invited>>
    BY <1>9 DEF DigestSteps, InDigest
  <2>2. shots \in SUBSET (bucket \cap Nat)
    BY <1>0
  <2> HIDE DEF shots
  <2> QED
    BY <2>1, <2>2, StepsAreRead
<1>10. CASE DigestAgain
  <2>1. /\ Empty \in Page /\ Empty.run = "loading" /\ Empty.scenarios = FALSE
        /\ Empty.video = FALSE /\ Empty.shots = {}
    BY DEF Empty, Page
  <2>2. page' = Empty /\ UNCHANGED <<ingestVars, reader, granted, live, secret, invited>>
    BY <1>10 DEF DigestAgain, InDigest
  <2> QED
    BY <2>1, <2>2, PageKeeps
<1>11. CASE UNCHANGED vars
  BY <1>11, AccessKeeps DEF vars, readVars, Inv, TypeOK
<1> QED
  BY <1>1, <1>2, <1>3, <1>4, <1>5, <1>6, <1>7, <1>8, <1>9, <1>10, <1>11 DEF Next

-----------------------------------------------------------------------------
(***************************************************************************)
(* The theorems.                                                           *)
(***************************************************************************)

\* The inductive invariant of the ingest and its readers.
THEOREM Invariance ==
    Spec => []Inv
<1>1. Init => Inv
  BY Initially
<1>2. Inv /\ [Next]_vars => Inv'
  BY Inductive
<1> QED
  BY <1>1, <1>2, PTL DEF Spec

\* The state of the ingest and of its readers has its type.
THEOREM TypeCorrect ==
    Spec => []TypeOK
<1>1. Inv => TypeOK
  BY DEF Inv
<1> QED
  BY <1>1, Invariance, PTL

\* An answered step or video is stored and listed, or flagged as missing: however
\* many requests overlap, are cut short or come again.
THEOREM AnswersAreTrue ==
    Spec => []GapsAreFlagged
<1>1. Inv => GapsAreFlagged
  <2> SUFFICES ASSUME IngestInv, NEW q \in Req, request[q].at = "answered"
               PROVE  LET r == request[q] IN
                      IF r.of = Video THEN r.failed \/ (videoKey /\ Video \in bucket)
                      ELSE IF r.failed THEN rows[r.row].failed \/ r.row \in unflagged
                      ELSE ~rows[r.row].failed /\ (rows[r.row].screenshot <=> r.row \in bucket)
    BY DEF Inv, GapsAreFlagged
  <2>1. StepIsTrue(q) /\ VideoIsTrue(q)
    BY DEF IngestInv
  <2> QED
    BY <2>1 DEF StepIsTrue, VideoIsTrue, Held
<1> QED
  BY <1>1, Invariance, PTL

\* Whatever the order in which steps arrive, they are shown in the order in which the
\* harness authored them.
THEOREM AuthoringOrder ==
    Spec => []ShownInAuthoringOrder
<1>1. Inv => ShownInAuthoringOrder
  <2> SUFFICES ASSUME IngestInv, NEW i \in Listed, NEW j \in Listed
               PROVE  /\ numbers => /\ rows[i].step.attempt = rows[j].step.attempt
                                    /\ rows[i].sequence < rows[j].sequence
                                          <=> rows[i].step.place < rows[j].step.place
                      /\ ~numbers /\ ~overlapped =>
                             (rows[i].sequence < rows[j].sequence <=> i < j)
    BY DEF Inv, ShownInAuthoringOrder
  <2>1. /\ i \in DOMAIN rows /\ j \in DOMAIN rows
        /\ rows[i].attempt = rows[j].attempt
    BY DEF Listed
  <2>2. /\ i \in Nat /\ j \in Nat
        /\ rows[i].sequence \in Nat /\ rows[j].sequence \in Nat
    BY <2>1, RowFields DEF IngestInv
  <2>3. PlacesAreKept
    BY DEF IngestInv
  <2>4. ASSUME numbers
        PROVE  /\ rows[i].step.attempt = rows[j].step.attempt
               /\ rows[i].sequence = rows[i].step.place
               /\ rows[j].sequence = rows[j].step.place
    BY <2>1, <2>3, <2>4 DEF PlacesAreKept
  <2>5. ASSUME ~numbers, ~overlapped
        PROVE  rows[i].sequence < rows[j].sequence <=> i < j
    <3>1. /\ i < j => rows[i].sequence < rows[j].sequence
          /\ j < i => rows[j].sequence < rows[i].sequence
      BY <2>1, <2>3, <2>5 DEF PlacesAreKept
    <3>2. i < j \/ i = j \/ j < i
      BY <2>2
    <3> QED
      BY <2>2, <3>1, <3>2
  <2> QED
    BY <2>4, <2>5
<1> QED
  BY <1>1, Invariance, PTL

\* Every screenshot and video of a page loads while its reader may read the run.
THEOREM AssetsAreServed ==
    Spec => []ShownAssetsAreServed
<1>1. Inv => ShownAssetsAreServed
  <2> SUFFICES ASSUME PageIsStored, NEW url \in Shown, MayRead
               PROVE  Route(url)
    BY DEF Inv, ShownAssetsAreServed
  <2>1. url.plane = PlaneOf /\ url.key \in bucket
    <3>1. url \in WithVideoUrl \cup MapSteps
      BY DEF Shown
    <3> QED
      BY <3>1 DEF WithVideoUrl, MapSteps, Urls, PageIsStored
  <2>2. CASE PlaneOf = "/"
    BY <2>1, <2>2 DEF MayRead, OperatorReads, HandleRead, ShareReads, Route, ServeAsset,
                      ServeR2Asset
  <2>3. CASE PlaneOf = "/api/v1"
    BY <2>1, <2>3 DEF MayRead, OperatorReads, HandleRead, ShareReads, Route, ReadAsset,
                      ServeR2Asset
  <2>4. CASE PlaneOf = "/s"
    BY <2>1, <2>4 DEF MayRead, OperatorReads, HandleRead, ShareReads, Route, HandleShareAsset,
                      ServeR2Asset
  <2>5. PlaneOf \in {"/", "/api/v1", "/s"}
    BY DEF PlaneOf
  <2> QED
    BY <2>2, <2>3, <2>4, <2>5
<1> QED
  BY <1>1, Invariance, PTL

\* A visitor who sees anything of this run has held a link of this run while it was
\* live, whatever other links the cookie has held.
THEOREM SharesShowTheirRun ==
    Spec => []ShareShowsItsRunOnly
<1>1. Inv => ShareShowsItsRunOnly
  BY DEF Inv
<1> QED
  BY <1>1, Invariance, PTL

=============================================================================
