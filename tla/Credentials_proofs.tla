-------------------------- MODULE Credentials_proofs --------------------------
(***************************************************************************)
(* Whom the system lets in.  Project keys and share links (Credentials):   *)
(* what works is listed, and a rotation that nothing overlaps replaces     *)
(* what there was, for any number of operators and credentials.  Then the  *)
(* logins a scenario opens with (Sessions), which share no state with the  *)
(* keys: for any roles, environments, keys and number of calls.            *)
(***************************************************************************)
EXTENDS Credentials, Sessions, WellFoundedInduction, SequenceTheorems, TLAPS

Wanted == {<<>>, <<"ingest", "read">>} \cup {<<k>> : k \in Kind}

\* A request that works on a credential has one, and one that issues knows of
\* which kind; what it marks as revoked is dead, or not known to be; what it
\* has issued is in the mirror.
RequestOK(o) ==
    /\ request[o].at \in {"revokingOne", "marking", "markingOne", "mirroring"} =>
           request[o].current \in Cred
    /\ request[o].at \in {"creating", "revoking", "marking", "issuing", "mirroring"} =>
           request[o].wanted # <<>>
    /\ request[o].at = "mirroring" => provider[request[o].current] # "unborn"
    /\ request[o].at \in {"marking", "markingOne"} =>
           request[o].current \in unsure \/ provider[request[o].current] = "dead"
    /\ \A c \in request[o].issued : mirror[c] # "none"

RevokedIsDead ==
    \A c \in Cred : mirror[c] = "revoked" => c \in unsure \/ provider[c] = "dead"

HandedOutIsMirrored == \A c \in handedOut : mirror[c] # "none"

\* WorkingIsListed speaks of what was handed out; the credentials on their way
\* there, and to the mark of their revocation, are in the requests.
IInv == /\ TypeOK
        /\ \A o \in Op : RequestOK(o)
        /\ RevokedIsDead
        /\ HandedOutIsMirrored

-----------------------------------------------------------------------------
LEMMA RequestFields ==
    ASSUME NEW r \in Request
    PROVE  /\ r.at \in Place /\ r.wanted \in Wanted /\ r.issued \in SUBSET Cred
           /\ r.toRevoke \in SUBSET Cred /\ r.current \in Cred \cup {NoCred}
           /\ r.alone \in BOOLEAN
BY DEF Request, Wanted

LEMMA IdleIsRequest == Idle \in Request
BY DEF Idle, Request, Place

\* Rests of what is wanted are something that may be wanted.
LEMMA TailWanted ==
    ASSUME NEW w \in Wanted, w # <<>>
    PROVE  Tail(w) \in Wanted
<1>1. CASE w = <<"ingest", "read">>
  <2>1. Tail(w) = <<"read">>
    BY <1>1
  <2> QED
    BY <2>1 DEF Wanted, Kind, Keys
<1>2. ASSUME NEW k \in Kind, w = <<k>>
      PROVE  Tail(w) \in Wanted
  <2>1. Tail(w) = <<>>
    BY <1>2
  <2> QED
    BY <2>1 DEF Wanted
<1> QED
  BY <1>1, <1>2 DEF Wanted

\* A request that begins changes nothing of the others but `alone`.
LEMMA BeginChanges ==
    ASSUME request \in [Op -> Request], NEW o \in Op, NEW r \in Request, Begin(o, r)
    PROVE  /\ request' \in [Op -> Request]
           /\ request'[o] = [r EXCEPT !.alone = request'[o].alone]
           /\ \A p \in Op \ {o} :
                 request'[p] = [request[p] EXCEPT !.alone = request'[p].alone]
<1> DEFINE busy == {p \in Op : request[p].at # "idle"}
<1>1. /\ request[o].at = "idle"
      /\ request' = [p \in Op |->
             IF p = o THEN [r EXCEPT !.alone = busy = {}]
             ELSE IF p \in busy THEN [request[p] EXCEPT !.alone = FALSE] ELSE request[p]]
  BY DEF Begin
<1> HIDE DEF busy
<1>2. [r EXCEPT !.alone = busy = {}] \in Request
  BY DEF Request
<1>3. \A p \in Op : [request[p] EXCEPT !.alone = FALSE] \in Request
  BY DEF Request
<1>4. request' \in [Op -> Request]
  BY <1>1, <1>2, <1>3
<1>5. request'[o] = [r EXCEPT !.alone = request'[o].alone]
  BY <1>1 DEF Request
<1>6. ASSUME NEW p \in Op \ {o}
      PROVE  request'[p] = [request[p] EXCEPT !.alone = request'[p].alone]
  BY <1>1 DEF Request
<1> QED
  BY <1>4, <1>5, <1>6

\* What happens to a credential is never undone.
Onwards ==
    /\ unsure \subseteq unsure'
    /\ \A c \in Cred : /\ provider[c] # "unborn" => provider'[c] # "unborn"
                       /\ provider[c] = "dead" => provider'[c] = "dead"
                       /\ mirror[c] # "none" => mirror'[c] # "none"

\* So a request that does nothing stays as it should be.
LEMMA OthersStayOK ==
    ASSUME TypeOK, Onwards, NEW p \in Op, RequestOK(p),
           request'[p] = [request[p] EXCEPT !.alone = request'[p].alone]
    PROVE  RequestOK(p)'
<1> DEFINE q == request[p]  q2 == request'[p]
<1>1. q \in Request
  BY DEF TypeOK
<1>2. q2.at = q.at /\ q2.wanted = q.wanted /\ q2.issued = q.issued /\ q2.current = q.current
  BY <1>1 DEF Request
<1>3. q.issued \in SUBSET Cred
  BY <1>1, RequestFields
<1> QED
  BY <1>2, <1>3 DEF RequestOK, Onwards

\* A request that begins has issued nothing yet.
LEMMA BeginKeeps ==
    ASSUME IInv, NEW o \in Op, NEW r \in Request, Begin(o, r),
           UNCHANGED <<project, provider, kind, mirror, handedOut, unsure>>,
           r.at \in {"creating", "revoking", "issuing", "revokingOne"},
           r.at = "revokingOne" => r.current \in Cred,
           r.at # "revokingOne" => r.wanted # <<>>,
           r.issued = {}
    PROVE  IInv'
<1>1. request \in [Op -> Request]
  BY DEF IInv, TypeOK
<1>2. /\ request' \in [Op -> Request]
      /\ request'[o] = [r EXCEPT !.alone = request'[o].alone]
      /\ \A p \in Op \ {o} : request'[p] = [request[p] EXCEPT !.alone = request'[p].alone]
  BY <1>1, BeginChanges
<1>3. TypeOK'
  BY <1>2 DEF IInv, TypeOK
<1>4. Onwards
  BY DEF Onwards
<1>5. \A p \in Op \ {o} : RequestOK(p)'
  BY <1>2, <1>4, OthersStayOK DEF IInv
<1>6. RequestOK(o)'
  <2>1. /\ request'[o].at = r.at /\ request'[o].wanted = r.wanted
        /\ request'[o].issued = r.issued /\ request'[o].current = r.current
    BY <1>2 DEF Request
  <2> QED
    BY <2>1 DEF RequestOK
<1> QED
  BY <1>3, <1>5, <1>6 DEF IInv, RevokedIsDead, HandedOutIsMirrored

\* A step of one request leaves the others as they are.
LEMMA OwnStep ==
    ASSUME IInv, NEW o \in Op, NEW r \in Request, Onwards,
           request' = [request EXCEPT ![o] = r]
    PROVE  /\ request' \in [Op -> Request]
           /\ request'[o] = r
           /\ \A p \in Op \ {o} : RequestOK(p)'
<1>1. request \in [Op -> Request]
  BY DEF IInv, TypeOK
<1>2. request' \in [Op -> Request] /\ request'[o] = r
  BY <1>1
<1>3. ASSUME NEW p \in Op \ {o}
      PROVE  RequestOK(p)'
  <2>1. request'[p] = request[p] /\ request[p] \in Request
    BY <1>1
  <2>2. request'[p] = [request[p] EXCEPT !.alone = request'[p].alone]
    BY <2>1 DEF Request
  <2> QED
    BY <2>2, OthersStayOK DEF IInv
<1> QED
  BY <1>2, <1>3

\* A request that ends is fine.
LEMMA EndKeeps ==
    ASSUME IInv, NEW o \in Op, End(o), Onwards
    PROVE  request' \in [Op -> Request] /\ \A p \in Op : RequestOK(p)'
<1>1. request' = [request EXCEPT ![o] = Idle]
  BY DEF End
<1>2. /\ request' \in [Op -> Request] /\ request'[o] = Idle
      /\ \A p \in Op \ {o} : RequestOK(p)'
  BY <1>1, IdleIsRequest, OwnStep
<1>3. RequestOK(o)'
  BY <1>2 DEF RequestOK, Idle
<1> QED
  BY <1>2, <1>3

-----------------------------------------------------------------------------
\* The procedures begin.
LEMMA BeginningKeeps ==
    ASSUME IInv, NEW o \in Op,
           \/ CreateProject(o) \/ CreateShare(o)
           \/ \E k \in Keys : RotateKey(o, k)
           \/ \E c \in Cred : RevokeMirroredCapability(o, c)
    PROVE  IInv'
<1>1. CASE CreateProject(o)
  <2> DEFINE r == [Idle EXCEPT !.at = "creating", !.wanted = <<"ingest", "read">>]
  <2>1. r \in Request /\ r.at = "creating" /\ r.wanted # <<>> /\ r.issued = {}
    BY DEF Idle, Request, Place
  <2>2. Begin(o, r) /\ UNCHANGED <<project, provider, kind, mirror, handedOut, unsure>>
    BY <1>1 DEF CreateProject
  <2> HIDE DEF r
  <2> QED
    BY <2>1, <2>2, BeginKeeps
<1>2. CASE CreateShare(o)
  <2> DEFINE r == [Idle EXCEPT !.at = "issuing", !.wanted = <<"share">>]
  <2>1. r \in Request /\ r.at = "issuing" /\ r.wanted # <<>> /\ r.issued = {}
    BY DEF Idle, Request, Place, Kind
  <2>2. Begin(o, r) /\ UNCHANGED <<project, provider, kind, mirror, handedOut, unsure>>
    BY <1>2 DEF CreateShare
  <2> HIDE DEF r
  <2> QED
    BY <2>1, <2>2, BeginKeeps
<1>3. ASSUME NEW k \in Keys, RotateKey(o, k)
      PROVE  IInv'
  <2> DEFINE r == [Idle EXCEPT !.at = IF Listed(k) = {} THEN "issuing" ELSE "revoking",
                               !.wanted = <<k>>, !.toRevoke = Listed(k)]
  <2>1. /\ r \in Request /\ r.at \in {"issuing", "revoking"}
        /\ r.wanted # <<>> /\ r.issued = {}
    BY DEF Idle, Request, Place, Kind, Listed
  <2>2. Begin(o, r) /\ UNCHANGED <<project, provider, kind, mirror, handedOut, unsure>>
    BY <1>3 DEF RotateKey
  <2> HIDE DEF r
  <2> QED
    BY <2>1, <2>2, BeginKeeps
<1>4. ASSUME NEW c \in Cred, RevokeMirroredCapability(o, c)
      PROVE  IInv'
  <2> DEFINE r == [Idle EXCEPT !.at = "revokingOne", !.current = c]
  <2>1. r \in Request /\ r.at = "revokingOne" /\ r.current \in Cred /\ r.issued = {}
    BY DEF Idle, Request, Place
  <2>2. Begin(o, r) /\ UNCHANGED <<project, provider, kind, mirror, handedOut, unsure>>
    BY <1>4 DEF RevokeMirroredCapability
  <2> HIDE DEF r
  <2> QED
    BY <2>1, <2>2, BeginKeeps
<1> QED
  BY <1>1, <1>2, <1>3, <1>4

\* The provider's answer to a revocation, heard or not.
LEMMA RevokeKeeps ==
    ASSUME IInv, NEW o \in Op, NEW c \in Cred, NEW answer \in ProviderAnswer,
           NEW next \in {"marking", "markingOne"},
           next = "marking" => request[o].wanted # <<>>,
           Revoke(o, c, answer, next)
    PROVE  IInv'
<1> DEFINE r == [request[o] EXCEPT !.at = next, !.current = c]
<1>1. /\ request[o] \in Request /\ r \in Request /\ r.at = next /\ r.current = c
      /\ r.wanted = request[o].wanted /\ r.issued = request[o].issued
  BY DEF IInv, TypeOK, Request, Place
<1>2. /\ provider' \in [Cred -> {"unborn", "live", "dead"}] /\ unsure' \subseteq Cred
      /\ c \in unsure' \/ provider'[c] = "dead"
      /\ UNCHANGED <<project, kind, mirror, handedOut>>
  BY DEF Revoke, IInv, TypeOK, ProviderAnswer
<1>3. Onwards /\ \A d \in Cred : provider'[d] = "unborn" => provider[d] = "unborn"
  BY DEF Revoke, Onwards, IInv, TypeOK, ProviderAnswer
<1>4. request' \in [Op -> Request] /\ \A p \in Op : RequestOK(p)'
  <2>1. CASE answer \in {"ok", "refused"}
    <3>1. request' = [request EXCEPT ![o] = r]
      BY <2>1 DEF Revoke, IInv, TypeOK
    <3> HIDE DEF r
    <3>2. /\ request' \in [Op -> Request] /\ request'[o] = r
          /\ \A p \in Op \ {o} : RequestOK(p)'
      BY <1>1, <1>3, <3>1, OwnStep
    <3>3. RequestOK(o)'
      BY <1>1, <1>2, <3>2 DEF RequestOK, IInv
    <3> QED
      BY <3>2, <3>3
  <2>2. CASE answer \notin {"ok", "refused"}
    BY <1>3, <2>2, EndKeeps DEF Revoke
  <2> QED
    BY <2>1, <2>2
<1>5. TypeOK'
  BY <1>2, <1>3, <1>4 DEF IInv, TypeOK
<1>6. RevokedIsDead' /\ HandedOutIsMirrored'
  BY <1>2, <1>3 DEF IInv, RevokedIsDead, HandedOutIsMirrored, Onwards
<1> QED
  BY <1>4, <1>5, <1>6 DEF IInv

\* A row is marked once the provider answered.
LEMMA MarkKeeps ==
    ASSUME IInv, NEW o \in Op, MarkListed(o) \/ MarkOne(o)
    PROVE  IInv'
<1>0. PICK c \in Cred : c = request[o].current
  BY DEF MarkListed, MarkOne, IInv, RequestOK
<1>1. /\ mirror' = [mirror EXCEPT ![c] = IF @ = "listed" THEN "revoked" ELSE @]
      /\ UNCHANGED <<project, provider, kind, handedOut, unsure>>
  BY <1>0 DEF MarkListed, MarkOne, Marked
<1>2. c \in unsure \/ provider[c] = "dead"
  BY <1>0 DEF MarkListed, MarkOne, IInv, RequestOK
<1>3. /\ Onwards /\ mirror' \in [Cred -> {"none", "listed", "revoked"}]
      /\ \A d \in Cred : mirror'[d] = "none" <=> mirror[d] = "none"
  BY <1>1 DEF Onwards, IInv, TypeOK
<1>4. request' \in [Op -> Request] /\ \A p \in Op : RequestOK(p)'
  <2>1. CASE MarkListed(o)
    <3> DEFINE rest == request[o].toRevoke \ {request[o].current}
               r == [request[o] EXCEPT !.toRevoke = rest,
                         !.at = IF rest = {} THEN "issuing" ELSE "revoking"]
    <3>1. /\ request[o] \in Request /\ r \in Request /\ r.at \in {"issuing", "revoking"}
          /\ r.wanted = request[o].wanted /\ r.issued = request[o].issued
      BY DEF IInv, TypeOK, Request, Place
    <3>2. request' = [request EXCEPT ![o] = r]
      BY <2>1 DEF MarkListed, IInv, TypeOK
    <3>3. request[o].at = "marking"
      BY <2>1 DEF MarkListed
    <3> HIDE DEF r
    <3>4. /\ request' \in [Op -> Request] /\ request'[o] = r
          /\ \A p \in Op \ {o} : RequestOK(p)'
      BY <1>3, <3>1, <3>2, OwnStep
    <3>5. r.wanted # <<>> /\ \A d \in r.issued : d \in Cred /\ mirror[d] # "none"
      BY <3>1, <3>3, RequestFields DEF RequestOK, IInv
    <3>6. RequestOK(o)'
      BY <1>3, <3>1, <3>4, <3>5 DEF RequestOK
    <3> QED
      BY <3>4, <3>6
  <2>2. CASE MarkOne(o)
    BY <1>3, <2>2, EndKeeps DEF MarkOne
  <2> QED
    BY <2>1, <2>2
<1>5. TypeOK'
  BY <1>1, <1>3, <1>4 DEF IInv, TypeOK
<1>6. RevokedIsDead' /\ HandedOutIsMirrored'
  BY <1>1, <1>2, <1>3 DEF IInv, TypeOK, RevokedIsDead, HandedOutIsMirrored
<1> QED
  BY <1>4, <1>5, <1>6 DEF IInv

\* A credential is born live, and its request goes on to mirror it.
LEMMA IssueKeeps ==
    ASSUME IInv, NEW o \in Op, NEW c \in Cred,
           MintServiceTokenDsn(o, c) \/ MintCapability(o, c)
    PROVE  IInv'
<1> DEFINE r == [request[o] EXCEPT !.at = "mirroring", !.current = c]
<1>1. /\ request[o].at = "issuing" /\ Head(request[o].wanted) \in Kind
      /\ provider[c] = "unborn" /\ provider' = [provider EXCEPT ![c] = "live"]
      /\ kind' = [kind EXCEPT ![c] = Head(request[o].wanted)]
      /\ request' = [request EXCEPT ![o].at = "mirroring", ![o].current = c]
      /\ UNCHANGED <<project, mirror, handedOut, unsure>>
  BY DEF MintServiceTokenDsn, MintCapability, Issued, Kind
<1>2. /\ request[o] \in Request /\ r \in Request /\ r.at = "mirroring" /\ r.current = c
      /\ r.wanted = request[o].wanted /\ r.issued = request[o].issued
  BY DEF IInv, TypeOK, Request, Place
<1>3. request' = [request EXCEPT ![o] = r]
  BY <1>1 DEF IInv, TypeOK
<1> HIDE DEF r
<1>4. Onwards
  BY <1>1 DEF Onwards, IInv, TypeOK
<1>5. /\ request' \in [Op -> Request] /\ request'[o] = r
      /\ \A p \in Op \ {o} : RequestOK(p)'
  BY <1>2, <1>3, <1>4, OwnStep
<1>6. RequestOK(o)'
  <2>1. r.wanted # <<>> /\ \A d \in r.issued : mirror[d] # "none"
    BY <1>1, <1>2 DEF IInv, RequestOK
  <2>2. provider'[c] = "live"
    BY <1>1 DEF IInv, TypeOK
  <2> QED
    BY <1>1, <1>2, <1>5, <2>1, <2>2 DEF RequestOK
<1>7. TypeOK'
  BY <1>1, <1>5 DEF IInv, TypeOK
<1>8. RevokedIsDead' /\ HandedOutIsMirrored'
  BY <1>1 DEF IInv, TypeOK, RevokedIsDead, HandedOutIsMirrored
<1> QED
  BY <1>5, <1>6, <1>7, <1>8 DEF IInv

\* Its row is inserted.
LEMMA MirrorKeeps ==
    ASSUME IInv, NEW o \in Op, Mirror(o)
    PROVE  IInv'
<1>0. PICK c \in Cred : c = request[o].current /\ provider[c] # "unborn"
  BY DEF Mirror, IInv, RequestOK
<1> DEFINE rest == Tail(request[o].wanted)
           r == [request[o] EXCEPT !.at = IF rest = <<>> THEN "answering" ELSE "issuing",
                                   !.wanted = rest, !.issued = @ \cup {c}]
<1>1. /\ request[o].at = "mirroring" /\ mirror' = [mirror EXCEPT ![c] = "listed"]
      /\ UNCHANGED <<project, provider, kind, handedOut, unsure>>
  BY <1>0 DEF Mirror
<1>2. request[o] \in Request /\ request[o].wanted \in Wanted /\ request[o].wanted # <<>>
  BY <1>1, RequestFields DEF IInv, TypeOK, RequestOK
<1>3. rest \in Wanted
  BY <1>2, TailWanted
<1>4. request' = [request EXCEPT ![o] = r]
  BY <1>0 DEF Mirror, IInv, TypeOK
<1> HIDE DEF rest
<1>5. /\ r \in Request /\ r.at = (IF rest = <<>> THEN "answering" ELSE "issuing")
      /\ r.wanted = rest /\ r.issued = request[o].issued \cup {c}
  BY <1>2, <1>3 DEF Request, Place, Wanted
<1> HIDE DEF r
<1>6. /\ Onwards /\ mirror' \in [Cred -> {"none", "listed", "revoked"}]
      /\ mirror'[c] = "listed" /\ \A d \in Cred \ {c} : mirror'[d] = mirror[d]
  BY <1>1 DEF Onwards, IInv, TypeOK
<1>7. /\ request' \in [Op -> Request] /\ request'[o] = r
      /\ \A p \in Op \ {o} : RequestOK(p)'
  BY <1>4, <1>5, <1>6, OwnStep
<1>8. RequestOK(o)'
  <2>1. \A d \in request[o].issued : d \in Cred /\ mirror[d] # "none"
    BY <1>2, RequestFields DEF IInv, RequestOK
  <2>2. \A d \in r.issued : mirror'[d] # "none"
    BY <1>5, <1>6, <2>1
  <2> QED
    BY <1>5, <1>7, <2>2 DEF RequestOK
<1>9. TypeOK'
  BY <1>0, <1>1, <1>6, <1>7 DEF IInv, TypeOK
<1>10. RevokedIsDead' /\ HandedOutIsMirrored'
  BY <1>1, <1>6 DEF IInv, TypeOK, RevokedIsDead, HandedOutIsMirrored
<1> QED
  BY <1>7, <1>8, <1>9, <1>10 DEF IInv

\* The creation of the row, the answer, and what fails.
LEMMA RestKeeps ==
    ASSUME IInv, NEW o \in Op, ProjectCreated(o) \/ Answer(o) \/ Fail(o)
    PROVE  IInv'
<1>1. project' \in BOOLEAN /\ UNCHANGED <<provider, kind, mirror, unsure>>
  BY DEF ProjectCreated, Answer, Fail, IInv, TypeOK
<1>2. Onwards
  BY <1>1 DEF Onwards
<1>3. handedOut' \subseteq Cred /\ \A c \in handedOut' : mirror[c] # "none"
  <2>1. request[o].issued \subseteq Cred
    BY RequestFields DEF IInv, TypeOK
  <2> QED
    BY <2>1 DEF ProjectCreated, Answer, Fail, IInv, TypeOK, HandedOutIsMirrored, RequestOK
<1>4. request' \in [Op -> Request] /\ \A p \in Op : RequestOK(p)'
  <2>1. CASE End(o)
    BY <1>2, <2>1, EndKeeps
  <2>2. CASE ~End(o)
    <3> DEFINE r == [request[o] EXCEPT !.at = "issuing"]
    <3>1. request[o].at = "creating" /\ request' = [request EXCEPT ![o].at = "issuing"]
      BY <2>2 DEF ProjectCreated, Answer, Fail
    <3>2. /\ request[o] \in Request /\ r \in Request /\ r.at = "issuing"
          /\ r.wanted = request[o].wanted /\ r.issued = request[o].issued
      BY DEF IInv, TypeOK, Request, Place
    <3>3. request' = [request EXCEPT ![o] = r]
      BY <3>1 DEF IInv, TypeOK
    <3> HIDE DEF r
    <3>4. /\ request' \in [Op -> Request] /\ request'[o] = r
          /\ \A p \in Op \ {o} : RequestOK(p)'
      BY <1>2, <3>2, <3>3, OwnStep
    <3>5. RequestOK(o)'
      BY <1>1, <3>1, <3>2, <3>4 DEF RequestOK, IInv
    <3> QED
      BY <3>4, <3>5
  <2> QED
    BY <2>1, <2>2
<1>5. TypeOK'
  BY <1>1, <1>3, <1>4 DEF IInv, TypeOK
<1>6. RevokedIsDead' /\ HandedOutIsMirrored'
  BY <1>1, <1>3 DEF IInv, RevokedIsDead, HandedOutIsMirrored
<1> QED
  BY <1>4, <1>5, <1>6 DEF IInv

-----------------------------------------------------------------------------
LEMMA InvInit == Init => IInv
<1> SUFFICES ASSUME Init PROVE IInv
  OBVIOUS
<1>1. request \in [Op -> Request] /\ \A o \in Op : request[o] = Idle
  BY IdleIsRequest DEF Init
<1>2. TypeOK
  BY <1>1 DEF Init, TypeOK, Kind
<1>3. ASSUME NEW o \in Op
      PROVE  RequestOK(o)
  <2>1. request[o].at = "idle" /\ request[o].issued = {}
    BY <1>1 DEF Idle
  <2> QED
    BY <2>1 DEF RequestOK
<1> QED
  BY <1>2, <1>3 DEF Init, IInv, RevokedIsDead, HandedOutIsMirrored

LEMMA InvNext == IInv /\ [Next]_vars => IInv'
<1> SUFFICES ASSUME IInv, [Next]_vars PROVE IInv'
  OBVIOUS
<1>1. ASSUME NEW o \in Op, Operate(o)
      PROVE  IInv'
  <2>1. ASSUME NEW c \in Cred, NEW answer \in ProviderAnswer, RevokeListed(o, c, answer)
        PROVE  IInv'
    <3>1. request[o].wanted # <<>>
      BY <2>1 DEF RevokeListed, IInv, RequestOK
    <3> QED
      BY <2>1, <3>1, RevokeKeeps DEF RevokeListed
  <2>2. ASSUME NEW answer \in ProviderAnswer, RevokeOne(o, answer)
        PROVE  IInv'
    <3>1. PICK c \in Cred : c = request[o].current
      BY <2>2 DEF RevokeOne, IInv, RequestOK
    <3>2. Revoke(o, c, answer, "markingOne")
      BY <2>2, <3>1 DEF RevokeOne
    <3> QED
      BY <3>2, RevokeKeeps
  <2> QED
    BY <1>1, <2>1, <2>2, BeginningKeeps, MarkKeeps, IssueKeeps, MirrorKeeps, RestKeeps
       DEF Operate
<1>2. CASE UNCHANGED vars
  BY <1>2 DEF vars, IInv, TypeOK, RequestOK, RevokedIsDead, HandedOutIsMirrored
<1> QED
  BY <1>1, <1>2 DEF Next

\* The inductive invariant, for any number of operators and credentials.
THEOREM Invariance == Spec => []IInv
BY InvInit, InvNext, PTL DEF Spec

\* Rows, requests and credentials keep their types.
THEOREM TypeCorrect == Spec => []TypeOK
<1>1. IInv => TypeOK
  BY DEF IInv
<1> QED
  BY <1>1, Invariance, PTL

\* Every secret that was handed out and works is in the list an operator revokes
\* from, but where the provider refused a revocation or was not heard.
THEOREM WhatWorksIsListed == Spec => []WorkingIsListed
<1>1. IInv => WorkingIsListed
  BY DEF IInv, TypeOK, RevokedIsDead, HandedOutIsMirrored, WorkingIsListed
<1> QED
  BY <1>1, Invariance, PTL

-----------------------------------------------------------------------------
(***************************************************************************)
(* A rotation that nothing overlaps.                                       *)
(***************************************************************************)
KeysIn(w) == {k \in Keys : \E i \in 1..Len(w) : w[i] = k}

\* Of what it has still to issue no row lists another of the kind any more, or it
\* is to revoke what does; what it has issued is alone in the list of its kind,
\* and was not handed out before.
AloneOK(o) ==
    request[o].alone = TRUE =>
        /\ request[o].at # "idle" /\ \A p \in Op \ {o} : request[p].at = "idle"
        /\ request[o].at \notin {"issuing", "mirroring", "answering"} => request[o].issued = {}
        /\ \A c \in request[o].issued :
              c \notin handedOut /\ (kind[c] \in Keys => Listed(kind[c]) = {c})
        /\ \A k \in KeysIn(request[o].wanted) :
              /\ request[o].at \in {"issuing", "mirroring"} => Listed(k) = {}
              /\ request[o].at \in {"revoking", "marking"} => Listed(k) \subseteq request[o].toRevoke
        /\ request[o].at = "mirroring" =>
              /\ request[o].current \notin handedOut
              /\ kind[request[o].current] = Head(request[o].wanted)

\* A project that is not there has no credentials.
ProjectOK ==
    project = FALSE => /\ \A o \in Op : request[o].at \in {"idle", "creating"}
                       /\ \A c \in Cred : provider[c] = "unborn"

\* RotationAloneReplaces speaks of the answer; a rotation gets there by way of
\* the rows it has listed and the key it has issued.
AInv == IInv /\ (\A o \in Op : AloneOK(o)) /\ ProjectOK

\* What is issued first is no more among the rest.
LEMMA KeysInTail ==
    ASSUME NEW w \in Wanted, w # <<>>
    PROVE  /\ Head(w) \in Kind /\ (Head(w) \in Keys => Head(w) \in KeysIn(w))
           /\ KeysIn(Tail(w)) \subseteq KeysIn(w) \ {Head(w)}
<1>1. CASE w = <<"ingest", "read">>
  <2>1. Head(w) = "ingest" /\ Tail(w) = <<"read">> /\ w[1] = "ingest" /\ w[2] = "read" /\ Len(w) = 2
    BY <1>1
  <2>2. KeysIn(Tail(w)) \subseteq {"read"}
    BY <2>1 DEF KeysIn
  <2>3. "ingest" \in KeysIn(w) /\ "read" \in KeysIn(w)
    BY <2>1 DEF KeysIn, Keys
  <2> QED
    BY <2>1, <2>2, <2>3 DEF Kind, Keys
<1>2. ASSUME NEW k \in Kind, w = <<k>>
      PROVE  /\ Head(w) \in Kind /\ (Head(w) \in Keys => Head(w) \in KeysIn(w))
             /\ KeysIn(Tail(w)) \subseteq KeysIn(w) \ {Head(w)}
  <2>1. Head(w) = k /\ Tail(w) = <<>> /\ w[1] = k /\ Len(w) = 1 /\ Len(<<>>) = 0
    BY <1>2
  <2>2. KeysIn(Tail(w)) = {}
    <3>1. Len(Tail(w)) = 0
      BY <2>1
    <3>2. 1..0 = {}
      OBVIOUS
    <3>3. 1..Len(Tail(w)) = {}
      BY <3>1, <3>2, Zenon
    <3> QED
      BY <3>3, Zenon DEF KeysIn
  <2>3. k \in Keys => k \in KeysIn(w)
    BY <2>1 DEF KeysIn
  <2> QED
    BY <2>1, <2>2, <2>3
<1> QED
  BY <1>1, <1>2 DEF Wanted

LEMMA KeysInOne ==
    ASSUME NEW k \in Kind
    PROVE  KeysIn(<<k>>) \subseteq {k}
BY DEF KeysIn

\* A request that begins is alone if all others are idle; those that were alone
\* are not any more.
LEMMA BeginAlone ==
    ASSUME AInv, NEW o \in Op, NEW r \in Request, Begin(o, r),
           UNCHANGED <<provider, kind, mirror, handedOut>>,
           r.at \in {"creating", "revoking", "issuing", "revokingOne"}, r.issued = {},
           \A k \in KeysIn(r.wanted) :
               /\ r.at = "issuing" => Listed(k) = {}
               /\ r.at = "revoking" => Listed(k) \subseteq r.toRevoke
    PROVE  \A p \in Op : AloneOK(p)'
<1> DEFINE busy == {p \in Op : request[p].at # "idle"}
<1>1. request \in [Op -> Request]
  BY DEF AInv, IInv, TypeOK
<1>2. /\ request[o].at = "idle"
      /\ request' = [p \in Op |->
             IF p = o THEN [r EXCEPT !.alone = busy = {}]
             ELSE IF p \in busy THEN [request[p] EXCEPT !.alone = FALSE] ELSE request[p]]
  BY DEF Begin
<1>3. \A p \in busy : p \in Op /\ request[p].at # "idle"
  OBVIOUS
<1>4. \A p \in Op \ busy : request[p].at = "idle"
  OBVIOUS
<1> HIDE DEF busy
<1>5. ASSUME NEW p \in Op \ {o} PROVE AloneOK(p)'
  <2>1. CASE p \in busy
    <3>1. request'[p] = [request[p] EXCEPT !.alone = FALSE] /\ request[p] \in Request
      BY <1>1, <1>2, <2>1
    <3>2. request'[p].alone = FALSE
      BY <3>1 DEF Request
    <3> QED
      BY <3>2 DEF AloneOK
  <2>2. CASE p \notin busy
    <3>1. request'[p] = request[p] /\ request[p].at = "idle" /\ AloneOK(p)
      BY <1>2, <1>4, <2>2 DEF AInv
    <3> QED
      BY <3>1 DEF AloneOK
  <2> QED
    BY <2>1, <2>2
<1>6. AloneOK(o)'
  <2>1. request'[o] = [r EXCEPT !.alone = busy = {}]
    BY <1>2
  <2>2. /\ request'[o].at = r.at /\ request'[o].issued = r.issued /\ request'[o].wanted = r.wanted
        /\ request'[o].toRevoke = r.toRevoke /\ (request'[o].alone <=> busy = {})
    BY <2>1 DEF Request
  <2>3. ASSUME request'[o].alone = TRUE
        PROVE  \A p \in Op \ {o} : request'[p].at = "idle"
    BY <1>2, <1>4, <2>2, <2>3
  <2>4. \A k : Listed(k)' = Listed(k)
    BY DEF Listed
  <2> QED
    BY <2>2, <2>3, <2>4 DEF AloneOK
<1> QED
  BY <1>5, <1>6

\* A step of a request that is under way: no other one is alone.
LEMMA OwnAlone ==
    ASSUME AInv, NEW o \in Op, request[o].at # "idle", NEW r \in Request,
           request' = [request EXCEPT ![o] = r]
    PROVE  /\ request'[o] = r /\ \A p \in Op \ {o} : request'[p] = request[p] /\ AloneOK(p)'
           /\ request[o].alone = TRUE => \A p \in Op \ {o} : request'[p].at = "idle"
<1>1. request \in [Op -> Request]
  BY DEF AInv, IInv, TypeOK
<1>2. request'[o] = r /\ \A p \in Op \ {o} : request'[p] = request[p]
  BY <1>1
<1>3. ASSUME NEW p \in Op \ {o} PROVE AloneOK(p)'
  <2>1. request[p].alone # TRUE
    BY DEF AInv, AloneOK
  <2> QED
    BY <1>2, <2>1 DEF AloneOK
<1>4. request[o].alone = TRUE => \A p \in Op \ {o} : request'[p].at = "idle"
  BY <1>2 DEF AInv, AloneOK
<1> QED
  BY <1>2, <1>3, <1>4

\* A request that ends is not there any more.
LEMMA EndAlone ==
    ASSUME AInv, NEW o \in Op, request[o].at # "idle", End(o)
    PROVE  \A p \in Op : AloneOK(p)'
<1>1. request' = [request EXCEPT ![o] = Idle]
  BY DEF End
<1>2. request'[o] = Idle /\ \A p \in Op \ {o} : AloneOK(p)'
  BY <1>1, IdleIsRequest, OwnAlone
<1>3. AloneOK(o)'
  BY <1>2 DEF AloneOK, Idle
<1> QED
  BY <1>2, <1>3

\* The procedures begin: a rotation lists the keys of its kind.
LEMMA BeginningAlone ==
    ASSUME AInv, NEW o \in Op,
           \/ CreateProject(o) \/ CreateShare(o)
           \/ \E k \in Keys : RotateKey(o, k)
           \/ \E c \in Cred : RevokeMirroredCapability(o, c)
    PROVE  \A p \in Op : AloneOK(p)'
<1>1. CASE CreateProject(o)
  <2> DEFINE r == [Idle EXCEPT !.at = "creating", !.wanted = <<"ingest", "read">>]
  <2>1. r \in Request /\ r.at = "creating" /\ r.issued = {}
    BY DEF Idle, Request, Place
  <2>2. Begin(o, r) /\ UNCHANGED <<provider, kind, mirror, handedOut>>
    BY <1>1 DEF CreateProject
  <2> HIDE DEF r
  <2> QED
    BY <2>1, <2>2, BeginAlone
<1>2. CASE CreateShare(o)
  <2> DEFINE r == [Idle EXCEPT !.at = "issuing", !.wanted = <<"share">>]
  <2>1. r \in Request /\ r.at = "issuing" /\ r.issued = {} /\ r.wanted = <<"share">>
    BY DEF Idle, Request, Place, Kind
  <2>2. Begin(o, r) /\ UNCHANGED <<provider, kind, mirror, handedOut>>
    BY <1>2 DEF CreateShare
  <2>3. KeysIn(r.wanted) = {}
    BY <2>1, KeysInOne DEF KeysIn, Kind, Keys
  <2> HIDE DEF r
  <2> QED
    BY <2>1, <2>2, <2>3, BeginAlone
<1>3. ASSUME NEW k \in Keys, RotateKey(o, k)
      PROVE  \A p \in Op : AloneOK(p)'
  <2> DEFINE r == [Idle EXCEPT !.at = IF Listed(k) = {} THEN "issuing" ELSE "revoking",
                               !.wanted = <<k>>, !.toRevoke = Listed(k)]
  <2>1. /\ r \in Request /\ r.at = (IF Listed(k) = {} THEN "issuing" ELSE "revoking")
        /\ r.issued = {} /\ r.wanted = <<k>> /\ r.toRevoke = Listed(k)
    BY DEF Idle, Request, Place, Kind, Listed
  <2>2. Begin(o, r) /\ UNCHANGED <<provider, kind, mirror, handedOut>>
    BY <1>3 DEF RotateKey
  <2>3. KeysIn(r.wanted) \subseteq {k}
    BY <2>1, KeysInOne DEF Kind
  <2> HIDE DEF r
  <2> QED
    BY <2>1, <2>2, <2>3, BeginAlone
<1>4. ASSUME NEW c \in Cred, RevokeMirroredCapability(o, c)
      PROVE  \A p \in Op : AloneOK(p)'
  <2> DEFINE r == [Idle EXCEPT !.at = "revokingOne", !.current = c]
  <2>1. r \in Request /\ r.at = "revokingOne" /\ r.issued = {}
    BY DEF Idle, Request, Place
  <2>2. Begin(o, r) /\ UNCHANGED <<provider, kind, mirror, handedOut>>
    BY <1>4 DEF RevokeMirroredCapability
  <2> HIDE DEF r
  <2> QED
    BY <2>1, <2>2, BeginAlone
<1> QED
  BY <1>1, <1>2, <1>3, <1>4

\* The provider's answer changes no row.
LEMMA RevokeAlone ==
    ASSUME AInv, NEW o \in Op, NEW c \in Cred, NEW answer \in ProviderAnswer,
           \/ request[o].at = "revoking" /\ Revoke(o, c, answer, "marking")
           \/ request[o].at = "revokingOne" /\ Revoke(o, c, answer, "markingOne")
    PROVE  \A p \in Op : AloneOK(p)'
<1>1. CASE End(o)
  BY <1>1, EndAlone
<1>2. CASE ~End(o)
  <2>1. PICK next \in {"marking", "markingOne"} :
            /\ request' = [request EXCEPT ![o].at = next, ![o].current = c]
            /\ next = "marking" => request[o].at = "revoking"
    BY <1>2 DEF Revoke
  <2> DEFINE r == [request[o] EXCEPT !.at = next, !.current = c]
  <2>2. /\ r \in Request /\ r.at = next /\ r.issued = request[o].issued
        /\ r.wanted = request[o].wanted /\ r.toRevoke = request[o].toRevoke
        /\ r.alone = request[o].alone
    BY DEF AInv, IInv, TypeOK, Request, Place
  <2>3. request' = [request EXCEPT ![o] = r] /\ UNCHANGED <<kind, mirror, handedOut>>
    BY <2>1 DEF Revoke, AInv, IInv, TypeOK
  <2> HIDE DEF r
  <2>4. request'[o] = r /\ (\A p \in Op \ {o} : AloneOK(p)')
        /\ (request[o].alone = TRUE => \A p \in Op \ {o} : request'[p].at = "idle")
    BY <2>2, <2>3, OwnAlone
  <2>5. \A k : Listed(k)' = Listed(k)
    BY <2>3 DEF Listed
  <2>6. AloneOK(o)'
    BY <2>1, <2>2, <2>3, <2>4, <2>5 DEF AInv, AloneOK
  <2> QED
    BY <2>4, <2>6
<1> QED
  BY <1>1, <1>2

\* A row that is marked is listed no more.
LEMMA MarkAlone ==
    ASSUME AInv, NEW o \in Op, MarkListed(o) \/ MarkOne(o)
    PROVE  \A p \in Op : AloneOK(p)'
<1>1. CASE MarkOne(o)
  BY <1>1, EndAlone DEF MarkOne
<1>2. CASE MarkListed(o)
  <2> DEFINE c == request[o].current
             rest == request[o].toRevoke \ {c}
             r == [request[o] EXCEPT !.toRevoke = rest,
                       !.at = IF rest = {} THEN "issuing" ELSE "revoking"]
  <2>1. request[o].at = "marking" /\ c \in Cred
    BY <1>2 DEF MarkListed, AInv, IInv, RequestOK
  <2>2. /\ r \in Request /\ r.issued = request[o].issued /\ r.wanted = request[o].wanted
        /\ r.alone = request[o].alone /\ r.toRevoke = rest
        /\ r.at = (IF rest = {} THEN "issuing" ELSE "revoking")
    BY DEF AInv, IInv, TypeOK, Request, Place
  <2>3. /\ request' = [request EXCEPT ![o] = r] /\ UNCHANGED <<kind, handedOut>>
        /\ mirror' = Marked(c)
    BY <1>2 DEF MarkListed, AInv, IInv, TypeOK
  <2>4. \A k : Listed(k)' = Listed(k) \ {c}
    BY <2>1, <2>3 DEF Listed, Marked, AInv, IInv, TypeOK
  <2> HIDE DEF r
  <2>5. request'[o] = r /\ (\A p \in Op \ {o} : AloneOK(p)')
        /\ (request[o].alone = TRUE => \A p \in Op \ {o} : request'[p].at = "idle")
    BY <2>1, <2>2, <2>3, OwnAlone
  <2>6. AloneOK(o)'
    <3> SUFFICES ASSUME request[o].alone = TRUE PROVE AloneOK(o)'
      BY <2>2, <2>5 DEF AloneOK
    <3>1. request[o].issued = {} /\ \A k \in KeysIn(request[o].wanted) : Listed(k) \subseteq request[o].toRevoke
      BY <2>1 DEF AInv, AloneOK
    <3>2. \A k \in KeysIn(request[o].wanted) : Listed(k)' \subseteq rest
      BY <2>4, <3>1
    <3> QED
      BY <2>2, <2>5, <3>1, <3>2 DEF AloneOK
  <2> QED
    BY <2>5, <2>6
<1> QED
  BY <1>1, <1>2

\* A credential that is born has no row yet.
LEMMA IssueAlone ==
    ASSUME AInv, NEW o \in Op, NEW c \in Cred,
           MintServiceTokenDsn(o, c) \/ MintCapability(o, c)
    PROVE  \A p \in Op : AloneOK(p)'
<1> DEFINE r == [request[o] EXCEPT !.at = "mirroring", !.current = c]
<1>1. /\ request[o].at = "issuing" /\ Head(request[o].wanted) \in Kind
      /\ provider[c] = "unborn" /\ kind' = [kind EXCEPT ![c] = Head(request[o].wanted)]
      /\ request' = [request EXCEPT ![o].at = "mirroring", ![o].current = c]
      /\ UNCHANGED <<mirror, handedOut>>
  BY DEF MintServiceTokenDsn, MintCapability, Issued, Kind
<1>2. /\ request[o] \in Request /\ r \in Request /\ r.at = "mirroring" /\ r.current = c
      /\ r.wanted = request[o].wanted /\ r.issued = request[o].issued /\ r.alone = request[o].alone
  BY DEF AInv, IInv, TypeOK, Request, Place
<1>3. request' = [request EXCEPT ![o] = r]
  BY <1>1 DEF AInv, IInv, TypeOK
<1> HIDE DEF r
<1>4. mirror[c] = "none" /\ c \notin handedOut /\ c \notin request[o].issued
  BY <1>1 DEF AInv, IInv, TypeOK, HandedOutIsMirrored, RequestOK
<1>5. kind'[c] = Head(request[o].wanted) /\ \A d \in Cred \ {c} : kind'[d] = kind[d]
  BY <1>1 DEF AInv, IInv, TypeOK
<1>6. \A k : Listed(k)' = Listed(k)
  BY <1>1, <1>4, <1>5 DEF Listed
<1>7. request'[o] = r /\ (\A p \in Op \ {o} : AloneOK(p)')
      /\ (request[o].alone = TRUE => \A p \in Op \ {o} : request'[p].at = "idle")
  BY <1>1, <1>2, <1>3, OwnAlone
<1>8. AloneOK(o)'
  <2> SUFFICES ASSUME request[o].alone = TRUE PROVE AloneOK(o)'
    BY <1>2, <1>7 DEF AloneOK
  <2>1. /\ \A d \in request[o].issued :
               d \notin handedOut /\ (kind[d] \in Keys => Listed(kind[d]) = {d})
        /\ \A k \in KeysIn(request[o].wanted) : Listed(k) = {}
    BY <1>1 DEF AInv, AloneOK
  <2>2. ASSUME NEW d \in r.issued
        PROVE  d \notin handedOut' /\ (kind'[d] \in Keys => Listed(kind[d])' = {d})
    <3>1. d \in request[o].issued /\ kind'[d] = kind[d] /\ handedOut' = handedOut
      BY <1>1, <1>2, <1>4, <1>5, RequestFields
    <3>2. Listed(kind[d])' = Listed(kind[d])
      BY <1>1, <1>4, <1>5, <3>1 DEF Listed
    <3> QED
      BY <2>1, <3>1, <3>2
  <2>3. \A k \in KeysIn(r.wanted) : Listed(k)' = {}
    BY <1>2, <1>6, <2>1
  <2>4. c \notin handedOut' /\ kind'[c] = Head(r.wanted)
    BY <1>1, <1>2, <1>4, <1>5
  <2> QED
    BY <1>2, <1>7, <2>2, <2>3, <2>4 DEF AloneOK
<1> QED
  BY <1>7, <1>8

\* It is then the only one of its kind in the list.
LEMMA MirrorAlone ==
    ASSUME AInv, NEW o \in Op, Mirror(o)
    PROVE  \A p \in Op : AloneOK(p)'
<1>0. PICK c \in Cred : c = request[o].current
  BY DEF Mirror, AInv, IInv, RequestOK
<1> DEFINE w == request[o].wanted
           rest == Tail(w)
           r == [request[o] EXCEPT !.at = IF rest = <<>> THEN "answering" ELSE "issuing",
                                   !.wanted = rest, !.issued = @ \cup {c}]
<1>1. /\ request[o].at = "mirroring" /\ mirror' = [mirror EXCEPT ![c] = "listed"]
      /\ UNCHANGED <<kind, handedOut>>
  BY <1>0 DEF Mirror
<1>2. request[o] \in Request /\ w \in Wanted /\ w # <<>>
  BY <1>1, RequestFields DEF AInv, IInv, TypeOK, RequestOK
<1>3. rest \in Wanted /\ Head(w) \in Kind /\ (Head(w) \in Keys => Head(w) \in KeysIn(w))
      /\ KeysIn(rest) \subseteq KeysIn(w) \ {Head(w)}
  BY <1>2, TailWanted, KeysInTail
<1>4. request' = [request EXCEPT ![o] = r]
  BY <1>0 DEF Mirror, AInv, IInv, TypeOK
<1> HIDE DEF rest, w
<1>5. /\ r \in Request /\ r.at = (IF rest = <<>> THEN "answering" ELSE "issuing")
      /\ r.wanted = rest /\ r.issued = request[o].issued \cup {c} /\ r.alone = request[o].alone
  BY <1>2, <1>3 DEF Request, Place, Wanted
<1> HIDE DEF r
<1>6. \A k : Listed(k)' = IF kind[c] = k THEN Listed(k) \cup {c} ELSE Listed(k)
  BY <1>1 DEF Listed, AInv, IInv, TypeOK
<1>7. request'[o] = r /\ (\A p \in Op \ {o} : AloneOK(p)')
      /\ (request[o].alone = TRUE => \A p \in Op \ {o} : request'[p].at = "idle")
  BY <1>1, <1>4, <1>5, OwnAlone
<1>8. AloneOK(o)'
  <2> SUFFICES ASSUME request[o].alone = TRUE PROVE AloneOK(o)'
    BY <1>5, <1>7 DEF AloneOK
  <2>1. /\ kind[c] = Head(w) /\ c \notin handedOut
        /\ \A k \in KeysIn(w) : Listed(k) = {}
        /\ \A d \in request[o].issued :
              d \notin handedOut /\ (kind[d] \in Keys => Listed(kind[d]) = {d})
    BY <1>0, <1>1 DEF AInv, AloneOK, w
  <2>2. \A d \in r.issued : d \notin handedOut
    BY <1>5, <2>1
  <2>3. ASSUME NEW k \in Keys, k = kind[c] PROVE Listed(k)' = {c}
    BY <1>3, <1>6, <2>1, <2>3
  <2>4. \A d \in request[o].issued : kind[d] \in Keys => kind[d] # kind[c]
    BY <1>3, <2>1
  <2>5. ASSUME NEW d \in r.issued PROVE kind'[d] \in Keys => Listed(kind[d])' = {d}
    <3>1. PICK k : k = kind[d]
      OBVIOUS
    <3>2. kind'[d] = k /\ kind' = kind
      BY <1>1, <3>1
    <3>3. k \in Keys => Listed(k)' = {d}
      BY <1>5, <1>6, <2>1, <2>3, <2>4, <3>1
    <3>4. Listed(kind[d])' = Listed(k)'
      BY <3>2 DEF Listed
    <3> QED
      BY <3>2, <3>3, <3>4
  <2>6. \A k \in KeysIn(rest) : Listed(k)' = {}
    BY <1>3, <1>6, <2>1
  <2> QED
    BY <1>1, <1>5, <1>7, <2>2, <2>5, <2>6 DEF AloneOK
<1> QED
  BY <1>7, <1>8

\* A project that was just created lists nothing.
LEMMA RestAlone ==
    ASSUME AInv, NEW o \in Op, ProjectCreated(o) \/ Answer(o) \/ Fail(o)
    PROVE  \A p \in Op : AloneOK(p)'
<1>1. CASE End(o)
  BY <1>1, EndAlone DEF ProjectCreated, Answer, Fail
<1>2. CASE ~End(o)
  <2> DEFINE r == [request[o] EXCEPT !.at = "issuing"]
  <2>1. /\ request[o].at = "creating" /\ request' = [request EXCEPT ![o].at = "issuing"]
        /\ project = FALSE /\ UNCHANGED <<provider, kind, mirror, handedOut>>
    BY <1>2 DEF ProjectCreated, Answer, Fail, AInv, IInv, TypeOK
  <2>2. /\ r \in Request /\ r.at = "issuing" /\ r.wanted = request[o].wanted
        /\ r.issued = request[o].issued /\ r.alone = request[o].alone
    BY DEF AInv, IInv, TypeOK, Request, Place
  <2>3. request' = [request EXCEPT ![o] = r]
    BY <2>1 DEF AInv, IInv, TypeOK
  <2> HIDE DEF r
  <2>4. request'[o] = r /\ (\A p \in Op \ {o} : AloneOK(p)')
        /\ (request[o].alone = TRUE => \A p \in Op \ {o} : request'[p].at = "idle")
    BY <2>1, <2>2, <2>3, OwnAlone
  <2>5. \A k : Listed(k)' = {}
    BY <2>1 DEF Listed, AInv, ProjectOK, IInv, TypeOK
  <2>6. AloneOK(o)'
    BY <2>1, <2>2, <2>4, <2>5 DEF AInv, AloneOK
  <2> QED
    BY <2>4, <2>6
<1> QED
  BY <1>1, <1>2

\* Only a project that is there is issued credentials.
LEMMA ProjectKeeps ==
    ASSUME AInv, NEW o \in Op, Operate(o)
    PROVE  ProjectOK'
<1> SUFFICES ASSUME project' = FALSE PROVE ProjectOK'
  BY DEF ProjectOK
<1>1. TypeOK /\ request \in [Op -> Request]
  BY DEF AInv, IInv, TypeOK
<1>2. project = FALSE
  BY <1>1 DEF Operate, CreateProject, ProjectCreated, RotateKey, CreateShare,
         RevokeMirroredCapability, MintServiceTokenDsn, MintCapability, Issued, RevokeListed,
         RevokeOne, Revoke, MarkListed, MarkOne, Mirror, Answer, Fail, TypeOK
<1>3. /\ \A p \in Op : request[p].at \in {"idle", "creating"}
      /\ \A c \in Cred : provider[c] = "unborn" /\ mirror[c] = "none"
  BY <1>1, <1>2 DEF AInv, ProjectOK, TypeOK
<1>4. CreateProject(o) \/ Fail(o)
  BY <1>1, <1>2, <1>3 DEF Operate, ProjectCreated, RotateKey, CreateShare,
         RevokeMirroredCapability, MintServiceTokenDsn, MintCapability, RevokeListed,
         RevokeOne, MarkListed, MarkOne, Mirror, Answer, TypeOK
<1>5. provider' = provider
  BY <1>4 DEF CreateProject, Fail
<1>6. CASE Fail(o)
  <2>1. request' = [request EXCEPT ![o] = Idle]
    BY <1>6 DEF Fail, End
  <2>2. \A p \in Op : request'[p] = request[p] \/ request'[p] = Idle
    BY <1>1, <2>1
  <2> QED
    BY <1>3, <1>5, <2>2 DEF ProjectOK, Idle
<1>7. CASE CreateProject(o)
  <2> DEFINE r == [Idle EXCEPT !.at = "creating", !.wanted = <<"ingest", "read">>]
  <2>1. r \in Request /\ r.at = "creating"
    BY DEF Idle, Request, Place
  <2>2. Begin(o, r)
    BY <1>7 DEF CreateProject
  <2> HIDE DEF r
  <2>3. /\ request'[o] = [r EXCEPT !.alone = request'[o].alone]
        /\ \A p \in Op \ {o} : request'[p] = [request[p] EXCEPT !.alone = request'[p].alone]
    BY <1>1, <2>1, <2>2, BeginChanges
  <2>4. ASSUME NEW p \in Op PROVE request'[p].at \in {"idle", "creating"}
    <3>1. CASE p = o
      BY <2>1, <2>3, <3>1 DEF Request
    <3>2. CASE p # o
      <4>1. request[p] \in Request /\ request'[p] = [request[p] EXCEPT !.alone = request'[p].alone]
        BY <1>1, <2>3, <3>2
      <4>2. request'[p].at = request[p].at
        BY <4>1 DEF Request
      <4> QED
        BY <1>3, <4>2
    <3> QED
      BY <3>1, <3>2
  <2> QED
    BY <1>3, <1>5, <2>4 DEF ProjectOK
<1> QED
  BY <1>4, <1>6, <1>7

LEMMA AloneInit == Init => AInv
<1> SUFFICES ASSUME Init PROVE AInv
  OBVIOUS
<1>1. IInv
  BY InvInit
<1>2. \A o \in Op : request[o].at = "idle" /\ request[o].alone = FALSE
  BY DEF Init, Idle
<1>3. (\A o \in Op : AloneOK(o)) /\ ProjectOK
  BY <1>2 DEF Init, AloneOK, ProjectOK
<1> QED
  BY <1>1, <1>3 DEF AInv

LEMMA AloneNext == AInv /\ [Next]_vars => AInv'
<1> SUFFICES ASSUME AInv, [Next]_vars PROVE AInv'
  OBVIOUS
<1>1. IInv'
  BY InvNext DEF AInv
<1>2. ASSUME NEW o \in Op, Operate(o)
      PROVE  (\A p \in Op : AloneOK(p)') /\ ProjectOK'
  <2>1. ASSUME NEW c \in Cred, NEW answer \in ProviderAnswer, RevokeListed(o, c, answer)
        PROVE  \A p \in Op : AloneOK(p)'
    BY <2>1, RevokeAlone DEF RevokeListed
  <2>2. ASSUME NEW answer \in ProviderAnswer, RevokeOne(o, answer)
        PROVE  \A p \in Op : AloneOK(p)'
    <3>1. PICK c \in Cred : c = request[o].current
      BY <2>2 DEF RevokeOne, AInv, IInv, RequestOK
    <3>2. request[o].at = "revokingOne" /\ Revoke(o, c, answer, "markingOne")
      BY <2>2, <3>1 DEF RevokeOne
    <3> QED
      BY <3>2, RevokeAlone
  <2>3. \A p \in Op : AloneOK(p)'
    BY <1>2, <2>1, <2>2, BeginningAlone, MarkAlone, IssueAlone, MirrorAlone, RestAlone
       DEF Operate
  <2> QED
    BY <1>2, <2>3, ProjectKeeps
<1>3. CASE UNCHANGED vars
  <2>1. request' = request /\ kind' = kind /\ handedOut' = handedOut /\ mirror' = mirror
        /\ project' = project /\ provider' = provider
    BY <1>3 DEF vars
  <2>2. ProjectOK'
    BY <2>1 DEF AInv, ProjectOK
  <2>3. ASSUME NEW o \in Op PROVE AloneOK(o)'
    <3>1. AloneOK(o)
      BY DEF AInv
    <3> QED
      BY <2>1, <3>1 DEF AloneOK, Listed
  <2> QED
    BY <1>1, <2>2, <2>3 DEF AInv
<1> QED
  BY <1>1, <1>2, <1>3 DEF Next, AInv

\* When a rotation that nothing overlapped is about to hand its key out, that key
\* is the only one of its kind in the list, and no other that was handed out still
\* works but those whose revocation the provider refused or did not answer.
THEOREM RotationRecovers == Spec => []RotationAloneReplaces
<1>1. AInv => RotationAloneReplaces
  <2> SUFFICES ASSUME AInv, NEW o \in Op, request[o].at = "answering", request[o].alone,
                      NEW c \in request[o].issued, kind[c] \in Keys
               PROVE  /\ Listed(kind[c]) = {c}
                      /\ \A d \in handedOut \ unsure : kind[d] = kind[c] => provider[d] # "live"
    BY DEF RotationAloneReplaces
  <2>1. Listed(kind[c]) = {c} /\ c \notin handedOut
    BY DEF AInv, AloneOK
  <2>2. ASSUME NEW d \in handedOut \ unsure, kind[d] = kind[c], provider[d] = "live"
        PROVE  FALSE
    <3>1. d \in Cred /\ mirror[d] = "listed"
      BY <2>2 DEF AInv, IInv, TypeOK, RevokedIsDead, HandedOutIsMirrored
    <3>2. d \in Listed(kind[c])
      BY <2>2, <3>1 DEF Listed
    <3> QED
      BY <2>1, <2>2, <3>2
  <2> QED
    BY <2>1, <2>2
<1> QED
  BY <1>1, AloneInit, AloneNext, PTL DEF Spec

-----------------------------------------------------------------------------
(***************************************************************************)
(* The stored sessions.                                                    *)
(***************************************************************************)
\* What is in the file f, when it is a session.
OfFile(bytes, f) == bytes \in Session => bytes.role = f[1] /\ bytes.env = f[2]

\* What a call has collected, and the roles it has still to resolve.
CollectedFrom(t, es, roles) ==
    /\ \A i \in DOMAIN es :
          /\ es[i].env = EnvOf[t] /\ es[i].role \in Range(RolesOf[t])
          /\ \A j \in DOMAIN es : es[i].role = es[j].role => i = j
          /\ \A j \in DOMAIN roles : es[i].role # roles[j]
    /\ IsInjective(roles) /\ Range(roles) \subseteq Range(RolesOf[t])

CollectedOK(t) ==
    /\ CollectedFrom(t, entries[t], todo[t])
    /\ stage[t] = "idle" => entries[t] = <<>>

AskedOK(t) ==
    /\ stage[t] \in {"reading", "asking", "opening", "writing"} => todo[t] # <<>>
    /\ stage[t] = "asking" => OfFile(raw[t], CacheFile(t))
    /\ stage[t] \in {"opening", "writing"} => state[t] \in Session /\ OfFile(state[t], CacheFile(t))

MergedOK(t) ==
    stage[t] = "resolved" =>
        \/ entries[t] = <<>>
        \/ seeds[t] = MergeStates(entries[t]) /\ (flags.strict => ~IdentityConflict(entries[t]))

DiskOK == \A f \in File : OfFile(disk[f], f)

SessionsInv ==
    /\ SSTypeOK /\ DiskOK
    /\ \A t \in Thread : CollectedOK(t) /\ AskedOK(t) /\ MergedOK(t)

\* While a call is alone, the cache is what it has found and made of it.
HealsOK(t) ==
    /\ \A i \in DOMAIN entries[t] : disk[<<entries[t][i].role, entries[t][i].env>>] = entries[t][i]
    /\ stage[t] = "asking" /\ raw[t] \in Session => disk[CacheFile(t)] = raw[t]
    /\ stage[t] = "writing" => disk[CacheFile(t)] = Empty

AloneInv ==
    /\ SessionsInv
    /\ \A t \in undisturbed : stage[t] # "idle"
    /\ \A t \in undisturbed : t \in Busy => Busy = {t} /\ HealsOK(t)

-----------------------------------------------------------------------------
(***************************************************************************)
(* The merge.                                                              *)
(***************************************************************************)
LEMMA MaxIsGreatest ==
    ASSUME NEW n \in Nat, NEW S \in SUBSET (1..n), S # {}
    PROVE  Max(S) \in S /\ \A k \in S : k <= Max(S)
<1> DEFINE T == {d \in Nat : n - d \in S}
<1>1. PICK k \in S : TRUE
  OBVIOUS
<1>2. n - k \in T
  <2>1. n - k \in Nat /\ n - (n - k) = k
    OBVIOUS
  <2> QED
    BY <2>1
<1>3. PICK d \in T : \A e \in T : <<e, d>> \notin OpToRel(<, Nat)
  BY <1>2, NatLessThanWellFounded, WFMin, Zenon
<1>4. d \in Nat /\ n - d \in S /\ \A e \in T : e \in Nat /\ ~(e < d)
  BY <1>3 DEF OpToRel
<1>5. ASSUME NEW m \in S PROVE n - d >= m
  <2>1. n - m \in Nat /\ n - (n - m) = m
    OBVIOUS
  <2>2. n - m \in T
    BY <2>1
  <2>3. ~(n - m < d)
    BY <1>4, <2>2
  <2> QED
    BY <1>4, <2>1, <2>3
<1> HIDE DEF T
<1>6. \E x \in S : \A y \in S : x >= y
  BY <1>4, <1>5
<1>7. Max(S) \in S /\ \A y \in S : Max(S) >= y
  BY <1>6 DEF Max
<1> QED
  BY <1>7

\* Every key of a session that was collected is seeded, by it or by a later one.
LEMMA LaterWins ==
    ASSUME NEW es \in Seq(Session), NEW i \in DOMAIN es, NEW k \in SetBy[es[i].role]
    PROVE  /\ k \in DOMAIN MergeStates(es)
           /\ \E j \in DOMAIN es : j >= i /\ k \in SetBy[es[j].role] /\ MergeStates(es)[k] = es[j]
<1> DEFINE S == {j \in DOMAIN es : k \in SetBy[es[j].role]}
           K == UNION {SetBy[es[j].role] : j \in DOMAIN es}
<1>1. DOMAIN es = 1..Len(es) /\ Len(es) \in Nat
  OBVIOUS
<1>2. S \subseteq 1..Len(es) /\ i \in S
  BY <1>1
<1>3. Max(S) \in S /\ Max(S) >= i
  <2>1. Max(S) \in S /\ \A j \in S : j <= Max(S)
    BY <1>1, <1>2, MaxIsGreatest
  <2> QED
    BY <1>1, <1>2, <2>1
<1>4. k \in K
  OBVIOUS
<1>5. k \in DOMAIN MergeStates(es) /\ MergeStates(es)[k] = es[Max(S)]
  BY <1>4 DEF MergeStates
<1> QED
  BY <1>3, <1>5

LEMMA MergedTypes ==
    ASSUME NEW es \in Seq(Session)
    PROVE  DOMAIN MergeStates(es) \subseteq Key /\ Range(MergeStates(es)) \subseteq Session
<1>1. \A j \in DOMAIN es : es[j] \in Session /\ es[j].role \in Role
  <2>1. \A j \in DOMAIN es : es[j] \in Session
    OBVIOUS
  <2> QED
    BY <2>1 DEF Session
<1>2. DOMAIN MergeStates(es) = UNION {SetBy[es[j].role] : j \in DOMAIN es}
  BY DEF MergeStates
<1>3. \A j \in DOMAIN es : SetBy[es[j].role] \subseteq Key
  BY <1>1, SessionsAssumption
<1>4. ASSUME NEW k \in DOMAIN MergeStates(es) PROVE MergeStates(es)[k] \in Session
  <2>1. PICK j \in DOMAIN es : k \in SetBy[es[j].role]
    BY <1>2
  <2> QED
    BY <1>1, <2>1, LaterWins
<1> QED
  BY <1>2, <1>3, <1>4 DEF Range

-----------------------------------------------------------------------------
(***************************************************************************)
(* A call goes from role to role.                                          *)
(***************************************************************************)
LEMMA TailOf ==
    ASSUME NEW S, NEW roles \in Seq(S), roles # <<>>
    PROVE  /\ Tail(roles) \in Seq(S) /\ 1 \in DOMAIN roles /\ Head(roles) = roles[1]
           /\ \A j \in DOMAIN Tail(roles) : /\ j + 1 \in DOMAIN roles /\ j \in Nat \ {0}
                                            /\ Tail(roles)[j] = roles[j + 1]
           /\ Len(roles) # 1 => Tail(roles) # <<>>
<1>1. Len(roles) \in Nat /\ Len(roles) >= 1 /\ DOMAIN roles = 1..Len(roles)
  OBVIOUS
<1>2. /\ Tail(roles) \in Seq(S) /\ Head(roles) = roles[1]
      /\ DOMAIN Tail(roles) = 1..(Len(roles) - 1) /\ Len(Tail(roles)) = Len(roles) - 1
      /\ \A j \in 1..(Len(roles) - 1) : Tail(roles)[j] = roles[j + 1]
  BY <1>1
<1>3. \A j \in 1..(Len(roles) - 1) : j + 1 \in 1..Len(roles) /\ j \in Nat \ {0}
  BY <1>1
<1>4. Len(roles) # 1 => Tail(roles) # <<>>
  <2>1. Len(roles) # 1 => Len(Tail(roles)) # 0
    BY <1>1, <1>2
  <2> QED
    BY <2>1
<1> QED
  BY <1>1, <1>2, <1>3, <1>4

LEMMA RoleSkipped ==
    ASSUME NEW t \in Thread, NEW es \in Seq(Session), NEW roles \in Seq(Role), roles # <<>>,
           CollectedFrom(t, es, roles)
    PROVE  CollectedFrom(t, es, Tail(roles))
<1>1. \A j \in DOMAIN Tail(roles) : /\ j + 1 \in DOMAIN roles /\ j \in Nat
                                     /\ Tail(roles)[j] = roles[j + 1]
  BY TailOf
<1>2. IsInjective(Tail(roles))
  BY <1>1 DEF IsInjective, CollectedFrom
<1>3. Range(Tail(roles)) \subseteq Range(RolesOf[t])
  <2>1. \A j \in DOMAIN Tail(roles) : Tail(roles)[j] \in Range(roles)
    BY <1>1 DEF Range
  <2> QED
    BY <2>1 DEF Range, CollectedFrom
<1>4. \A i \in DOMAIN es : \A j \in DOMAIN Tail(roles) : es[i].role # Tail(roles)[j]
  BY <1>1 DEF CollectedFrom
<1> QED
  BY <1>2, <1>3, <1>4 DEF CollectedFrom

LEMMA RoleCollected ==
    ASSUME NEW t \in Thread, NEW es \in Seq(Session), NEW roles \in Seq(Role), roles # <<>>,
           CollectedFrom(t, es, roles),
           NEW e \in Session, e.role = Head(roles), e.env = EnvOf[t]
    PROVE  Append(es, e) \in Seq(Session) /\ CollectedFrom(t, Append(es, e), Tail(roles))
<1> DEFINE longer == Append(es, e)
           l == Len(es)
<1>1. /\ l \in Nat /\ DOMAIN es = 1..l /\ longer \in Seq(Session) /\ DOMAIN longer = 1..(l + 1)
      /\ \A i \in 1..l : longer[i] = es[i]
      /\ longer[l + 1] = e
  OBVIOUS
<1> HIDE DEF longer, l
<1>2. \A i \in DOMAIN longer : i \in DOMAIN es \/ i = l + 1
  BY <1>1
<1>3. /\ 1 \in DOMAIN roles /\ e.role = roles[1]
      /\ \A j \in DOMAIN Tail(roles) : /\ j + 1 \in DOMAIN roles /\ j \in Nat \ {0}
                                       /\ Tail(roles)[j] = roles[j + 1]
  BY TailOf
<1>4. CollectedFrom(t, es, Tail(roles))
  BY RoleSkipped
<1>5. e.role \in Range(RolesOf[t])
  BY <1>3 DEF CollectedFrom, Range
<1>6. \A i \in DOMAIN es : es[i].role # e.role
  BY <1>3 DEF CollectedFrom
<1>7. \A j \in DOMAIN Tail(roles) : e.role # Tail(roles)[j]
  <2> SUFFICES ASSUME NEW j \in DOMAIN Tail(roles) PROVE roles[1] # roles[j + 1]
    BY <1>3
  <2>1. j + 1 \in DOMAIN roles /\ j + 1 # 1
    BY <1>3
  <2> QED
    BY <1>3, <2>1 DEF CollectedFrom, IsInjective
<1>8. ASSUME NEW i \in DOMAIN longer
      PROVE  /\ longer[i].env = EnvOf[t] /\ longer[i].role \in Range(RolesOf[t])
             /\ \A j \in DOMAIN longer : longer[i].role = longer[j].role => i = j
             /\ \A j \in DOMAIN Tail(roles) : longer[i].role # Tail(roles)[j]
  <2>1. CASE i = l + 1
    <3>1. longer[i] = e
      BY <1>1, <2>1
    <3>2. \A j \in DOMAIN longer : longer[i].role = longer[j].role => i = j
      BY <1>1, <1>2, <1>6, <2>1, <3>1
    <3> QED
      BY <1>5, <1>7, <3>1, <3>2
  <2>2. CASE i \in DOMAIN es
    <3>1. longer[i] = es[i]
      BY <1>1, <2>2
    <3>2. \A j \in DOMAIN longer : longer[i].role = longer[j].role => i = j
      BY <1>1, <1>2, <1>4, <1>6, <2>2, <3>1 DEF CollectedFrom
    <3> QED
      BY <1>4, <2>2, <3>1, <3>2 DEF CollectedFrom
  <2> QED
    BY <1>2, <2>1, <2>2
<1> QED
  BY <1>1, <1>4, <1>8 DEF CollectedFrom, longer

-----------------------------------------------------------------------------
(***************************************************************************)
(* The invariant.                                                          *)
(***************************************************************************)
LEMMA InitSessionsInv == SSInit => SessionsInv
<1> SUFFICES ASSUME SSInit PROVE SessionsInv
  OBVIOUS
<1>1. /\ logins \in [File -> 0..MaxLogins]
      /\ \A t \in Thread : DOMAIN seeds[t] = {} /\ Range(seeds[t]) = {}
  BY SessionsAssumption DEF SSInit, Nothing, Range
<1>2. SSTypeOK
  BY <1>1, SessionsAssumption DEF SSInit, SSTypeOK, Working
<1>3. DiskOK
  BY SessionsAssumption DEF SSInit, DiskOK, OfFile
<1>4. \A t \in Thread : CollectedOK(t) /\ AskedOK(t) /\ MergedOK(t)
  BY SessionsAssumption DEF SSInit, CollectedOK, CollectedFrom, AskedOK, MergedOK
<1> QED
  BY <1>2, <1>3, <1>4 DEF SessionsInv

\* A step of one call leaves the variables of the others alone.
OnlyCall(t) ==
    \A u \in Thread \ {t} :
        /\ stage'[u] = stage[u] /\ raw'[u] = raw[u] /\ state'[u] = state[u]
        /\ entries'[u] = entries[u] /\ todo'[u] = todo[u] /\ seeds'[u] = seeds[u]

LEMMA StepOfOne ==
    ASSUME SessionsInv, NEW t \in Thread, OnlyCall(t), flags' = flags, SSTypeOK', DiskOK',
           CollectedOK(t)', AskedOK(t)', MergedOK(t)'
    PROVE  SessionsInv'
<1>1. ASSUME NEW u \in Thread PROVE CollectedOK(u)' /\ AskedOK(u)' /\ MergedOK(u)'
  <2>1. CASE u = t
    BY <2>1
  <2>2. CASE u # t
    <3>1. /\ stage'[u] = stage[u] /\ raw'[u] = raw[u] /\ state'[u] = state[u]
          /\ entries'[u] = entries[u] /\ todo'[u] = todo[u] /\ seeds'[u] = seeds[u]
      BY <2>2 DEF OnlyCall
    <3>2. CollectedOK(u) /\ AskedOK(u) /\ MergedOK(u)
      BY DEF SessionsInv
    <3>3. CollectedOK(u)'
      BY <3>1, <3>2 DEF CollectedOK, CollectedFrom
    <3>4. AskedOK(u)'
      BY <3>1, <3>2 DEF AskedOK, OfFile, CacheFile
    <3>5. MergedOK(u)'
      BY <3>1, <3>2 DEF MergedOK, MergeStates, IdentityConflict
    <3> QED
      BY <3>3, <3>4, <3>5
  <2> QED
    BY <2>1, <2>2
<1> QED
  BY <1>1 DEF SessionsInv

\* The call t is through with a role, for which it has collected e or nothing.
LEMMA RoleDone ==
    ASSUME SessionsInv, NEW t \in Thread, stage[t] \in {"asking", "opening", "writing"},
           NextRole(t),
           \/ entries' = entries
           \/ \E e \in Session : /\ OfFile(e, CacheFile(t))
                                 /\ entries' = [entries EXCEPT ![t] = Append(@, e)]
    PROVE  /\ CollectedOK(t)' /\ AskedOK(t)' /\ MergedOK(t)'
           /\ stage' \in [Thread -> Working \cup {"idle", "resolved", "refused"}]
           /\ DOMAIN entries' = Thread /\ DOMAIN todo' = Thread
           /\ \A u \in Thread : entries'[u] \in Seq(Session) /\ todo'[u] \in Seq(Role)
           /\ \A u \in Thread \ {t} : /\ stage'[u] = stage[u] /\ entries'[u] = entries[u]
                                      /\ todo'[u] = todo[u]
<1>1. /\ SSTypeOK /\ CollectedFrom(t, entries[t], todo[t]) /\ todo[t] # <<>>
      /\ entries[t] \in Seq(Session) /\ todo[t] \in Seq(Role)
  BY DEF SessionsInv, CollectedOK, AskedOK, SSTypeOK
<1>2. /\ Tail(todo[t]) \in Seq(Role) /\ (Len(todo[t]) # 1 => Tail(todo[t]) # <<>>)
      /\ CollectedFrom(t, entries[t], Tail(todo[t]))
  BY <1>1, TailOf, RoleSkipped
<1>3. /\ todo' = [todo EXCEPT ![t] = Tail(todo[t])]
      /\ stage' = [stage EXCEPT ![t] = IF Len(todo[t]) = 1 THEN "merging" ELSE "reading"]
  BY DEF NextRole
<1>4. /\ DOMAIN todo' = Thread /\ todo'[t] = Tail(todo[t])
      /\ \A u \in Thread : todo'[u] \in Seq(Role)
      /\ \A u \in Thread \ {t} : todo'[u] = todo[u]
  BY <1>1, <1>2, <1>3 DEF SSTypeOK
<1>5. /\ stage' \in [Thread -> Working \cup {"idle", "resolved", "refused"}]
      /\ stage'[t] = "merging" \/ (stage'[t] = "reading" /\ todo'[t] # <<>>)
      /\ \A u \in Thread \ {t} : stage'[u] = stage[u]
  BY <1>1, <1>2, <1>3, <1>4 DEF SSTypeOK, Working
<1>6. /\ DOMAIN entries' = Thread
      /\ \A u \in Thread : entries'[u] \in Seq(Session)
      /\ \A u \in Thread \ {t} : entries'[u] = entries[u]
      /\ CollectedFrom(t, entries'[t], Tail(todo[t]))
  <2>1. CASE entries' = entries
    BY <1>1, <1>2, <2>1 DEF SSTypeOK
  <2>2. ASSUME NEW e \in Session, OfFile(e, CacheFile(t)),
               entries' = [entries EXCEPT ![t] = Append(entries[t], e)]
        PROVE  /\ DOMAIN entries' = Thread
               /\ \A u \in Thread : entries'[u] \in Seq(Session)
               /\ \A u \in Thread \ {t} : entries'[u] = entries[u]
               /\ CollectedFrom(t, entries'[t], Tail(todo[t]))
    <3>1. e.role = Head(todo[t]) /\ e.env = EnvOf[t]
      BY <2>2 DEF OfFile, CacheFile
    <3>2. /\ Append(entries[t], e) \in Seq(Session)
          /\ CollectedFrom(t, Append(entries[t], e), Tail(todo[t]))
      BY <1>1, <3>1, RoleCollected
    <3> QED
      BY <1>1, <2>2, <3>2 DEF SSTypeOK
  <2> QED
    BY <2>1, <2>2
<1>7. CollectedOK(t)'
  BY <1>4, <1>5, <1>6 DEF CollectedOK, CollectedFrom
<1>8. AskedOK(t)' /\ MergedOK(t)'
  BY <1>5 DEF AskedOK, MergedOK
<1> QED
  BY <1>4, <1>5, <1>6, <1>7, <1>8

LEMMA NextSessionsInv == SessionsInv /\ [SSNext]_ssVars => SessionsInv'
<1> SUFFICES ASSUME SessionsInv, [SSNext]_ssVars PROVE SessionsInv'
  OBVIOUS
<1> USE DEF callVars, cacheVars
<1>1. /\ SSTypeOK /\ DiskOK
      /\ \A t \in Thread : CollectedOK(t) /\ AskedOK(t) /\ MergedOK(t)
  BY DEF SessionsInv
<1>2. ASSUME UNCHANGED disk PROVE DiskOK'
  BY <1>1, <1>2 DEF DiskOK, OfFile
<1>3. ASSUME NEW t \in Thread, Resolve(t)
      PROVE  SessionsInv'
  <2>1. /\ UNCHANGED <<flags, disk, logins, raw, state, entries, todo, seeds>>
        /\ \/ stage' = [stage EXCEPT ![t] = "resolved"]
           \/ todo[t] # <<>> /\ stage' = [stage EXCEPT ![t] = "reading"]
        /\ stage[t] = "idle" /\ undisturbed' \subseteq Thread
    BY <1>1, <1>3 DEF Resolve, SSTypeOK
  <2>2. SSTypeOK' /\ OnlyCall(t)
    BY <1>1, <2>1 DEF SSTypeOK, Working, OnlyCall
  <2>3. stage'[t] \in {"resolved", "reading"} /\ (stage'[t] = "reading" => todo[t] # <<>>)
    BY <1>1, <2>1 DEF SSTypeOK
  <2>4. CollectedOK(t)' /\ AskedOK(t)' /\ MergedOK(t)'
    BY <1>1, <2>1, <2>3 DEF CollectedOK, CollectedFrom, AskedOK, MergedOK
  <2> QED
    BY <1>2, <2>1, <2>2, <2>4, StepOfOne
<1>4. ASSUME NEW t \in Thread, ReadCacheRaw(t)
      PROVE  SessionsInv'
  <2>1. /\ UNCHANGED <<flags, disk, logins, state, entries, todo, seeds, undisturbed>>
        /\ stage[t] = "reading" /\ stage' = [stage EXCEPT ![t] = "asking"]
        /\ raw' = [raw EXCEPT ![t] = IF flags.refresh THEN NoFile ELSE disk[CacheFile(t)]]
    BY <1>4 DEF ReadCacheRaw
  <2>2. todo[t] # <<>> /\ todo[t] \in Seq(Role)
    BY <1>1, <2>1 DEF AskedOK, SSTypeOK
  <2>3. CacheFile(t) \in File
    BY <2>2, TailOf, SessionsAssumption DEF CacheFile, File
  <2>4. /\ disk[CacheFile(t)] \in Session \cup {NoFile, Empty, Garbled}
        /\ OfFile(disk[CacheFile(t)], CacheFile(t))
    BY <1>1, <2>3 DEF SSTypeOK, DiskOK
  <2>5. /\ raw'[t] \in {NoFile, disk[CacheFile(t)]} /\ stage'[t] = "asking"
        /\ raw' \in [Thread -> Session \cup {NoFile, Empty, Garbled}]
    BY <1>1, <2>1, <2>4 DEF SSTypeOK
  <2>6. OfFile(raw'[t], CacheFile(t))
    BY <2>4, <2>5, SessionsAssumption DEF OfFile
  <2>7. SSTypeOK' /\ OnlyCall(t)
    BY <1>1, <2>1, <2>5 DEF SSTypeOK, Working, OnlyCall
  <2>8. CollectedOK(t)' /\ MergedOK(t)'
    BY <1>1, <2>1, <2>5 DEF CollectedOK, CollectedFrom, MergedOK
  <2>9. AskedOK(t)'
    BY <2>1, <2>2, <2>5, <2>6 DEF AskedOK, OfFile, CacheFile
  <2> QED
    BY <1>2, <2>1, <2>7, <2>8, <2>9, StepOfOne
<1>5. ASSUME NEW t \in Thread, Reuse(t)
      PROVE  SessionsInv'
  <2>1. /\ UNCHANGED <<flags, disk, logins, raw, state, seeds, undisturbed>>
        /\ stage[t] = "asking" /\ raw[t] \in Session /\ NextRole(t)
        /\ entries' = [entries EXCEPT ![t] = Append(@, raw[t])]
    BY <1>5 DEF Reuse, SafeParsed
  <2>2. OfFile(raw[t], CacheFile(t))
    BY <1>1, <2>1 DEF AskedOK
  <2>3. /\ CollectedOK(t)' /\ AskedOK(t)' /\ MergedOK(t)'
        /\ stage' \in [Thread -> Working \cup {"idle", "resolved", "refused"}]
        /\ DOMAIN entries' = Thread /\ DOMAIN todo' = Thread
        /\ \A u \in Thread : entries'[u] \in Seq(Session) /\ todo'[u] \in Seq(Role)
        /\ \A u \in Thread \ {t} : /\ stage'[u] = stage[u] /\ entries'[u] = entries[u]
                                   /\ todo'[u] = todo[u]
    BY <2>1, <2>2, RoleDone
  <2>4. SSTypeOK' /\ OnlyCall(t)
    BY <1>1, <2>1, <2>3 DEF SSTypeOK, OnlyCall
  <2> QED
    BY <1>2, <2>1, <2>3, <2>4, StepOfOne
<1>6. ASSUME NEW t \in Thread, LogIn(t)
      PROVE  SessionsInv'
  <2> DEFINE f == CacheFile(t)
             e == [role |-> f[1], env |-> f[2], login |-> logins[f] + 1]
  <2>1. /\ UNCHANGED <<flags, disk, raw, seeds, undisturbed>>
        /\ stage[t] = "asking" /\ logins[f] < MaxLogins
        /\ logins' = [logins EXCEPT ![f] = @ + 1]
        /\ state' = [state EXCEPT ![t] = e]
        /\ \/ entries' = [entries EXCEPT ![t] = Append(@, state'[t])] /\ NextRole(t)
           \/ stage' = [stage EXCEPT ![t] = "opening"] /\ UNCHANGED <<entries, todo>>
    BY <1>6 DEF LogIn, CacheFile
  <2>2. todo[t] # <<>> /\ todo[t] \in Seq(Role)
    BY <1>1, <2>1 DEF AskedOK, SSTypeOK
  <2>3. f \in File /\ f[1] \in Role /\ f[2] \in Env
    BY <2>2, TailOf, SessionsAssumption DEF CacheFile, File
  <2>4. logins[f] + 1 \in 1..MaxLogins /\ logins' \in [File -> 0..MaxLogins]
    <3>1. logins[f] \in 0..MaxLogins /\ MaxLogins \in Nat
      BY <1>1, <2>3, SessionsAssumption DEF SSTypeOK
    <3>2. logins[f] + 1 \in 1..MaxLogins /\ logins[f] + 1 \in 0..MaxLogins
      BY <2>1, <3>1
    <3> QED
      BY <1>1, <2>1, <3>2 DEF SSTypeOK
  <2>5. e \in Session /\ OfFile(e, f)
    BY <2>3, <2>4 DEF Session, OfFile
  <2> HIDE DEF e
  <2>6. state'[t] = e /\ state' \in [Thread -> Session \cup {NoFile}]
    BY <1>1, <2>1, <2>5 DEF SSTypeOK
  <2>7. CASE entries' = [entries EXCEPT ![t] = Append(@, state'[t])] /\ NextRole(t)
    <3>1. /\ CollectedOK(t)' /\ AskedOK(t)' /\ MergedOK(t)'
          /\ stage' \in [Thread -> Working \cup {"idle", "resolved", "refused"}]
          /\ DOMAIN entries' = Thread /\ DOMAIN todo' = Thread
          /\ \A u \in Thread : entries'[u] \in Seq(Session) /\ todo'[u] \in Seq(Role)
          /\ \A u \in Thread \ {t} : /\ stage'[u] = stage[u] /\ entries'[u] = entries[u]
                                     /\ todo'[u] = todo[u]
      <4>1. entries' = [entries EXCEPT ![t] = Append(@, e)]
        BY <2>6, <2>7
      <4> QED
        BY <2>1, <2>5, <2>7, <4>1, RoleDone
    <3>2. SSTypeOK' /\ OnlyCall(t)
      BY <1>1, <2>1, <2>4, <2>6, <3>1 DEF SSTypeOK, OnlyCall
    <3> QED
      BY <1>2, <2>1, <3>1, <3>2, StepOfOne
  <2>8. CASE stage' = [stage EXCEPT ![t] = "opening"] /\ UNCHANGED <<entries, todo>>
    <3>1. SSTypeOK' /\ OnlyCall(t) /\ stage'[t] = "opening"
      BY <1>1, <2>1, <2>4, <2>6, <2>8 DEF SSTypeOK, OnlyCall, Working
    <3>2. CollectedOK(t)' /\ MergedOK(t)'
      BY <1>1, <2>1, <2>8, <3>1 DEF CollectedOK, CollectedFrom, MergedOK
    <3>3. AskedOK(t)'
      BY <2>2, <2>5, <2>6, <2>8, <3>1 DEF AskedOK, OfFile, CacheFile
    <3> QED
      BY <1>2, <2>1, <3>1, <3>2, <3>3, StepOfOne
  <2> QED
    BY <2>1, <2>7, <2>8
<1>7. ASSUME NEW t \in Thread, Disown(t)
      PROVE  SessionsInv'
  <2>1. /\ UNCHANGED <<flags, disk, logins, raw, state, entries, seeds, undisturbed>>
        /\ stage[t] = "asking" /\ NextRole(t)
    BY <1>7 DEF Disown
  <2>2. /\ CollectedOK(t)' /\ AskedOK(t)' /\ MergedOK(t)'
        /\ stage' \in [Thread -> Working \cup {"idle", "resolved", "refused"}]
        /\ DOMAIN entries' = Thread /\ DOMAIN todo' = Thread
        /\ \A u \in Thread : entries'[u] \in Seq(Session) /\ todo'[u] \in Seq(Role)
        /\ \A u \in Thread \ {t} : /\ stage'[u] = stage[u] /\ entries'[u] = entries[u]
                                   /\ todo'[u] = todo[u]
    BY <2>1, RoleDone
  <2>3. SSTypeOK' /\ OnlyCall(t)
    BY <1>1, <2>1, <2>2 DEF SSTypeOK, OnlyCall
  <2> QED
    BY <1>2, <2>1, <2>2, <2>3, StepOfOne
<1>8. ASSUME NEW t \in Thread, OpenFile(t)
      PROVE  SessionsInv'
  <2>1. /\ UNCHANGED <<flags, logins, raw, state, entries, todo, seeds, undisturbed>>
        /\ stage[t] = "opening" /\ stage' = [stage EXCEPT ![t] = "writing"]
        /\ disk' = [disk EXCEPT ![CacheFile(t)] = Empty]
    BY <1>8 DEF OpenFile
  <2>2. SSTypeOK' /\ OnlyCall(t) /\ stage'[t] = "writing"
    BY <1>1, <2>1 DEF SSTypeOK, OnlyCall, Working
  <2>3. DiskOK'
    BY <1>1, <2>1, SessionsAssumption DEF SSTypeOK, DiskOK, OfFile
  <2>4. CollectedOK(t)' /\ AskedOK(t)' /\ MergedOK(t)'
    BY <1>1, <2>1, <2>2 DEF CollectedOK, CollectedFrom, AskedOK, OfFile, CacheFile, MergedOK
  <2> QED
    BY <2>1, <2>2, <2>3, <2>4, StepOfOne
<1>9. ASSUME NEW t \in Thread, WriteFile(t)
      PROVE  SessionsInv'
  <2>1. /\ UNCHANGED <<flags, logins, raw, state, seeds, undisturbed>>
        /\ stage[t] = "writing" /\ NextRole(t)
        /\ disk' \in {[disk EXCEPT ![CacheFile(t)] = bytes] : bytes \in {state[t], Garbled}}
        /\ entries' = [entries EXCEPT ![t] = Append(@, state[t])]
    BY <1>9 DEF WriteFile
  <2>2. state[t] \in Session /\ OfFile(state[t], CacheFile(t))
    BY <1>1, <2>1 DEF AskedOK
  <2>3. disk' \in [File -> Session \cup {NoFile, Empty, Garbled}] /\ DiskOK'
    <3>1. PICK bytes \in {state[t], Garbled} : disk' = [disk EXCEPT ![CacheFile(t)] = bytes]
      BY <2>1
    <3>2. bytes \in Session \cup {NoFile, Empty, Garbled} /\ OfFile(bytes, CacheFile(t))
      BY <2>2, SessionsAssumption DEF OfFile
    <3>3. disk' \in [File -> Session \cup {NoFile, Empty, Garbled}]
      BY <1>1, <3>1, <3>2 DEF SSTypeOK
    <3>4. ASSUME NEW f \in File PROVE OfFile(disk'[f], f)
      <4>1. disk'[f] = IF f = CacheFile(t) THEN bytes ELSE disk[f]
        BY <1>1, <3>1 DEF SSTypeOK
      <4> QED
        BY <1>1, <3>2, <4>1 DEF DiskOK
    <3> QED
      BY <3>3, <3>4 DEF DiskOK, OfFile
  <2>4. /\ CollectedOK(t)' /\ AskedOK(t)' /\ MergedOK(t)'
        /\ stage' \in [Thread -> Working \cup {"idle", "resolved", "refused"}]
        /\ DOMAIN entries' = Thread /\ DOMAIN todo' = Thread
        /\ \A u \in Thread : entries'[u] \in Seq(Session) /\ todo'[u] \in Seq(Role)
        /\ \A u \in Thread \ {t} : /\ stage'[u] = stage[u] /\ entries'[u] = entries[u]
                                   /\ todo'[u] = todo[u]
    BY <2>1, <2>2, RoleDone
  <2>5. SSTypeOK' /\ OnlyCall(t)
    BY <1>1, <2>1, <2>3, <2>4 DEF SSTypeOK, OnlyCall
  <2> QED
    BY <2>1, <2>3, <2>4, <2>5, StepOfOne
<1>10. ASSUME NEW t \in Thread, Break(t)
       PROVE  SessionsInv'
  <2>1. /\ UNCHANGED <<flags, disk, logins, raw, state, entries, todo, seeds, undisturbed>>
        /\ stage' = [stage EXCEPT ![t] = "refused"]
    BY <1>10 DEF Break
  <2>2. SSTypeOK' /\ OnlyCall(t) /\ stage'[t] = "refused"
    BY <1>1, <2>1 DEF SSTypeOK, OnlyCall
  <2>3. CollectedOK(t)' /\ AskedOK(t)' /\ MergedOK(t)'
    BY <1>1, <2>1, <2>2 DEF CollectedOK, CollectedFrom, AskedOK, MergedOK
  <2> QED
    BY <1>2, <2>1, <2>2, <2>3, StepOfOne
<1>11. ASSUME NEW t \in Thread, Merge(t)
       PROVE  SessionsInv'
  <2>1. /\ UNCHANGED <<flags, disk, logins, raw, state, entries, todo, undisturbed>>
        /\ \/ stage' = [stage EXCEPT ![t] = "refused"] /\ UNCHANGED seeds
           \/ /\ flags.strict => ~IdentityConflict(entries[t])
              /\ stage' = [stage EXCEPT ![t] = "resolved"]
              /\ seeds' = [seeds EXCEPT ![t] = MergeStates(entries[t])]
    BY <1>11 DEF Merge
  <2>2. /\ DOMAIN MergeStates(entries[t]) \subseteq Key
        /\ Range(MergeStates(entries[t])) \subseteq Session
    BY <1>1, MergedTypes DEF SSTypeOK
  <2>3. /\ stage' \in [Thread -> Working \cup {"idle", "resolved", "refused"}]
        /\ DOMAIN seeds' = Thread
        /\ \A u \in Thread : DOMAIN seeds'[u] \subseteq Key /\ Range(seeds'[u]) \subseteq Session
        /\ \A u \in Thread \ {t} : stage'[u] = stage[u] /\ seeds'[u] = seeds[u]
        /\ \/ stage'[t] = "refused"
           \/ /\ stage'[t] = "resolved" /\ seeds'[t] = MergeStates(entries[t])
              /\ flags.strict => ~IdentityConflict(entries[t])
    BY <1>1, <2>1, <2>2 DEF SSTypeOK
  <2>4. SSTypeOK' /\ OnlyCall(t)
    BY <1>1, <2>1, <2>3 DEF SSTypeOK, OnlyCall
  <2>5. CollectedOK(t)' /\ AskedOK(t)'
    BY <1>1, <2>1, <2>3 DEF CollectedOK, CollectedFrom, AskedOK
  <2>6. MergedOK(t)'
    BY <2>1, <2>3 DEF MergedOK
  <2> QED
    BY <1>2, <2>1, <2>4, <2>5, <2>6, StepOfOne
<1>12. CASE UNCHANGED ssVars
  <2>1. SSTypeOK' /\ DiskOK'
    BY <1>1, <1>2, <1>12 DEF ssVars, SSTypeOK
  <2>2. ASSUME NEW t \in Thread PROVE CollectedOK(t)' /\ AskedOK(t)' /\ MergedOK(t)'
    <3>1. CollectedOK(t)' /\ AskedOK(t)'
      BY <1>1, <1>12 DEF ssVars, CollectedOK, CollectedFrom, AskedOK, OfFile, CacheFile
    <3>2. MergedOK(t)'
      BY <1>1, <1>12 DEF ssVars, MergedOK
    <3> QED
      BY <3>1, <3>2
  <2> QED
    BY <2>1, <2>2 DEF SessionsInv
<1> QED
  BY <1>3, <1>4, <1>5, <1>6, <1>7, <1>8, <1>9, <1>10, <1>11, <1>12 DEF SSNext

LEMMA SessionsKept == SSSpec => []SessionsInv
  BY InitSessionsInv, NextSessionsInv, PTL DEF SSSpec

\* The state of every call and of the cache keeps its type.
THEOREM SessionsTypeCorrect == SSSpec => []SSTypeOK
<1>1. SessionsInv => SSTypeOK
  BY DEF SessionsInv
<1> QED
  BY <1>1, SessionsKept, PTL

\* Whatever the processes that share the cache do to its files, a scenario opens
\* with logins of its own roles in its own environment, the later of two that set one
\* key, and under OPICE_AUTH_STRICT with none that another overrode: for any
\* roles, keys, environments and number of calls.
THEOREM SessionsStayOwn == SSSpec => []SeededAsDeclared
<1>1. SessionsInv => SeededAsDeclared
  <2> SUFFICES ASSUME SessionsInv, NEW t \in Thread
               PROVE  /\ \A i \in DOMAIN entries[t] :
                            entries[t][i].env = EnvOf[t] /\ entries[t][i].role \in Range(RolesOf[t])
                      /\ stage[t] = "resolved" =>
                            \A i \in DOMAIN entries[t], k \in Key :
                                k \in SetBy[entries[t][i].role] =>
                                    /\ k \in DOMAIN seeds[t]
                                    /\ seeds[t][k] = entries[t][i]
                                       \/ /\ \E j \in DOMAIN entries[t] :
                                                j > i /\ seeds[t][k] = entries[t][j]
                                          /\ flags.strict => k \in Unwatched
    BY DEF SeededAsDeclared
  <2> DEFINE es == entries[t]
  <2>1. es \in Seq(Session) /\ CollectedFrom(t, es, todo[t]) /\ MergedOK(t)
    BY DEF SessionsInv, SSTypeOK, CollectedOK
  <2>2. ASSUME stage[t] = "resolved", NEW i \in DOMAIN es, NEW k \in Key,
               k \in SetBy[es[i].role]
        PROVE  /\ k \in DOMAIN seeds[t]
               /\ seeds[t][k] = es[i]
                  \/ /\ \E j \in DOMAIN es : j > i /\ seeds[t][k] = es[j]
                     /\ flags.strict => k \in Unwatched
    <3>1. seeds[t] = MergeStates(es) /\ (flags.strict => ~IdentityConflict(es))
      <4>1. DOMAIN es # {}
        BY <2>2
      <4>2. es # <<>>
        BY <4>1
      <4> QED
        BY <2>1, <2>2, <4>2 DEF MergedOK
    <3> HIDE DEF es
    <3>2. PICK j \in DOMAIN es : /\ j >= i /\ k \in SetBy[es[j].role]
                                 /\ k \in DOMAIN seeds[t] /\ seeds[t][k] = es[j]
      BY <2>1, <2>2, <3>1, LaterWins
    <3>3. i \in Nat /\ j \in Nat
      BY <2>1
    <3>4. CASE j = i
      BY <3>2, <3>4
    <3>5. CASE j # i
      <4>1. es[i].role # es[j].role
        BY <2>1, <3>5 DEF CollectedFrom
      <4>2. flags.strict => k \in Unwatched
        BY <2>2, <3>1, <3>2, <4>1 DEF IdentityConflict
      <4> QED
        BY <3>2, <3>3, <3>5, <4>2
    <3> QED
      BY <3>4, <3>5
  <2> QED
    BY <2>1, <2>2 DEF CollectedFrom
<1> QED
  BY <1>1, SessionsKept, PTL

-----------------------------------------------------------------------------
(***************************************************************************)
(* A call that no other overlaps.                                          *)
(***************************************************************************)
\* What it has collected is of other files than the one it is at.
LEMMA OtherFiles ==
    ASSUME SessionsInv, NEW t \in Thread, stage[t] \in {"asking", "opening", "writing"},
           NEW i \in DOMAIN entries[t]
    PROVE  <<entries[t][i].role, entries[t][i].env>> \in File \ {CacheFile(t)}
<1>1. /\ CollectedFrom(t, entries[t], todo[t]) /\ todo[t] # <<>>
      /\ entries[t] \in Seq(Session) /\ todo[t] \in Seq(Role)
  BY DEF SessionsInv, CollectedOK, AskedOK, SSTypeOK
<1>2. entries[t][i] \in Session
  BY <1>1
<1>3. entries[t][i].role # Head(todo[t])
  BY <1>1, TailOf DEF CollectedFrom
<1> QED
  BY <1>2, <1>3 DEF CacheFile, File, Session

LEMMA FileInHand ==
    ASSUME SessionsInv, NEW t \in Thread, stage[t] \in {"asking", "opening", "writing"}
    PROVE  CacheFile(t) \in File
<1>1. todo[t] # <<>> /\ todo[t] \in Seq(Role)
  BY DEF SessionsInv, AskedOK, SSTypeOK
<1> QED
  BY <1>1, TailOf, SessionsAssumption DEF CacheFile, File

\* The call t has collected e, which is what the file of its role holds.
LEMMA CollectedFromDisk ==
    ASSUME SessionsInv, NEW t \in Thread, stage[t] \in {"asking", "opening", "writing"},
           NEW e \in Session, OfFile(e, CacheFile(t)), disk'[CacheFile(t)] = e,
           \A f \in File \ {CacheFile(t)} : disk'[f] = disk[f],
           \A i \in DOMAIN entries[t] :
               disk[<<entries[t][i].role, entries[t][i].env>>] = entries[t][i],
           entries' = [entries EXCEPT ![t] = Append(@, e)]
    PROVE  \A i \in DOMAIN entries'[t] :
               disk'[<<entries'[t][i].role, entries'[t][i].env>>] = entries'[t][i]
<1>1. entries[t] \in Seq(Session) /\ entries'[t] = Append(entries[t], e)
  BY DEF SessionsInv, SSTypeOK
<1>2. <<e.role, e.env>> = CacheFile(t)
  BY DEF OfFile, CacheFile
<1>3. ASSUME NEW i \in DOMAIN entries'[t]
      PROVE  disk'[<<entries'[t][i].role, entries'[t][i].env>>] = entries'[t][i]
  <2>1. \/ i \in DOMAIN entries[t] /\ entries'[t][i] = entries[t][i]
        \/ entries'[t][i] = e
    BY <1>1, <1>3
  <2>2. CASE i \in DOMAIN entries[t] /\ entries'[t][i] = entries[t][i]
    BY <2>2, OtherFiles
  <2>3. CASE entries'[t][i] = e
    BY <1>2, <2>3
  <2> QED
    BY <2>1, <2>2, <2>3
<1> QED
  BY <1>3

LEMMA NextAloneInv == AloneInv /\ [SSNext]_ssVars => AloneInv'
<1> SUFFICES ASSUME AloneInv, [SSNext]_ssVars PROVE AloneInv'
  OBVIOUS
<1> USE DEF callVars, cacheVars
<1>1. /\ SessionsInv /\ SSTypeOK /\ SessionsInv'
      /\ \A t \in undisturbed : stage[t] # "idle"
      /\ \A t \in undisturbed : t \in Busy => Busy = {t} /\ HealsOK(t)
  BY NextSessionsInv DEF AloneInv, SessionsInv
\* A step of a call under way: if it was alone it still is.
<1>2. ASSUME NEW t \in Thread, t \in Busy, undisturbed' = undisturbed,
             stage'[t] # "idle", \A u \in Thread \ {t} : stage'[u] = stage[u],
             t \in undisturbed /\ HealsOK(t) /\ t \in Busy' => HealsOK(t)'
      PROVE  AloneInv'
  <2>1. ASSUME NEW u \in undisturbed' PROVE stage'[u] # "idle"
    BY <1>1, <1>2 DEF SSTypeOK
  <2>2. ASSUME NEW u \in undisturbed', u \in Busy'
        PROVE  Busy' = {u} /\ HealsOK(u)'
    <3>1. u \in Thread /\ u \in Busy
      BY <1>1, <1>2, <2>2 DEF SSTypeOK, Busy
    <3>2. Busy = {u} /\ u = t /\ HealsOK(t)
      BY <1>1, <1>2, <2>2, <3>1
    <3>3. Busy' = {u}
      BY <1>2, <2>2, <3>2 DEF Busy
    <3> QED
      BY <1>2, <2>2, <3>2, <3>3
  <2> QED
    BY <1>1, <2>1, <2>2 DEF AloneInv
<1>3. ASSUME NEW t \in Thread, Resolve(t)
      PROVE  AloneInv'
  <2>1. /\ UNCHANGED <<disk, raw, entries, todo>> /\ stage[t] = "idle"
        /\ \/ stage' = [stage EXCEPT ![t] = "resolved"] /\ undisturbed' = undisturbed
           \/ /\ stage' = [stage EXCEPT ![t] = "reading"]
              /\ undisturbed' = IF Busy = {} THEN undisturbed \cup {t} ELSE undisturbed \ Busy
    BY <1>3 DEF Resolve
  <2>2. /\ \A u \in Thread \ {t} : stage'[u] = stage[u] /\ (HealsOK(u) => HealsOK(u)')
        /\ stage'[t] \in {"resolved", "reading"} /\ t \notin Busy /\ t \notin undisturbed
    <3>1. /\ \A u \in Thread \ {t} : stage'[u] = stage[u]
          /\ stage'[t] \in {"resolved", "reading"} /\ t \notin Busy /\ t \notin undisturbed
      BY <1>1, <2>1 DEF SSTypeOK, Busy, Working
    <3>2. ASSUME NEW u \in Thread \ {t}, HealsOK(u) PROVE HealsOK(u)'
      BY <2>1, <3>1, <3>2 DEF HealsOK, CacheFile
    <3> QED
      BY <3>1, <3>2
  <2>3. ASSUME NEW u \in undisturbed' PROVE stage'[u] # "idle"
    BY <1>1, <2>1, <2>2 DEF SSTypeOK
  <2>4. ASSUME NEW u \in undisturbed', u \in Busy', u # t
        PROVE  Busy' = {u} /\ HealsOK(u)'
    <3>1. u \in Thread /\ u \in Busy /\ u \in undisturbed
      BY <1>1, <2>1, <2>2, <2>4 DEF SSTypeOK, Busy
    <3>2. Busy = {u} /\ HealsOK(u) /\ stage'[t] = "resolved"
      BY <1>1, <2>1, <2>4, <3>1 DEF SSTypeOK
    <3>3. Busy' = {u}
      BY <2>2, <2>4, <3>2 DEF Busy, Working
    <3> QED
      BY <2>2, <2>4, <3>1, <3>2, <3>3
  <2>5. ASSUME t \in undisturbed', t \in Busy'
        PROVE  Busy' = {t} /\ HealsOK(t)'
    <3>1. Busy = {} /\ stage'[t] = "reading"
      <4>1. stage'[t] = "reading"
        BY <2>2, <2>5 DEF Busy, Working
      <4> QED
        BY <2>1, <2>2, <2>5, <4>1
    <3>2. Busy' = {t}
      BY <2>2, <2>5, <3>1 DEF Busy
    <3>3. entries[t] = <<>>
      BY <1>1, <2>1 DEF SessionsInv, CollectedOK
    <3>4. HealsOK(t)'
      BY <2>1, <3>1, <3>3 DEF HealsOK
    <3> QED
      BY <3>2, <3>4
  <2> QED
    BY <1>1, <2>3, <2>4, <2>5 DEF AloneInv
<1>4. ASSUME NEW t \in Thread, ReadCacheRaw(t)
      PROVE  AloneInv'
  <2>1. /\ UNCHANGED <<disk, entries, todo, undisturbed>> /\ stage[t] = "reading"
        /\ stage' = [stage EXCEPT ![t] = "asking"]
        /\ raw' = [raw EXCEPT ![t] = IF flags.refresh THEN NoFile ELSE disk[CacheFile(t)]]
    BY <1>4 DEF ReadCacheRaw
  <2>2. /\ stage'[t] = "asking" /\ raw'[t] \in {NoFile, disk[CacheFile(t)]} /\ t \in Busy
        /\ \A u \in Thread \ {t} : stage'[u] = stage[u]
    BY <1>1, <2>1 DEF SSTypeOK, Busy, Working
  <2>3. HealsOK(t) => HealsOK(t)'
    BY <2>1, <2>2, SessionsAssumption DEF HealsOK, CacheFile
  <2> QED
    BY <1>2, <2>1, <2>2, <2>3
<1>5. ASSUME NEW t \in Thread, stage[t] \in {"asking", "writing"}, undisturbed' = undisturbed,
             NextRole(t),
             \/ entries' = entries /\ disk' = disk
             \/ \E e \in Session :
                    /\ OfFile(e, CacheFile(t))
                    /\ entries' = [entries EXCEPT ![t] = Append(@, e)]
                    /\ t \in undisturbed /\ HealsOK(t) =>
                           /\ disk'[CacheFile(t)] = e
                           /\ \A f \in File \ {CacheFile(t)} : disk'[f] = disk[f]
      PROVE  AloneInv'
  <2>1. /\ stage'[t] \in {"reading", "merging"} /\ t \in Busy
        /\ \A u \in Thread \ {t} : stage'[u] = stage[u]
    BY <1>1, <1>5 DEF NextRole, SSTypeOK, Busy, Working
  <2>2. ASSUME t \in undisturbed, HealsOK(t) PROVE HealsOK(t)'
    <3>1. \A i \in DOMAIN entries[t] :
              disk[<<entries[t][i].role, entries[t][i].env>>] = entries[t][i]
      BY <2>2 DEF HealsOK
    <3>2. \A i \in DOMAIN entries'[t] :
              disk'[<<entries'[t][i].role, entries'[t][i].env>>] = entries'[t][i]
      BY <1>1, <1>5, <2>2, <3>1, CollectedFromDisk
    <3> QED
      BY <2>1, <3>2 DEF HealsOK
  <2> QED
    BY <1>2, <1>5, <2>1, <2>2
<1>6. ASSUME NEW t \in Thread, Reuse(t)
      PROVE  AloneInv'
  <2>1. /\ UNCHANGED <<disk, undisturbed>> /\ stage[t] = "asking" /\ raw[t] \in Session
        /\ NextRole(t) /\ entries' = [entries EXCEPT ![t] = Append(@, raw[t])]
    BY <1>6 DEF Reuse, SafeParsed
  <2>2. OfFile(raw[t], CacheFile(t)) /\ (HealsOK(t) => disk[CacheFile(t)] = raw[t])
    BY <1>1, <2>1 DEF SessionsInv, AskedOK, HealsOK
  <2> QED
    BY <1>5, <2>1, <2>2
<1>7. ASSUME NEW t \in Thread, LogIn(t)
      PROVE  AloneInv'
  <2>1. /\ UNCHANGED <<disk, raw, undisturbed>> /\ stage[t] = "asking"
        /\ \/ /\ state'[t] = raw[t] /\ NextRole(t)
              /\ entries' = [entries EXCEPT ![t] = Append(@, state'[t])]
           \/ stage' = [stage EXCEPT ![t] = "opening"] /\ UNCHANGED <<entries, todo>>
        /\ state' = [state EXCEPT ![t] = [role |-> CacheFile(t)[1], env |-> CacheFile(t)[2],
                                          login |-> logins[CacheFile(t)] + 1]]
    BY <1>7 DEF LogIn, SameBytes, CacheFile
  <2>2. CASE /\ state'[t] = raw[t] /\ NextRole(t)
             /\ entries' = [entries EXCEPT ![t] = Append(@, state'[t])]
    <3>1. raw[t] \in Session
      BY <1>1, <2>1, <2>2, SessionsAssumption DEF SessionsInv, SSTypeOK
    <3>2. OfFile(raw[t], CacheFile(t)) /\ (HealsOK(t) => disk[CacheFile(t)] = raw[t])
      BY <1>1, <2>1, <3>1 DEF SessionsInv, AskedOK, HealsOK
    <3> QED
      BY <1>5, <2>1, <2>2, <3>1, <3>2
  <2>3. CASE stage' = [stage EXCEPT ![t] = "opening"] /\ UNCHANGED <<entries, todo>>
    <3>1. /\ stage'[t] = "opening" /\ t \in Busy
          /\ \A u \in Thread \ {t} : stage'[u] = stage[u]
      BY <1>1, <2>1, <2>3 DEF SSTypeOK, Busy, Working
    <3>2. HealsOK(t) => HealsOK(t)'
      BY <2>1, <2>3, <3>1 DEF HealsOK
    <3> QED
      BY <1>2, <2>1, <3>1, <3>2
  <2> QED
    BY <2>1, <2>2, <2>3
<1>8. ASSUME NEW t \in Thread, Disown(t)
      PROVE  AloneInv'
  BY <1>5, <1>8 DEF Disown
<1>9. ASSUME NEW t \in Thread, OpenFile(t)
      PROVE  AloneInv'
  <2>1. /\ UNCHANGED <<raw, entries, todo, undisturbed>> /\ stage[t] = "opening"
        /\ stage' = [stage EXCEPT ![t] = "writing"]
        /\ disk' = [disk EXCEPT ![CacheFile(t)] = Empty]
    BY <1>9 DEF OpenFile
  <2>2. /\ stage'[t] = "writing" /\ t \in Busy
        /\ \A u \in Thread \ {t} : stage'[u] = stage[u]
    BY <1>1, <2>1 DEF SSTypeOK, Busy, Working
  <2>3. /\ disk'[CacheFile(t)] = Empty
        /\ \A f \in File \ {CacheFile(t)} : disk'[f] = disk[f]
    BY <1>1, <2>1, FileInHand DEF SSTypeOK
  <2>4. HealsOK(t) => HealsOK(t)'
    <3>1. \A i \in DOMAIN entries[t] :
              <<entries[t][i].role, entries[t][i].env>> \in File \ {CacheFile(t)}
      BY <1>1, <2>1, OtherFiles
    <3> QED
      BY <2>1, <2>2, <2>3, <3>1 DEF HealsOK, CacheFile
  <2> QED
    BY <1>2, <2>1, <2>2, <2>4
<1>10. ASSUME NEW t \in Thread, WriteFile(t)
       PROVE  AloneInv'
  <2>1. /\ undisturbed' = undisturbed /\ stage[t] = "writing" /\ NextRole(t)
        /\ entries' = [entries EXCEPT ![t] = Append(@, state[t])]
    BY <1>10 DEF WriteFile
  <2>2. PICK bytes \in {state[t], Garbled} :
            /\ disk[CacheFile(t)] = Empty => bytes = state[t]
            /\ disk' = [disk EXCEPT ![CacheFile(t)] = bytes]
    BY <1>10 DEF WriteFile
  <2>3. state[t] \in Session /\ OfFile(state[t], CacheFile(t))
    BY <1>1, <2>1 DEF SessionsInv, AskedOK
  <2>4. /\ disk'[CacheFile(t)] = bytes
        /\ \A f \in File \ {CacheFile(t)} : disk'[f] = disk[f]
    BY <1>1, <2>1, <2>2, FileInHand DEF SSTypeOK
  <2>5. HealsOK(t) => bytes = state[t]
    BY <2>1, <2>2 DEF HealsOK
  <2> QED
    BY <1>5, <2>1, <2>3, <2>4, <2>5
<1>11. ASSUME NEW t \in Thread, Break(t) \/ Merge(t)
       PROVE  AloneInv'
  <2>1. /\ undisturbed' = undisturbed /\ stage[t] \in Working
        /\ \/ stage' = [stage EXCEPT ![t] = "refused"]
           \/ stage' = [stage EXCEPT ![t] = "resolved"]
    BY <1>11 DEF Break, Merge, Working
  <2>2. /\ stage'[t] \in {"refused", "resolved"} /\ t \in Busy /\ t \notin Busy'
        /\ \A u \in Thread \ {t} : stage'[u] = stage[u]
    BY <1>1, <2>1 DEF SSTypeOK, Busy, Working
  <2> QED
    BY <1>2, <2>1, <2>2
<1>12. CASE UNCHANGED ssVars
  <2>1. \A t \in Thread : HealsOK(t) => HealsOK(t)'
    BY <1>12 DEF ssVars, HealsOK, CacheFile
  <2> QED
    BY <1>1, <1>12, <2>1 DEF ssVars, AloneInv, Busy, SSTypeOK
<1> QED
  BY <1>3, <1>4, <1>6, <1>7, <1>8, <1>9, <1>10, <1>11, <1>12 DEF SSNext

\* However crashes and writers that overlapped have left a file, a call that
\* resolves its roles alone leaves the cache with exactly the sessions it uses: for
\* any roles, environments and number of calls.
THEOREM LoneCallsHeal == SSSpec => []ResolvingAloneHeals
<1>1. SSInit => AloneInv
  BY InitSessionsInv DEF SSInit, AloneInv
<1>2. AloneInv => ResolvingAloneHeals
  BY DEF AloneInv, SessionsInv, SSTypeOK, Busy, Working, HealsOK, ResolvingAloneHeals
<1> QED
  BY <1>1, <1>2, NextAloneInv, PTL DEF SSSpec

=============================================================================
