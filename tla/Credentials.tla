----------------------------- MODULE Credentials ------------------------------
(***************************************************************************)
(* The credentials of a project (router.ts): its ingest and read keys,     *)
(* which are service tokens of the identity provider, and the shares of    *)
(* its runs, which are capability tokens of the same provider.  The worker *)
(* keeps a mirror of what it had issued, to list it and to revoke it; the  *)
(* provider and the mirror are written in two calls, and requests of       *)
(* several operators interleave between them.                              *)
(***************************************************************************)
EXTENDS Naturals, Sequences

CONSTANTS
    Op,       \* operators, with one request each at a time; all may write the project
    Cred,     \* the credentials the provider can issue
    NoCred

ASSUME CredentialsAssumption == NoCred \notin Cred

VARIABLES
    project,   \* the row of the project is there
    provider,  \* what the provider makes of a credential
    kind,      \* of each credential, once issued
    mirror,    \* the rows of capabilities
    request,   \* of each operator
    handedOut, \* the secrets an operator was given
    unsure     \* history: revocations the provider refused, or did not answer

vars == <<project, provider, kind, mirror, request, handedOut, unsure>>

Keys == {"ingest", "read"}
Kind == Keys \cup {"share"}

(***************************************************************************)
(* A request: the kinds it has still to issue, what it has issued, the     *)
(* rows it listed and has still to revoke, the credential it is at; and,   *)
(* for the properties, whether no other request was there with it.         *)
(***************************************************************************)
Place == {"idle", "creating", "revoking", "marking", "revokingOne", "markingOne",
          "issuing", "mirroring", "answering"}
Request == [at : Place, wanted : {<<>>, <<"ingest", "read">>} \cup {<<k>> : k \in Kind},
            issued : SUBSET Cred, toRevoke : SUBSET Cred, current : Cred \cup {NoCred},
            alone : BOOLEAN]
Idle == [at |-> "idle", wanted |-> <<>>, issued |-> {}, toRevoke |-> {},
         current |-> NoCred, alone |-> FALSE]

TypeOK ==
    /\ project \in BOOLEAN
    /\ provider \in [Cred -> {"unborn", "live", "dead"}]
    /\ kind \in [Cred -> Kind]
    /\ mirror \in [Cred -> {"none", "listed", "revoked"}]
    /\ request \in [Op -> Request]
    /\ handedOut \subseteq Cred /\ unsure \subseteq Cred
    /\ \A c \in Cred : provider[c] = "unborn" => mirror[c] = "none"

Init ==
    /\ project = FALSE
    /\ provider = [c \in Cred |-> "unborn"]
    /\ kind = [c \in Cred |-> "share"]
    /\ mirror = [c \in Cred |-> "none"]
    /\ request = [o \in Op |-> Idle]
    /\ handedOut = {} /\ unsure = {}

-----------------------------------------------------------------------------
\* A request begins: it overlaps those that are under way.
Begin(o, r) ==
    LET busy == {p \in Op : request[p].at # "idle"} IN
    /\ request[o].at = "idle"
    /\ request' = [p \in Op |->
           IF p = o THEN [r EXCEPT !.alone = busy = {}]
           ELSE IF p \in busy THEN [request[p] EXCEPT !.alone = FALSE] ELSE request[p]]

End(o) == request' = [request EXCEPT ![o] = Idle]

\* A mutant: the newest key is replaced, which is any one of them here.
NewestOf(k) ==
    LET listed == {c \in Cred : mirror[c] = "listed" /\ kind[c] = k}
    IN IF listed = {} THEN {} ELSE {CHOOSE c \in listed : TRUE}

\* listProjectCapabilities, of one kind.
Listed(k) == {c \in Cred : mirror[c] = "listed" /\ kind[c] = k}

\* projects.create, once no project of that slug was found.
CreateProject(o) ==
    /\ ~project
    /\ Begin(o, [Idle EXCEPT !.at = "creating", !.wanted = <<"ingest", "read">>])
    /\ UNCHANGED <<project, provider, kind, mirror, handedOut, unsure>>

\* projects.slug is UNIQUE: of two that race, one fails.
ProjectCreated(o) ==
    /\ request[o].at = "creating"
    /\ project' = TRUE
    /\ IF project THEN End(o) ELSE request' = [request EXCEPT ![o].at = "issuing"]
    /\ UNCHANGED <<provider, kind, mirror, handedOut, unsure>>

\* rotateKey: the keys to replace are listed once, at the beginning.
RotateKey(o, k) ==
    /\ project
    /\ Begin(o, [Idle EXCEPT !.at = IF Listed(k) = {} THEN "issuing" ELSE "revoking",
                             !.wanted = <<k>>, !.toRevoke = Listed(k)])
    /\ UNCHANGED <<project, provider, kind, mirror, handedOut, unsure>>

\* shares.create.
CreateShare(o) ==
    /\ project
    /\ Begin(o, [Idle EXCEPT !.at = "issuing", !.wanted = <<"share">>])
    /\ UNCHANGED <<project, provider, kind, mirror, handedOut, unsure>>

\* revokeKey and shares.revoke, of a row the dashboard listed at some time.
RevokeMirroredCapability(o, c) ==
    /\ mirror[c] # "none"
    /\ Begin(o, [Idle EXCEPT !.at = "revokingOne", !.current = c])
    /\ UNCHANGED <<project, provider, kind, mirror, handedOut, unsure>>

ProviderAnswer == {"ok", "okUnheard", "refused", "lost"}

\* A mutant: the row is marked without waiting for the provider.
MarkThenRevoke(o, c, answer, next) ==
    /\ mirror' = [mirror EXCEPT ![c] = "revoked"]
    /\ request' = [request EXCEPT ![o].at = next, ![o].current = c]
    /\ UNCHANGED <<project, provider, kind, handedOut, unsure>>

\* The provider revokes, or refuses, {ok: false}, which no one looks at; or the
\* call throws, after it was or was not carried out, and ends the request.
Revoke(o, c, answer, next) ==
    /\ provider' = IF answer \in {"ok", "okUnheard"} THEN [provider EXCEPT ![c] = "dead"]
                                                     ELSE provider
    /\ unsure' = IF answer = "ok" THEN unsure ELSE unsure \cup {c}
    /\ IF answer \in {"ok", "refused"}
       THEN request' = [request EXCEPT ![o].at = next, ![o].current = c]
       ELSE End(o)
    /\ UNCHANGED <<project, kind, mirror, handedOut>>

RevokeListed(o, c, answer) ==
    /\ request[o].at = "revoking" /\ c \in request[o].toRevoke
    /\ Revoke(o, c, answer, "marking")

RevokeOne(o, answer) ==
    /\ request[o].at = "revokingOne"
    /\ Revoke(o, request[o].current, answer, "markingOne")

\* markCapabilityRevoked.
Marked(c) == [mirror EXCEPT ![c] = IF @ = "listed" THEN "revoked" ELSE @]

MarkListed(o) ==
    LET rest == request[o].toRevoke \ {request[o].current} IN
    /\ request[o].at = "marking"
    /\ mirror' = Marked(request[o].current)
    /\ request' = [request EXCEPT ![o].toRevoke = rest,
                                  ![o].at = IF rest = {} THEN "issuing" ELSE "revoking"]
    /\ UNCHANGED <<project, provider, kind, handedOut, unsure>>

MarkOne(o) ==
    /\ request[o].at = "markingOne"
    /\ mirror' = Marked(request[o].current)
    /\ End(o)
    /\ UNCHANGED <<project, provider, kind, handedOut, unsure>>

\* The provider issues, a service token or a capability ...
Issued(o, c) ==
    /\ provider[c] = "unborn"
    /\ provider' = [provider EXCEPT ![c] = "live"]
    /\ kind' = [kind EXCEPT ![c] = Head(request[o].wanted)]
    /\ request' = [request EXCEPT ![o].at = "mirroring", ![o].current = c]
    /\ UNCHANGED <<project, mirror, handedOut, unsure>>

MintServiceTokenDsn(o, c) ==
    request[o].at = "issuing" /\ Head(request[o].wanted) \in Keys /\ Issued(o, c)

MintCapability(o, c) ==
    request[o].at = "issuing" /\ Head(request[o].wanted) = "share" /\ Issued(o, c)

\* ... and the row is inserted, createCapability.
Mirror(o) ==
    LET rest == Tail(request[o].wanted) IN
    /\ request[o].at = "mirroring"
    /\ mirror' = [mirror EXCEPT ![request[o].current] = "listed"]
    /\ request' = [request EXCEPT ![o].at = IF rest = <<>> THEN "answering" ELSE "issuing",
                                  ![o].wanted = rest,
                                  ![o].issued = @ \cup {request[o].current}]
    /\ UNCHANGED <<project, provider, kind, handedOut, unsure>>

\* The secrets are returned, once.
Answer(o) ==
    /\ request[o].at = "answering"
    /\ handedOut' = handedOut \cup request[o].issued
    /\ End(o)
    /\ UNCHANGED <<project, provider, kind, mirror, unsure>>

\* The database, the provider or the audit throws; or the answer is lost.
Fail(o) ==
    /\ request[o].at \in Place \ {"idle", "revoking", "revokingOne"}
    /\ End(o)
    /\ UNCHANGED <<project, provider, kind, mirror, handedOut, unsure>>

Operate(o) ==
    \/ CreateProject(o) \/ ProjectCreated(o)
    \/ \E k \in Keys : RotateKey(o, k)
    \/ CreateShare(o)
    \/ \E c \in Cred : \/ RevokeMirroredCapability(o, c)
                       \/ MintServiceTokenDsn(o, c) \/ MintCapability(o, c)
    \/ \E c \in Cred, answer \in ProviderAnswer : RevokeListed(o, c, answer)
    \/ \E answer \in ProviderAnswer : RevokeOne(o, answer)
    \/ MarkListed(o) \/ MarkOne(o) \/ Mirror(o) \/ Answer(o) \/ Fail(o)

Next == \E o \in Op : Operate(o)

Spec == Init /\ [][Next]_vars

-----------------------------------------------------------------------------
(***************************************************************************)
(* Properties.                                                             *)
(***************************************************************************)

\* router.ts keeps "only a metadata mirror ... for list+revoke": a secret that
\* was handed out and still works is listed, so that it can be revoked, but
\* where the provider refused a revocation or its answer was lost.
WorkingIsListed ==
    \A c \in handedOut \ unsure : provider[c] = "live" => mirror[c] = "listed"

\* rotateKey recovers: whatever failed before, when a rotation that nothing
\* overlapped is about to hand its key out, that key is the only one of its kind
\* the project lists, and no other that was handed out still works but those the
\* provider would not revoke.  So too for the keys a new project starts with.
RotationAloneReplaces ==
    \A o \in Op : request[o].at = "answering" /\ request[o].alone =>
        \A c \in request[o].issued : kind[c] \in Keys =>
            /\ Listed(kind[c]) = {c}
            /\ \A d \in handedOut \ unsure : kind[d] = kind[c] => provider[d] # "live"

=============================================================================
