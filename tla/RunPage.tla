-------------------------------- MODULE RunPage --------------------------------
(***************************************************************************)
(* Reading a run while it is written: the dashboard's run page of an       *)
(* operator (/rpc), the public page of a share's visitor (/s/rpc), and     *)
(* `opice failures`, with a service token (/api/v1) or with a share's      *)
(* token (/s/rpc).  Each reads the run, its scenarios and their steps in   *)
(* requests of their own and fetches the assets by the URLs they gave; the *)
(* three planes admit by different means (principal.ts), each of which may *)
(* end between two requests.  Rows and objects are StepIngest's.           *)
(***************************************************************************)
EXTENDS StepIngest

CONSTANTS
    Share,       \* share links of the project's runs
    OwnShare,    \* those of this run
    NoShare

ASSUME ShareAssumption == OwnShare \subseteq Share /\ NoShare \notin Share

VARIABLES
    reader,      \* who reads
    granted,     \* report.read on the project, of an operator or a service token
    live,        \* the shares the provider redeems
    secret,      \* the share a visitor's cookie, or the command's argument, holds
    invited,     \* history: the reader has held a share of this run while it was live
    page         \* what the reader has

readVars == <<reader, granted, live, secret, invited, page>>
vars == <<ingestVars, readVars>>

Reader == {"operator", "agent", "visitor", "linkAgent"}
Page == [run : {"loading", "loaded", "error"}, scenarios : BOOLEAN, video : BOOLEAN,
         shots : SUBSET Nat]
Empty == [run |-> "loading", scenarios |-> FALSE, video |-> FALSE, shots |-> {}]

TypeOK ==
    /\ IngestTypeOK
    /\ reader \in Reader /\ granted \in BOOLEAN /\ invited \in BOOLEAN
    /\ live \subseteq Share /\ secret \in Share \cup {NoShare}
    /\ page \in Page

Init ==
    /\ IngestInit
    /\ reader \in Reader /\ granted = TRUE /\ live = Share
    /\ IF reader = "linkAgent" THEN secret \in Share ELSE secret = NoShare
    /\ invited = (secret \in OwnShare)
    /\ page = Empty

-----------------------------------------------------------------------------
(***************************************************************************)
(* Admission.  A share's grants are report.read on its run and             *)
(* project.read on the project.                                            *)
(***************************************************************************)
OpCanReadReports == reader = "operator" /\ granted
MachineCanReadReports == reader = "agent" /\ granted

\* redeemReadCapability.
Redeemed == reader \in {"visitor", "linkAgent"} /\ secret \in live

\* A mutant: the grant the share has on the project is enough.
CapCanReadProject == Redeemed

CapCanReadRun == Redeemed /\ secret \in OwnShare

\* The three APIs: each looks the run up, asks its gate, and reads.
PlaneOf == CASE reader = "operator" -> "/" [] reader = "agent" -> "/api/v1" [] OTHER -> "/s"
OperatorReads == PlaneOf = "/" /\ OpCanReadReports
HandleRead == PlaneOf = "/api/v1" /\ MachineCanReadReports
ShareReads == PlaneOf = "/s" /\ CapCanReadRun
MayRead == OperatorReads \/ HandleRead \/ ShareReads

\* An asset is asked for by URL: its prefix chooses the gate, and behind it is
\* the bucket.  (A get that throws is a 500 and changes nothing; the key is good.)
ServeR2Asset(key) == key \in bucket
ServeAsset(key) == OpCanReadReports /\ ServeR2Asset(key)
ReadAsset(key) == MachineCanReadReports /\ ServeR2Asset(key)
HandleShareAsset(key) == CapCanReadRun /\ ServeR2Asset(key)
Route(url) ==
    CASE url.plane = "/"       -> ServeAsset(url.key)
      [] url.plane = "/api/v1" -> ReadAsset(url.key)
      [] url.plane = "/s"      -> HandleShareAsset(url.key)

\* A link is opened: a token that redeems becomes the cookie, in place of
\* another's, of whatever run; a token that does not leaves the cookie as it is.
OpenLink(share) ==
    /\ reader = "visitor"
    /\ secret' = IF share \in live THEN share ELSE secret
    /\ invited' = (invited \/ share \in live \cap OwnShare)
    /\ UNCHANGED <<ingestVars, reader, granted, live, page>>

\* A share is revoked or expires; a grant is withdrawn, or given back.
Revoke(share) ==
    /\ live' = live \ {share} /\ live' # live
    /\ UNCHANGED <<ingestVars, reader, granted, secret, invited, page>>

Regrant ==
    /\ reader \in {"operator", "agent"} /\ granted' = ~granted
    /\ UNCHANGED <<ingestVars, reader, live, secret, invited, page>>

-----------------------------------------------------------------------------
(***************************************************************************)
(* The pages.  A read that is refused leaves what the page had; while the  *)
(* run's query is in error, the page shows nothing else.                   *)
(***************************************************************************)
OnPage(new) ==
    /\ reader \in {"operator", "visitor"} /\ page' = new
    /\ UNCHANGED <<ingestVars, reader, granted, live, secret, invited>>

LoadRun == OnPage([page EXCEPT !.run = IF MayRead THEN "loaded" ELSE "error"])

LoadScenarios == MayRead /\ OnPage([page EXCEPT !.scenarios = TRUE, !.video = videoKey])

\* Of the scenario that is selected, once there is a list of them.
Shots == {i \in Listed : rows[i].screenshot}
LoadSteps == page.scenarios /\ MayRead /\ OnPage([page EXCEPT !.shots = Shots])

(***************************************************************************)
(* `opice failures`: one read after the other; the command ends when one of*)
(* the first two is refused, and steps it cannot read it leaves out.       *)
(***************************************************************************)
InDigest(new) ==
    /\ reader \in {"agent", "linkAgent"} /\ page' = new
    /\ UNCHANGED <<ingestVars, reader, granted, live, secret, invited>>

DigestRun ==
    page.run = "loading" /\ InDigest([page EXCEPT !.run = IF MayRead THEN "loaded" ELSE "error"])

DigestScenarios ==
    /\ page.run = "loaded" /\ ~page.scenarios
    /\ InDigest(IF MayRead THEN [page EXCEPT !.scenarios = TRUE] ELSE [page EXCEPT !.run = "error"])

DigestSteps ==
    /\ page.run = "loaded" /\ page.scenarios
    /\ InDigest([page EXCEPT !.shots = IF MayRead THEN Shots ELSE {}])

\* The command is run again.
DigestAgain == InDigest(Empty)

-----------------------------------------------------------------------------
\* A mutant: the operator's URL for everyone.
OperatorUrls(keys) == [plane : {"/"}, key : keys]

\* The prefix each plane puts before a key.
Urls(keys) == [plane : {PlaneOf}, key : keys]
WithVideoUrl == IF page.video THEN Urls({Video}) ELSE {}
MapSteps == Urls(page.shots)

Shown == IF page.run = "loaded" /\ page.scenarios THEN WithVideoUrl \cup MapSteps ELSE {}

Next ==
    \/ IngestNext /\ UNCHANGED readVars
    \/ \E share \in Share : OpenLink(share) \/ Revoke(share)
    \/ Regrant \/ LoadRun \/ LoadScenarios \/ LoadSteps
    \/ DigestRun \/ DigestScenarios \/ DigestSteps \/ DigestAgain

Spec == Init /\ [][Next]_vars

-----------------------------------------------------------------------------
(***************************************************************************)
(* Properties.                                                             *)
(***************************************************************************)

\* Every screenshot and video a page shows loads, for as long as its reader may read
\* the run: whatever the ingest is at, the key in a row names an object that is
\* there, under a URL of the plane that will admit this reader.
ShownAssetsAreServed ==
    \A url \in Shown : MayRead => Route(url)

\* run.tsx promises of a link that it "grants read-only access to this run only": a
\* visitor who sees anything of this run has been invited to it, whichever links of
\* other runs the cookie held before and after.
ShareShowsItsRunOnly ==
    PlaneOf = "/s" /\ (page.run = "loaded" \/ page.scenarios) => invited

=============================================================================
