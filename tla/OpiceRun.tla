------------------------------- MODULE OpiceRun -------------------------------
(***************************************************************************)
(* `opice test` (packages/cli/src/commands/test.ts) around `bun test`: the *)
(* run a test process opens on the platform, the handoff file it leaves    *)
(* for its parent, the parent's POST of the finish, and the exit code.     *)
(*                                                                         *)
(* Several commands share one directory of handoffs, whose files are named *)
(* by pid, and pids come back.  The platform is RunLifecycle, which        *)
(* Platform implements.  The reporter is what Reporter shows of it: a run  *)
(* is opened by a request whose answer may be lost, and retried.           *)
(***************************************************************************)
EXTENDS Naturals

CONSTANTS
    Cli,      \* invocations of `opice test`
    Pid,      \* process ids of `bun test`
    Run,      \* runs the platform may open
    NoPid, NoRun

ASSUME OpiceRunAssumption == NoPid \notin Pid /\ NoRun \notin Run

VARIABLES
    life, peopled,  \* the platform
    handoff,        \* HANDOFF_DIR: the run in <pid>.json, NoRun if no file
    bun,            \* the test processes
    cli,            \* the commands
    posts,          \* runs whose POST /finish is on its way
    strays          \* history: runs that lost whoever would finish them, perhaps
                    \* before the request that opens them arrived

Platform == INSTANCE RunLifecycle
platform == <<life, peopled>>
vars == <<platform, handoff, bun, cli, posts, strays>>

(***************************************************************************)
(* A process is "silent" with another reporter than HttpReporter, and      *)
(* otherwise starting its run: "asked" once the platform has opened `run`  *)
(* on its request, "known" once it has the answer, "lost" when the start   *)
(* was rejected for good.  A dead one waits for its parent to see it.      *)
(***************************************************************************)
Up == {"silent", "starting", "asked", "known", "lost"}
Collecting == {"collect", "finish", "unlink"}
BunRec == [at : Up \cup {"free", "dead"}, run : Run \cup {NoRun}, code : 0..1]
CliRec == [at : {"idle", "child", "done", "killed"} \cup Collecting,
           pid : Pid \cup {NoPid}, strict : BOOLEAN, failed : BOOLEAN, code : 0..1,
           misled : BOOLEAN]    \* history: it passed over the run of its handoff unawares

NoBun == [at |-> "free", run |-> NoRun, code |-> 0]
NewCli == [at |-> "idle", pid |-> NoPid, strict |-> FALSE, failed |-> FALSE, code |-> 0,
           misled |-> FALSE]

Parents(p) == {c \in Cli : cli[c].pid = p}

\* Pids in use are their parents', and one command's each.
TypeOK ==
    /\ life \in [Run -> Platform!Life] /\ peopled \in [Run -> BOOLEAN]
    /\ handoff \in [Pid -> Run \cup {NoRun}]
    /\ bun \in [Pid -> BunRec]
    /\ cli \in [Cli -> CliRec]
    /\ posts \subseteq Run /\ strays \subseteq Run
    /\ \A c, d \in Cli : cli[c].pid = cli[d].pid /\ cli[c].pid # NoPid => c = d
    /\ \A p \in Pid : bun[p].at = "dead" => Parents(p) # {}

Init ==
    /\ Platform!Init
    /\ handoff = [p \in Pid |-> NoRun]
    /\ bun = [p \in Pid |-> NoBun]
    /\ cli = [c \in Cli |-> NewCli]
    /\ posts = {} /\ strays = {}

Strays(r) == strays' = strays \cup ({r} \ {NoRun})

-----------------------------------------------------------------------------
(***************************************************************************)
(* The test process: started by a command, or bare, and its reporter's     *)
(* startRun.                                                               *)
(***************************************************************************)

\* Handoffs of earlier processes of this pid stay where they are.
Started(p, http) ==
    /\ bun[p].at = "free"
    /\ bun' = [bun EXCEPT ![p].at = IF http THEN "starting" ELSE "silent"]

Spawn(c, p, http, strict) ==
    /\ cli[c].at = "idle" /\ Started(p, http)
    /\ cli' = [cli EXCEPT ![c].at = "child", ![c].pid = p, ![c].strict = strict]
    /\ UNCHANGED <<platform, handoff, posts, strays>>

BareBunTest(p) ==
    /\ Started(p, TRUE)
    /\ UNCHANGED <<platform, handoff, cli, posts, strays>>

\* POST runs reaches the platform.
RunOpens(p, r) ==
    /\ bun[p].at = "starting" /\ r \notin strays /\ Platform!Open(r)
    /\ bun' = [bun EXCEPT ![p].at = "asked", ![p].run = r]
    /\ UNCHANGED <<handoff, cli, posts, strays>>

\* The process stops waiting for its request, at the timeout of the fetch or because
\* it is about to exit.  The request may still be on its way, and r is the run that
\* it would open.
RequestAdrift(p, r) ==
    /\ bun[p].at = "starting" /\ r \notin strays /\ life[r] = "none"
    /\ Strays(r)
    /\ UNCHANGED <<platform, handoff, bun, cli, posts>>

\* It gets there.
RunOpensLate(r) ==
    /\ r \in strays /\ Platform!Open(r)
    /\ UNCHANGED <<handoff, bun, cli, posts, strays>>

\* The answer is lost; a retry would open another run.
AnswerLost(p) ==
    /\ bun[p].at = "asked"
    /\ bun' = [bun EXCEPT ![p].at = "starting", ![p].run = NoRun]
    /\ Strays(bun[p].run)
    /\ UNCHANGED <<platform, handoff, cli, posts>>

\* The retries are spent, or the platform refused: the start is rejected for good.
StartFails(p) ==
    /\ bun[p].at = "starting"
    /\ bun' = [bun EXCEPT ![p].at = "lost"]
    /\ UNCHANGED <<platform, handoff, cli, posts, strays>>

\* The answer arrives; the handoff is written in the same turn, best-effort.
RunKnown(p, written) ==
    LET r == bun[p].run IN
    /\ bun[p].at = "asked"
    /\ bun' = [bun EXCEPT ![p].at = "known"]
    /\ IF written THEN handoff' = [handoff EXCEPT ![p] = r] /\ UNCHANGED strays
                  ELSE Strays(r) /\ UNCHANGED handoff
    /\ UNCHANGED <<platform, cli, posts>>

Reports(p) ==
    /\ bun[p].at = "known" /\ Platform!Feed(bun[p].run)
    /\ UNCHANGED <<handoff, bun, cli, posts, strays>>

\* The process ends, by itself or by a crash, even with its start in flight.
\* One without a parent frees its pid at once.
Exit(p, code) ==
    /\ bun[p].at \in Up
    /\ IF Parents(p) = {} \/ bun[p].at = "asked" THEN Strays(bun[p].run)
                                                 ELSE UNCHANGED strays
    /\ bun' = [bun EXCEPT ![p] = IF Parents(p) = {} THEN NoBun
                                 ELSE [@ EXCEPT !.at = "dead", !.code = code]]
    /\ UNCHANGED <<platform, handoff, cli, posts>>

-----------------------------------------------------------------------------
(***************************************************************************)
(* The command.  Assumed: a pid is not used again while the command that   *)
(* waited for it is still collecting, a matter of one request.             *)
(***************************************************************************)
SeesExit(c) ==
    /\ cli[c].at = "child" /\ bun[cli[c].pid].at = "dead"
    /\ cli' = [cli EXCEPT ![c].at = "collect"]
    /\ UNCHANGED <<platform, handoff, bun, posts, strays>>

\* A mutant of the exit code: strictness is the harness's business alone.
ChildsCode(c) == bun[cli[c].pid].code

\* What the command exits with: a failed finish turns a green child red.
ExitCode(c) ==
    LET code == bun[cli[c].pid].code
    IN IF code = 0 /\ cli[c].strict /\ cli[c].failed THEN 1 ELSE code

Ends(c, misled) ==
    /\ cli' = [cli EXCEPT ![c] = [NewCli EXCEPT !.at = "done", !.code = ExitCode(c),
                                                !.misled = misled]]
    /\ bun' = [bun EXCEPT ![cli[c].pid] = NoBun]

\* A mutant: without a file under its child's pid the command takes any.
AnyFile(c) == {p \in Pid : handoff[p] # NoRun}

\* A mutant: only the runs of green children are finished.
GreenOnly(c) == {p \in {cli[c].pid} : handoff[p] # NoRun /\ bun[p].code = 0}

\* finalizeHandoffs: only the file named by the child's pid.
Matching(c) == {p \in {cli[c].pid} : handoff[p] # NoRun}

NothingToCollect(c) ==
    /\ cli[c].at = "collect" /\ Matching(c) = {}
    /\ Ends(c, FALSE)
    /\ UNCHANGED <<platform, handoff, posts, strays>>

\* HANDOFF_DIR cannot be listed: whatever the reason, the command takes it that
\* there is nothing to finish.
CannotList(c) ==
    /\ cli[c].at = "collect" /\ Matching(c) # {}
    /\ Ends(c, TRUE)
    /\ Strays(handoff[cli[c].pid])
    /\ UNCHANGED <<platform, handoff, posts>>

\* The handoff is read and the finish of its run sent.
Collect(c) ==
    /\ cli[c].at = "collect"
    /\ \E p \in Matching(c) : posts' = posts \cup {handoff[p]}
    /\ cli' = [cli EXCEPT ![c].at = "finish"]
    /\ UNCHANGED <<platform, handoff, bun, strays>>

\* The request reaches the platform, perhaps when nobody waits for it any more.
\* A run that was given up stays so.
FinishLands(r, v) ==
    /\ r \in posts
    /\ posts' = posts \ {r}
    /\ \/ Platform!Close(r, v)
       \/ life[r] = "given up" /\ UNCHANGED platform
    /\ UNCHANGED <<handoff, bun, cli, strays>>

FinishAnswered(c) ==
    /\ cli[c].at = "finish" /\ handoff[cli[c].pid] \notin posts
    /\ cli' = [cli EXCEPT ![c].at = "unlink"]
    /\ UNCHANGED <<platform, handoff, bun, posts, strays>>

\* The request is turned away before the platform, with a redirect to a login page:
\* fetch follows it, and the page is an ok answer.
TurnedAway(c) ==
    LET r == handoff[cli[c].pid] IN
    /\ cli[c].at = "finish" /\ r \in posts
    /\ cli' = [cli EXCEPT ![c].at = "unlink", ![c].misled = TRUE]
    /\ posts' = posts \ {r}
    /\ Strays(r)
    /\ UNCHANGED <<platform, handoff, bun>>

\* The file is unreadable, or the request refused, lost, or late, or landed with
\* its answer lost.  There is no second try.
FinishFails(c, lost) ==
    LET r == handoff[cli[c].pid] IN
    /\ cli[c].at = "finish"
    /\ cli' = [cli EXCEPT ![c].at = "unlink", ![c].failed = TRUE]
    /\ posts' = IF lost THEN posts \ {r} ELSE posts
    /\ Strays(r)
    /\ UNCHANGED <<platform, handoff, bun>>

\* The `finally` of the loop; a failing unlink is ignored.
Unlink(c, removed) ==
    /\ cli[c].at = "unlink"
    /\ handoff' = IF removed THEN [handoff EXCEPT ![cli[c].pid] = NoRun] ELSE handoff
    /\ Ends(c, cli[c].misled)
    /\ UNCHANGED <<platform, posts, strays>>

\* The command is killed; its child, if alive, runs on without a parent.
Killed(c) ==
    LET p == cli[c].pid IN
    /\ cli[c].at \in {"child"} \cup Collecting
    /\ cli' = [cli EXCEPT ![c] = [NewCli EXCEPT !.at = "killed"]]
    /\ bun' = IF bun[p].at = "dead" THEN [bun EXCEPT ![p] = NoBun] ELSE bun
    /\ strays' = strays \cup ({bun[p].run, handoff[p]} \ {NoRun})
    /\ UNCHANGED <<platform, handoff, posts>>

\* The cron gives up on open runs.
Reaper ==
    /\ \E gone \in SUBSET Run : gone # {} /\ Platform!GiveUp(gone)
    /\ UNCHANGED <<handoff, bun, cli, posts, strays>>

AllDone ==
    /\ \A c \in Cli : cli[c].at \in {"done", "killed"}
    /\ UNCHANGED vars

Command(c) ==
    \/ SeesExit(c) \/ NothingToCollect(c) \/ CannotList(c)
    \/ Collect(c) \/ FinishAnswered(c) \/ TurnedAway(c)
    \/ \E lost \in BOOLEAN : FinishFails(c, lost)
    \/ \E removed \in BOOLEAN : Unlink(c, removed)

Next ==
    \/ \E c \in Cli, p \in Pid, http, strict \in BOOLEAN : Spawn(c, p, http, strict)
    \/ \E p \in Pid : BareBunTest(p) \/ AnswerLost(p) \/ StartFails(p) \/ Reports(p)
    \/ \E p \in Pid, r \in Run : RunOpens(p, r) \/ RequestAdrift(p, r)
    \/ \E r \in Run : RunOpensLate(r)
    \/ \E p \in Pid, written \in BOOLEAN : RunKnown(p, written)
    \/ \E p \in Pid, code \in 0..1 : Exit(p, code)
    \/ \E c \in Cli : Command(c) \/ Killed(c)
    \/ \E r \in Run, v \in Platform!Verdict : FinishLands(r, v)
    \/ Reaper
    \/ AllDone

Spec == Init /\ [][Next]_vars

-----------------------------------------------------------------------------
(***************************************************************************)
(* Properties.                                                             *)
(***************************************************************************)

\* A run is given a verdict only after the process that reports to it is gone,
\* whatever handoffs earlier processes of the same pid left behind and however
\* late the finish lands.
NoLiveRunIsFinished ==
    [][\A r \in Run : life'[r] # life[r] /\ life'[r] \in Platform!Verdict =>
          \A p \in Pid : bun[p].at \in Up => bun[p].run # r]_vars

\* Whoever can still finish a run.
Owned(r) ==
    \/ \E p \in Pid : bun[p].at \in Up /\ bun[p].run = r
    \/ \E c \in Cli : cli[c].at \in {"child", "collect", "finish"} /\ handoff[cli[c].pid] = r

\* A run is left to the reaper only if the request that opened it was given up, the
\* answer that named it was lost, its handoff could not be written or listed, its
\* finish failed or was turned away, or its process had no command above it to the end.
OpenRunsHaveAnOwner ==
    \A r \in Run : life[r] = "open" /\ r \notin strays => Owned(r)

\* --fail-on-report-error: a command that ends green leaves the run of its own child
\* closed, if the child managed to write the handoff; but for the two failures that
\* the command takes for success, a directory it cannot list and a finish turned
\* away with a redirect.
GreenStrictRunIsClosed ==
    [][\A c \in Cli :
          LET p == cli[c].pid IN
          /\ cli[c].at # "done" /\ cli'[c].at = "done"
          /\ cli[c].strict /\ cli'[c].code = 0 /\ ~cli'[c].misled
          /\ bun[p].run # NoRun /\ handoff[p] = bun[p].run
          => life[bun[p].run] # "open"]_vars

=============================================================================
