---------------------------- MODULE BrowserSession ----------------------------
(***************************************************************************)
(* One named session of opice-browser: the commands a user runs (launch,   *)
(* verbs, quit), the servers that launch spawns, the Chrome each of them   *)
(* starts, and the two files they meet at, <name>.sock and <name>.json.    *)
(*                                                                         *)
(* Commands, servers and Chromes are processes of their own: any of them   *)
(* may be slow, and any may be killed.  Chrome is external: it runs once   *)
(* per profile directory, and a second one on the same profile hands over  *)
(* to the first and exits, with no endpoint of its own.                    *)
(*                                                                         *)
(* The specification's names start with BS: OpiceRun_proofs extends this   *)
(* module and OpiceRun.                                                    *)
(***************************************************************************)
EXTENDS Naturals

CONSTANTS
    Client,       \* terminals a command may run in, one at a time each
    MaxServers    \* bound: servers ever spawned

ASSUME BrowserSessionAssumption == MaxServers \in Nat

Server == 1..MaxServers
None == 0

VARIABLES
    srv,          \* the servers, in the order they were spawned
    chrome,       \* the Chrome of each
    sock,         \* who bound the socket file, if there is one
    file,         \* whom the session file names, if there is one
    cmd,          \* the command in each terminal
    page,         \* history: whose page the last answered verb acted on
    overlapped    \* history: servers that were about while another was launched

bsVars == <<srv, chrome, sock, file, cmd, page, overlapped>>

Booting == {"boot", "wait", "held"}
Dead    == {"down", "failed", "crashed"}
Asking  == {"ping", "poll", "quit", "verb"}

(***************************************************************************)
(* ending: shutdown will follow, when the connection that asked for it has *)
(* closed, or on the SIGTERM that is on its way.  A Chrome that died       *)
(* "unseen" did so when the server had connected to it, and did not listen *)
(* for that yet.                                                           *)
(***************************************************************************)
SrvRec == [at : {"none", "serving"} \cup Booting \cup Dead, ending : BOOLEAN]
CmdRec == [at : {"idle", "clean", "kill"} \cup Asking, conn : Server \cup {None}]

Idle == [at |-> "idle", conn |-> None]

Alive(s) == chrome[s] = "alive"
Serves(s) == s # None /\ srv[s].at = "serving"

BSTypeOK ==
    /\ srv \in [Server -> SrvRec]
    /\ chrome \in [Server -> {"none", "alive", "gone", "unseen"}]
    /\ {sock, file, page} \subseteq Server \cup {None}
    /\ cmd \in [Client -> CmdRec]
    /\ overlapped \subseteq Server
    /\ \A c \in Client : cmd[c].conn # None =>
           cmd[c].at \in Asking /\ srv[cmd[c].conn].at \notin {"none"} \cup Booting

BSInit ==
    /\ srv = [s \in Server |-> [at |-> "none", ending |-> FALSE]]
    /\ chrome = [s \in Server |-> "none"]
    /\ sock = None /\ file = None
    /\ cmd = [c \in Client |-> Idle]
    /\ page = None /\ overlapped = {}

-----------------------------------------------------------------------------
(***************************************************************************)
(* The commands.                                                           *)
(***************************************************************************)

Become(c, at) == cmd' = [cmd EXCEPT ![c] = [at |-> at, conn |-> None]]

Start(c, at) ==
    /\ cmd[c] = Idle
    /\ Become(c, at)
    /\ UNCHANGED <<srv, chrome, sock, file, page, overlapped>>

\* connect() to whoever bound the socket, if it is up.
Connect(c) ==
    /\ cmd[c].at \in Asking /\ cmd[c].conn = None /\ Serves(sock)
    /\ cmd' = [cmd EXCEPT ![c].conn = sock]
    /\ UNCHANGED <<srv, chrome, sock, file, page, overlapped>>

\* What a command does when its request fails: launch starts a server, then polls on
\* until its deadline; quit goes for the pids; a verb fails.
Unanswered(c) ==
    CASE cmd[c].at = "ping" -> Become(c, "clean")
      [] cmd[c].at = "poll" -> Become(c, "poll")
      [] cmd[c].at = "quit" -> Become(c, "kill")
      [] cmd[c].at = "verb" -> Become(c, "idle")

\* No socket, a refused or a broken connection, or no answer in time: 2 s for a ping,
\* 35 s for the rest.
RequestFails(c) ==
    /\ cmd[c].at \in Asking
    /\ cmd[c].conn = None => ~Serves(sock)
    /\ Unanswered(c)
    /\ UNCHANGED <<srv, chrome, sock, file, page, overlapped>>

\* The answer to a ping, and the session file read after it.
Pong(c) ==
    /\ cmd[c].at \in {"ping", "poll"} /\ Serves(cmd[c].conn)
    /\ IF file = None
       THEN Unanswered(c)
       ELSE Become(c, "idle")
    /\ UNCHANGED <<srv, chrome, sock, file, page, overlapped>>

\* launch: both files are removed and a server is spawned.
Clean(c, s) ==
    LET about == {t \in Server : srv[t].at \in {"serving"} \cup Booting} IN
    /\ cmd[c].at = "clean"
    /\ srv[s].at = "none" /\ \A t \in Server : t < s => srv[t].at # "none"
    /\ srv' = [srv EXCEPT ![s].at = "boot"]
    /\ sock' = None /\ file' = None
    /\ Become(c, "poll")
    /\ overlapped' = IF about = {} THEN overlapped ELSE overlapped \cup about \cup {s}
    /\ UNCHANGED <<chrome, page>>

\* The 30 s of launch are over, or the user interrupts.
Abandon(c) ==
    /\ cmd[c].at \in Asking
    /\ Become(c, "idle")
    /\ UNCHANGED <<srv, chrome, sock, file, page, overlapped>>

\* A verb acts on the page the server holds, and fails if that is gone.
VerbAnswered(c) ==
    /\ cmd[c].at = "verb" /\ Serves(cmd[c].conn)
    /\ page' = IF Alive(cmd[c].conn) THEN cmd[c].conn ELSE page
    /\ Become(c, "idle")
    /\ UNCHANGED <<srv, chrome, sock, file, overlapped>>

\* quit is answered at once; the server shuts down when the connection has closed.
QuitAcked(c) ==
    /\ cmd[c].at = "quit" /\ Serves(cmd[c].conn)
    /\ srv' = [srv EXCEPT ![cmd[c].conn].ending = TRUE]
    /\ Become(c, "idle")
    /\ UNCHANGED <<chrome, sock, file, page, overlapped>>

\* A mutant: the fallback of quit only removes the files.
KillNothing(c) ==
    /\ cmd[c].at = "kill"
    /\ sock' = None /\ file' = None
    /\ Become(c, "idle")
    /\ UNCHANGED <<srv, chrome, page, overlapped>>

\* The fallback of quit: the pids of the session file are killed, if there is one.
Kill(c) ==
    /\ cmd[c].at = "kill"
    /\ srv' = [s \in Server |-> IF s = file /\ Serves(s) THEN [srv[s] EXCEPT !.ending = TRUE]
                                ELSE srv[s]]
    /\ chrome' = [s \in Server |-> IF s = file /\ Alive(s) THEN "gone" ELSE chrome[s]]
    /\ sock' = None /\ file' = None
    /\ Become(c, "idle")
    /\ UNCHANGED <<page, overlapped>>

-----------------------------------------------------------------------------
(***************************************************************************)
(* The servers.                                                            *)
(***************************************************************************)
Goes(s, at) == srv' = [srv EXCEPT ![s].at = at]

\* A mutant: every server has a profile of its own.
ProfileIsFree == TRUE

\* The profile directory is the session's.
ProfileFree == \A t \in Server : ~Alive(t)

SpawnChrome(s) ==
    /\ srv[s].at = "boot" /\ Goes(s, "wait")
    /\ chrome' = [chrome EXCEPT ![s] = IF ProfileFree THEN "alive" ELSE "gone"]
    /\ UNCHANGED <<sock, file, cmd, page, overlapped>>

\* waitForEndpoint and connectOverCDP.
Connected(s) ==
    /\ srv[s].at = "wait" /\ Alive(s) /\ Goes(s, "held")
    /\ UNCHANGED <<chrome, sock, file, cmd, page, overlapped>>

\* Anything on the way throws: no endpoint in 15 s, the user's setup, the first
\* navigation.  The process ends, its Chrome does not.
BootFails(s) ==
    /\ srv[s].at \in Booting /\ Goes(s, "failed")
    /\ UNCHANGED <<chrome, sock, file, cmd, page, overlapped>>

\* After setup and navigation, in one go: any socket file is removed, the server
\* listens, and the session file is written.
Listen(s) ==
    /\ srv[s].at = "held" /\ Goes(s, "serving")
    /\ sock' = s /\ file' = s
    /\ UNCHANGED <<chrome, cmd, page, overlapped>>

\* A mutant: a server that was asked to quit lets go of its Chrome without killing it.
ShutdownDetached(s) ==
    /\ srv[s].at = "serving"
    /\ srv[s].ending \/ chrome[s] = "gone"
    /\ Goes(s, "down")
    /\ sock' = None /\ file' = None
    /\ UNCHANGED <<chrome, cmd, page, overlapped>>

\* On quit, on SIGTERM and on the disconnection of a Chrome it was listening to, in
\* one go: whatever files there are go too.
Shutdown(s) ==
    /\ srv[s].at = "serving"
    /\ srv[s].ending \/ chrome[s] = "gone"
    /\ Goes(s, "down")
    /\ chrome' = [chrome EXCEPT ![s] = "gone"]
    /\ sock' = None /\ file' = None
    /\ UNCHANGED <<cmd, page, overlapped>>

Crash(s) ==
    /\ srv[s].at \in {"wait", "held", "serving"} /\ Goes(s, "crashed")
    /\ UNCHANGED <<chrome, sock, file, cmd, page, overlapped>>

ChromeDies(s) ==
    /\ Alive(s)
    /\ chrome' = [chrome EXCEPT ![s] = IF srv[s].at = "held" THEN "unseen" ELSE "gone"]
    /\ UNCHANGED <<srv, sock, file, cmd, page, overlapped>>

Quiet ==
    /\ \A s \in Server : srv[s].at \in Dead
    /\ UNCHANGED bsVars

CommandStep(c) ==
    \/ \E at \in {"ping", "verb", "quit"} : Start(c, at)
    \/ Connect(c) \/ RequestFails(c) \/ Pong(c) \/ Abandon(c)
    \/ VerbAnswered(c) \/ QuitAcked(c) \/ Kill(c)
    \/ \E s \in Server : Clean(c, s)

ServerStep(s) ==
    SpawnChrome(s) \/ Connected(s) \/ BootFails(s) \/ Listen(s) \/ Shutdown(s)

BSNext ==
    \/ \E c \in Client : CommandStep(c)
    \/ \E s \in Server : ServerStep(s) \/ Crash(s) \/ ChromeDies(s)
    \/ Quiet

\* A server's own steps: the waits of its boot are bounded, and a connection whose
\* client is gone closes.
BSSpec == BSInit /\ [][BSNext]_bsVars /\ \A s \in Server : WF_bsVars(ServerStep(s))

-----------------------------------------------------------------------------
(***************************************************************************)
(* Properties.                                                             *)
(***************************************************************************)

\* Page state survives between commands: verbs move on to another server's page
\* only when the browser of the one before is gone, however launches overlap.
PageIsKept ==
    [][page' # page /\ page # None => ~Alive(page)]_bsVars

\* A server with its browser can be reached, and its session file names it, unless
\* it is being shut down, or it and another were about when one of them was launched:
\* the other may remove its files, as a launch or at its own end.
ReachableUnlessOverlapped ==
    \A s \in Server :
        srv[s].at = "serving" /\ Alive(s) /\ ~srv[s].ending /\ s \notin overlapped =>
            sock = s /\ file = s

\* A server told to end, by an answered quit or by a signal, ends, and its browser
\* with it unless the server is killed first.
ToldToEndEnds ==
    \A s \in Server :
        srv[s].ending ~> srv[s].at = "crashed" \/ (srv[s].at = "down" /\ ~Alive(s))

=============================================================================
