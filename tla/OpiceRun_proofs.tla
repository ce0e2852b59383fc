---------------------------- MODULE OpiceRun_proofs ----------------------------
(***************************************************************************)
(* The programs a user starts, each for any number of its processes: first *)
(* opice test and who finishes a run (OpiceRun), then opice-browser        *)
(* (BrowserSession), then one opice test from its command line to the      *)
(* scenarios that run (Launch).  They share no state.                      *)
(***************************************************************************)
EXTENDS OpiceRun, BrowserSession, Launch, FiniteSetTheorems, FunctionTheorems, SequenceTheorems,
        WellFoundedInduction, TLAPS

(***************************************************************************)
(* Processes and commands go in step: a pid that a command holds is that   *)
(* of a process, which is dead from the moment the command has seen it so. *)
(***************************************************************************)
CommandOK(c) ==
    /\ cli[c].at \in {"child"} \cup Collecting => cli[c].pid \in Pid
    /\ cli[c].at \in {"idle", "done", "killed"} => cli[c].pid = NoPid
    /\ cli[c].pid \in Pid => bun[cli[c].pid].at # "free"
    /\ cli[c].at \in Collecting => bun[cli[c].pid].at = "dead"
    /\ cli[c].at \in {"finish", "unlink"} => handoff[cli[c].pid] \in Run
    /\ cli[c].at # "unlink" => cli[c].failed = FALSE
    /\ cli[c].at \notin {"unlink", "done"} => cli[c].misled = FALSE

ProcessOK(p) ==
    /\ bun[p].at \in {"asked", "known"} => bun[p].run \in Run
    /\ bun[p].at \in {"free", "silent", "starting", "lost"} => bun[p].run = NoRun

(***************************************************************************)
(* One process has a run, one file names it, and it is that process's.     *)
(***************************************************************************)
RunsApart ==
    /\ \A p, q \in Pid : bun[p].run = bun[q].run /\ bun[p].run # NoRun => p = q
    /\ \A p, q \in Pid : handoff[p] = handoff[q] /\ handoff[p] # NoRun => p = q
    /\ \A p, q \in Pid : handoff[p] = bun[q].run /\ handoff[p] # NoRun =>
           p = q /\ bun[p].at \in {"known", "dead"}

\* What the platform has not opened, nobody knows of.
NamesAreOpened ==
    /\ \A p \in Pid : bun[p].run # NoRun => life[bun[p].run] # "none"
    /\ \A p \in Pid : handoff[p] # NoRun => life[handoff[p]] # "none"
    /\ \A r \in posts : life[r] # "none"

PostedIsOver == \A r \in posts, p \in Pid : bun[p].at \in Up => bun[p].run # r

\* A run that needs no finish any more.
Over(r) == life[r] # "open" \/ r \in strays

(***************************************************************************)
(* A file names a run that is over, or the one its pid's process knows; a  *)
(* process that knows its run has named it, unless it strays.              *)
(***************************************************************************)
HandoffOK(p) ==
    /\ handoff[p] # NoRun /\ handoff[p] # bun[p].run => Over(handoff[p])
    /\ bun[p].at = "known" \/ (bun[p].at = "dead" /\ bun[p].run # NoRun) =>
           bun[p].run \in strays \/ handoff[p] = bun[p].run

\* A finish on its way closes the run; one that was answered has closed it, if it
\* was the platform that answered.
FinishOK(c) ==
    LET r == handoff[cli[c].pid] IN
    /\ cli[c].at = "finish" => r \in posts \/ life[r] # "open"
    /\ cli[c].at = "unlink" => IF cli[c].failed \/ cli[c].misled THEN r \in strays
                                                      ELSE life[r] # "open"

IInv ==
    /\ TypeOK
    /\ \A c \in Cli : CommandOK(c) /\ FinishOK(c)
    /\ \A p \in Pid : ProcessOK(p) /\ HandoffOK(p)
    /\ RunsApart /\ NamesAreOpened /\ PostedIsOver
    /\ OpenRunsHaveAnOwner

-----------------------------------------------------------------------------
(***************************************************************************)
(* The records of processes and commands, field by field.                  *)
(***************************************************************************)
BunAt == Up \cup {"free", "dead"}
CliAt == {"idle", "child", "done", "killed"} \cup Collecting

LEMMA BunFields ==
    ASSUME NEW b \in BunRec
    PROVE  b.at \in BunAt /\ b.run \in Run \cup {NoRun} /\ b.code \in 0..1
BY DEF BunRec, BunAt

LEMMA CliFields ==
    ASSUME NEW k \in CliRec
    PROVE  /\ k.at \in CliAt /\ k.pid \in Pid \cup {NoPid} /\ k.strict \in BOOLEAN
           /\ k.failed \in BOOLEAN /\ k.code \in 0..1 /\ k.misled \in BOOLEAN
BY DEF CliRec, CliAt

LEMMA NoBunIs ==
    NoBun \in BunRec /\ NoBun.at = "free" /\ NoBun.run = NoRun
BY DEF NoBun, BunRec

LEMMA BunAtChanges ==
    ASSUME NEW b \in BunRec, NEW at \in BunAt
    PROVE  LET n == [b EXCEPT !.at = at] IN
           n \in BunRec /\ n.at = at /\ n.run = b.run /\ n.code = b.code
BY DEF BunRec, BunAt

LEMMA CliAtChanges ==
    ASSUME NEW k \in CliRec, NEW at \in CliAt
    PROVE  LET n == [k EXCEPT !.at = at] IN
           /\ n \in CliRec /\ n.at = at /\ n.pid = k.pid /\ n.strict = k.strict
           /\ n.failed = k.failed /\ n.misled = k.misled
BY DEF CliRec, CliAt

-----------------------------------------------------------------------------
(***************************************************************************)
(* A process's own step: it changes at most its record and the strays.     *)
(***************************************************************************)
LEMMA ProcessKeeps ==
    ASSUME IInv, NEW p \in Pid, NEW b \in BunRec, bun' = [bun EXCEPT ![p] = b],
           UNCHANGED <<life, handoff, cli, posts>>, peopled' \in [Run -> BOOLEAN],
           strays \subseteq strays', strays' \subseteq Run, bun[p].at # "dead",
           b.at = "free" => Parents(p) = {}, b.at = "dead" => Parents(p) # {},
           b.at \in {"asked", "known"} => b.run \in Run,
           b.at \in {"free", "silent", "starting", "lost"} => b.run = NoRun,
           b.run = bun[p].run \/ (b.run = NoRun /\ bun[p].run \in strays' \cup {NoRun}),
           bun[p].at = "known" => b.at \in {"dead", "free"},
           b.at = "known" \/ (b.at = "dead" /\ b.run # NoRun) =>
               b.run \in strays' \/ handoff[p] = b.run,
           bun[p].at = "free" => b.at \in {"silent", "starting"},
           b.at = "known" => bun[p].at = "asked"
    PROVE  IInv'
<1>1. /\ bun' \in [Pid -> BunRec] /\ bun'[p] = b
      /\ \A q \in Pid \ {p} : bun'[q] = bun[q]
  BY DEF IInv, TypeOK
<1>2. /\ b.at \in BunAt /\ b.run \in Run \cup {NoRun}
      /\ bun[p].at \in BunAt /\ bun[p].run \in Run \cup {NoRun}
  BY BunFields DEF IInv, TypeOK
<1>3. ProcessOK(p) /\ HandoffOK(p) /\ TypeOK
  BY DEF IInv
<1>4. TypeOK'
  <2>1. \A q \in Pid : bun'[q].at = "dead" => Parents(q) # {}
    BY <1>1, <1>3 DEF TypeOK
  <2> QED
    BY <1>1, <1>3, <2>1 DEF TypeOK, Parents
<1>5. ASSUME NEW c \in Cli PROVE CommandOK(c)'
  <2>1. CommandOK(c)
    BY DEF IInv
  <2>2. cli[c].pid = p => b.at # "free"
    BY DEF Parents
  <2> QED
    BY <1>1, <2>1, <2>2 DEF CommandOK, Collecting
<1>6. ASSUME NEW c \in Cli PROVE FinishOK(c)'
  BY DEF IInv, FinishOK
<1>7. \A q \in Pid : ProcessOK(q)'
  BY <1>1 DEF IInv, ProcessOK
<1>8. ASSUME NEW q \in Pid PROVE HandoffOK(q)'
  <2>1. CASE q # p
    BY <1>1, <2>1 DEF IInv, HandoffOK, Over
  <2>2. CASE q = p
    <3>1. ASSUME handoff[p] # NoRun, handoff[p] # b.run
          PROVE  life[handoff[p]] # "open" \/ handoff[p] \in strays'
      BY <1>2, <1>3, <3>1 DEF HandoffOK, Over
    <3> QED
      BY <1>1, <2>2, <3>1 DEF HandoffOK, Over
  <2> QED
    BY <2>1, <2>2
<1>9. RunsApart'
  <2>1. \A q1, q2 \in Pid : bun'[q1].run = bun'[q2].run /\ bun'[q1].run # NoRun => q1 = q2
    BY <1>1 DEF IInv, RunsApart
  <2>2. ASSUME NEW q1 \in Pid, NEW q2 \in Pid, handoff[q1] = bun'[q2].run, handoff[q1] # NoRun
        PROVE  q1 = q2 /\ bun'[q2].at \in {"known", "dead"}
    <3>1. CASE q2 # p
      BY <1>1, <2>2, <3>1 DEF IInv, RunsApart
    <3>2. CASE q2 = p
      <4>1. handoff[q1] = bun[p].run /\ b.run # NoRun
        BY <1>1, <2>2, <3>2
      <4>2. q1 = p /\ bun[p].at \in {"known", "dead"}
        BY <2>2, <4>1 DEF IInv, RunsApart
      <4> QED
        BY <1>1, <3>2, <4>1, <4>2
    <3> QED
      BY <3>1, <3>2
  <2> QED
    BY <2>1, <2>2 DEF IInv, RunsApart
<1>10. NamesAreOpened'
  BY <1>1 DEF IInv, NamesAreOpened
<1>11. PostedIsOver'
  <2>1. bun[p].at \in Up \/ bun[p].run = NoRun
    BY <1>2, <1>3 DEF ProcessOK, BunAt
  <2>2. NoRun \notin posts
    BY OpiceRunAssumption DEF IInv, TypeOK
  <2>3. \A r \in posts : b.at \in Up => b.run # r
    BY <2>1, <2>2 DEF IInv, PostedIsOver
  <2> QED
    BY <1>1, <2>3 DEF IInv, PostedIsOver
<1>12. OpenRunsHaveAnOwner'
  <2>1. ASSUME NEW r \in Run, life[r] = "open", r \notin strays'
        PROVE  Owned(r)'
    <3>1. Owned(r)
      BY <2>1 DEF IInv, OpenRunsHaveAnOwner
    <3>2. CASE \E q \in Pid \ {p} : bun[q].at \in Up /\ bun[q].run = r
      BY <1>1, <3>2 DEF Owned
    <3>3. CASE \E c \in Cli : cli[c].at \in {"child", "collect", "finish"} /\ handoff[cli[c].pid] = r
      BY <3>3 DEF Owned
    <3>4. CASE bun[p].at \in Up /\ bun[p].run = r
      <4>1. b.run = r
        BY <2>1, <3>4, OpiceRunAssumption
      <4>2. CASE b.at \in Up
        BY <1>1, <4>1, <4>2 DEF Owned
      <4>3. CASE b.at \notin Up
        <5>1. b.at = "dead" /\ handoff[p] = r
          BY <1>2, <2>1, <4>1, <4>3, OpiceRunAssumption DEF BunAt
        <5>2. PICK c \in Cli : cli[c].pid = p
          BY <5>1 DEF Parents
        <5>3. cli[c].at = "child"
          BY <3>4, <5>2, CliFields, OpiceRunAssumption
             DEF IInv, CommandOK, TypeOK, Up, CliAt
        <5> QED
          BY <5>1, <5>2, <5>3 DEF Owned
      <4> QED
        BY <4>2, <4>3
    <3> QED
      BY <3>1, <3>2, <3>3, <3>4 DEF Owned
  <2> QED
    BY <2>1 DEF OpenRunsHaveAnOwner
<1> QED
  BY <1>4, <1>5, <1>6, <1>7, <1>8, <1>9, <1>10, <1>11, <1>12 DEF IInv

LEMMA BareBunTestKeeps ==
    ASSUME IInv, NEW p \in Pid, BareBunTest(p)
    PROVE  IInv'
<1> DEFINE b == [bun[p] EXCEPT !.at = "starting"]
<1>1. bun[p] \in BunRec /\ bun[p].at = "free" /\ bun[p].run = NoRun
  BY DEF BareBunTest, Started, IInv, TypeOK, ProcessOK
<1>2. "starting" \in BunAt
  BY DEF BunAt, Up
<1>3. b \in BunRec /\ b.at = "starting" /\ b.run = NoRun
  BY <1>1, <1>2, BunAtChanges
<1>4. bun' = [bun EXCEPT ![p] = b] /\ UNCHANGED <<life, peopled, handoff, cli, posts, strays>>
  BY DEF BareBunTest, Started, IInv, TypeOK, platform
<1>5. peopled' \in [Run -> BOOLEAN] /\ strays' \subseteq Run /\ strays \subseteq strays'
  BY <1>4 DEF IInv, TypeOK
<1> HIDE DEF b
<1> QED
  BY <1>1, <1>3, <1>4, <1>5, ProcessKeeps

LEMMA AnswerLostKeeps ==
    ASSUME IInv, NEW p \in Pid, AnswerLost(p)
    PROVE  IInv'
<1> DEFINE b == [bun[p] EXCEPT !.at = "starting", !.run = NoRun]
<1>1. bun[p] \in BunRec /\ bun[p].at = "asked" /\ bun[p].run \in Run
  BY DEF AnswerLost, IInv, TypeOK, ProcessOK
<1>2. b \in BunRec /\ b.at = "starting" /\ b.run = NoRun
  BY <1>1 DEF BunRec, Up
<1>3. bun' = [bun EXCEPT ![p] = b] /\ UNCHANGED <<life, peopled, handoff, cli, posts>>
  BY DEF AnswerLost, IInv, TypeOK, platform
<1>4. strays' = strays \cup {bun[p].run}
  BY <1>1, OpiceRunAssumption DEF AnswerLost, Strays
<1>5. peopled' \in [Run -> BOOLEAN] /\ strays' \subseteq Run /\ strays \subseteq strays'
      /\ bun[p].run \in strays'
  BY <1>1, <1>3, <1>4 DEF IInv, TypeOK
<1> HIDE DEF b
<1> QED
  BY <1>1, <1>2, <1>3, <1>5, ProcessKeeps

LEMMA StartFailsKeeps ==
    ASSUME IInv, NEW p \in Pid, StartFails(p)
    PROVE  IInv'
<1> DEFINE b == [bun[p] EXCEPT !.at = "lost"]
<1>1. bun[p] \in BunRec /\ bun[p].at = "starting" /\ bun[p].run = NoRun
  BY DEF StartFails, IInv, TypeOK, ProcessOK
<1>2. "lost" \in BunAt
  BY DEF BunAt, Up
<1>3. b \in BunRec /\ b.at = "lost" /\ b.run = NoRun
  BY <1>1, <1>2, BunAtChanges
<1>4. bun' = [bun EXCEPT ![p] = b] /\ UNCHANGED <<life, peopled, handoff, cli, posts, strays>>
  BY DEF StartFails, IInv, TypeOK, platform
<1>5. peopled' \in [Run -> BOOLEAN] /\ strays' \subseteq Run /\ strays \subseteq strays'
  BY <1>4 DEF IInv, TypeOK
<1> HIDE DEF b
<1> QED
  BY <1>1, <1>3, <1>4, <1>5, ProcessKeeps

LEMMA ReportsKeeps ==
    ASSUME IInv, NEW p \in Pid, Reports(p)
    PROVE  IInv'
<1>1. bun[p] \in BunRec /\ bun[p].at = "known" /\ bun[p].run \in Run
  BY DEF Reports, IInv, TypeOK, ProcessOK
<1>2. UNCHANGED <<life, handoff, bun, cli, posts, strays>> /\ peopled' \in [Run -> BOOLEAN]
  BY DEF Reports, Platform!Feed, IInv, TypeOK
<1>3. TypeOK'
  BY <1>2 DEF IInv, TypeOK, Parents
<1>4. \A c \in Cli : CommandOK(c)' /\ FinishOK(c)'
  BY <1>2 DEF IInv, CommandOK, FinishOK
<1>5. \A q \in Pid : ProcessOK(q)' /\ HandoffOK(q)'
  BY <1>2 DEF IInv, ProcessOK, HandoffOK, Over
<1>6. RunsApart' /\ NamesAreOpened' /\ PostedIsOver' /\ OpenRunsHaveAnOwner'
  BY <1>2 DEF IInv, RunsApart, NamesAreOpened, PostedIsOver, OpenRunsHaveAnOwner, Owned
<1> QED
  BY <1>3, <1>4, <1>5, <1>6 DEF IInv

\* A process without a command leaves its run to the reaper; one with a command
\* leaves it to that, unless it never learned of it.
LEMMA ExitKeeps ==
    ASSUME IInv, NEW p \in Pid, NEW code \in 0..1, Exit(p, code)
    PROVE  IInv'
<1> DEFINE orphan == Parents(p) = {}
           b == IF orphan THEN NoBun ELSE [bun[p] EXCEPT !.at = "dead", !.code = code]
<1>1. bun[p] \in BunRec /\ bun[p].at \in Up /\ ProcessOK(p) /\ HandoffOK(p)
  BY DEF Exit, IInv, TypeOK
<1>2. /\ b \in BunRec /\ b.at = (IF orphan THEN "free" ELSE "dead")
      /\ b.run = (IF orphan THEN NoRun ELSE bun[p].run)
  <2>1. CASE orphan
    BY <2>1, NoBunIs
  <2>2. CASE ~orphan
    <3> DEFINE n == [bun[p] EXCEPT !.at = "dead", !.code = code]
    <3>1. n \in BunRec /\ n.at = "dead" /\ n.run = bun[p].run
      BY <1>1 DEF BunRec
    <3>2. b = n
      BY <2>2
    <3> HIDE DEF n, b
    <3> QED
      BY <2>2, <3>1, <3>2
  <2> QED
    BY <2>1, <2>2
<1>3. bun' = [bun EXCEPT ![p] = b] /\ UNCHANGED <<life, peopled, handoff, cli, posts>>
  BY DEF Exit, IInv, TypeOK, platform
<1>4. /\ strays \subseteq strays' /\ strays' \subseteq Run /\ peopled' \in [Run -> BOOLEAN]
      /\ orphan \/ bun[p].at = "asked" => bun[p].run \in strays' \cup {NoRun}
  <2>1. strays \subseteq Run /\ bun[p].run \in Run \cup {NoRun}
    BY <1>1, BunFields DEF IInv, TypeOK
  <2> QED
    BY <1>3, <2>1 DEF Exit, Strays, IInv, TypeOK
<1> HIDE DEF b
<1>5. b.at = "dead" /\ b.run # NoRun => b.run \in strays' \/ handoff[p] = b.run
  <2> SUFFICES ASSUME b.at = "dead", b.run # NoRun
               PROVE  b.run \in strays' \/ handoff[p] = b.run
    OBVIOUS
  <2>1. b.run = bun[p].run /\ bun[p].at \in {"asked", "known"}
    BY <1>1, <1>2 DEF ProcessOK, Up
  <2> QED
    BY <1>1, <1>4, <2>1 DEF HandoffOK
<1>6. /\ bun[p].at # "dead" /\ bun[p].at # "free"
      /\ b.at = "free" => Parents(p) = {} /\ b.run = NoRun
      /\ b.at = "dead" => Parents(p) # {}
      /\ b.at \in {"free", "dead"}
      /\ b.run = bun[p].run \/ (b.run = NoRun /\ bun[p].run \in strays' \cup {NoRun})
  BY <1>1, <1>2, <1>4 DEF Up
<1> HIDE DEF orphan
<1> QED
  BY <1>2, <1>3, <1>4, <1>5, <1>6, ProcessKeeps

\* The answer that names the run: from here on its file does, or it strays.
LEMMA RunKnownKeeps ==
    ASSUME IInv, NEW p \in Pid, NEW written \in BOOLEAN, RunKnown(p, written)
    PROVE  IInv'
<1> DEFINE r == bun[p].run
           b == [bun[p] EXCEPT !.at = "known"]
<1>1. bun[p] \in BunRec /\ bun[p].at = "asked" /\ r \in Run /\ r # NoRun
  BY OpiceRunAssumption DEF RunKnown, IInv, TypeOK, ProcessOK
<1>2. b \in BunRec /\ b.at = "known" /\ b.run = r
  <2>1. "known" \in BunAt
    BY DEF BunAt, Up
  <2> QED
    BY <1>1, <2>1, BunAtChanges
<1>3. bun' = [bun EXCEPT ![p] = b] /\ UNCHANGED <<life, peopled, cli, posts>>
  BY DEF RunKnown, IInv, TypeOK, platform
<1> HIDE DEF b
<1>4. CASE ~written
  <2>1. UNCHANGED handoff /\ strays' = strays \cup {r}
    BY <1>1, <1>4 DEF RunKnown, Strays
  <2>2. r \in strays' /\ strays \subseteq strays' /\ strays' \subseteq Run
        /\ peopled' \in [Run -> BOOLEAN]
    BY <1>1, <1>3, <2>1 DEF IInv, TypeOK
  <2> QED
    BY <1>1, <1>2, <1>3, <2>1, <2>2, ProcessKeeps
<1>5. CASE written
  <2>1. UNCHANGED strays /\ handoff' = [handoff EXCEPT ![p] = r]
    BY <1>5 DEF RunKnown
  <2>2. /\ handoff' \in [Pid -> Run \cup {NoRun}] /\ handoff'[p] = r
        /\ \A q \in Pid \ {p} : handoff'[q] = handoff[q]
    BY <1>1, <2>1 DEF IInv, TypeOK
  <2>3. /\ bun' \in [Pid -> BunRec] /\ bun'[p] = b
        /\ \A q \in Pid \ {p} : bun'[q] = bun[q]
    BY <1>2, <1>3 DEF IInv, TypeOK
  <2>4. \A q \in Pid : bun'[q].run = bun[q].run
    BY <1>2, <2>3
  <2>5. \A q \in Pid : /\ handoff[q] # r
                       /\ bun[q].run = r => q = p
    BY <1>1 DEF IInv, RunsApart
  <2>6. \A c \in Cli : cli[c].pid = p => cli[c].at \notin Collecting
    BY <1>1 DEF IInv, CommandOK
  <2>7. TypeOK'
    <3>1. \A q \in Pid : bun'[q].at = "dead" => Parents(q) # {}
      BY <1>2, <2>3 DEF IInv, TypeOK
    <3> QED
      BY <1>3, <2>1, <2>2, <2>3, <3>1 DEF IInv, TypeOK, Parents
  <2>8. ASSUME NEW c \in Cli PROVE CommandOK(c)' /\ FinishOK(c)'
    <3>0. CommandOK(c) /\ FinishOK(c) /\ cli[c].pid \in Pid \cup {NoPid}
      BY CliFields DEF IInv, TypeOK
    <3>1. CASE cli[c].pid = p
      BY <1>1, <1>2, <1>3, <2>3, <2>6, <3>0, <3>1, OpiceRunAssumption
         DEF CommandOK, FinishOK, Collecting
    <3>2. CASE cli[c].pid # p
      <4>1. cli[c].pid \in Pid => /\ bun'[cli[c].pid] = bun[cli[c].pid]
                                  /\ handoff'[cli[c].pid] = handoff[cli[c].pid]
        BY <2>2, <2>3, <3>2
      <4> QED
        BY <1>3, <2>1, <3>0, <4>1 DEF CommandOK, FinishOK, Collecting
    <3> QED
      BY <3>1, <3>2
  <2>9. ASSUME NEW q \in Pid PROVE ProcessOK(q)' /\ HandoffOK(q)'
    BY <1>1, <1>2, <1>3, <2>1, <2>2, <2>3 DEF IInv, ProcessOK, HandoffOK, Over
  <2>10. RunsApart'
    <3>1. \A q1, q2 \in Pid : handoff'[q1] = handoff'[q2] /\ handoff'[q1] # NoRun => q1 = q2
      BY <2>2, <2>5 DEF IInv, RunsApart
    <3>2. ASSUME NEW q1 \in Pid, NEW q2 \in Pid, handoff'[q1] = bun'[q2].run, handoff'[q1] # NoRun
          PROVE  q1 = q2 /\ bun'[q2].at \in {"known", "dead"}
      <4>1. CASE q1 = p
        BY <1>2, <2>2, <2>3, <2>4, <2>5, <3>2, <4>1
      <4>2. CASE q1 # p
        BY <2>2, <2>3, <2>4, <2>5, <3>2, <4>2 DEF IInv, RunsApart
      <4> QED
        BY <4>1, <4>2
    <3> QED
      BY <2>4, <3>1, <3>2 DEF IInv, RunsApart
  <2>11. NamesAreOpened'
    BY <1>3, <2>2, <2>4 DEF IInv, NamesAreOpened
  <2>12. PostedIsOver'
    <3>1. \A q \in Pid : bun'[q].at \in Up => bun[q].at \in Up
      BY <1>1, <2>3 DEF Up
    <3> QED
      BY <1>3, <2>4, <3>1 DEF IInv, PostedIsOver
  <2>13. OpenRunsHaveAnOwner'
    <3>1. ASSUME NEW s \in Run, life[s] = "open", s \notin strays
          PROVE  Owned(s)'
      <4>1. Owned(s)
        BY <3>1 DEF IInv, OpenRunsHaveAnOwner
      <4>2. CASE \E q \in Pid : bun[q].at \in Up /\ bun[q].run = s
        BY <1>2, <2>3, <2>4, <4>2 DEF Owned, Up
      <4>3. ASSUME NEW c \in Cli, cli[c].at \in {"child", "collect", "finish"},
                   handoff[cli[c].pid] = s
            PROVE  Owned(s)'
        <5>1. cli[c].pid \in Pid
          BY <4>3 DEF IInv, CommandOK, Collecting
        <5>2. CASE cli[c].pid # p
          BY <1>3, <2>2, <4>3, <5>1, <5>2 DEF Owned
        <5>3. CASE cli[c].pid = p
          <6>1. s # r /\ s # NoRun
            BY <2>5, <3>1, <4>3, <5>3, OpiceRunAssumption
          <6> QED
            BY <3>1, <4>3, <5>3, <6>1 DEF IInv, HandoffOK, Over
        <5> QED
          BY <5>2, <5>3
      <4> QED
        BY <4>1, <4>2, <4>3 DEF Owned
    <3> QED
      BY <1>3, <2>1, <3>1 DEF OpenRunsHaveAnOwner
  <2> QED
    BY <2>7, <2>8, <2>9, <2>10, <2>11, <2>12, <2>13 DEF IInv
<1> QED
  BY <1>4, <1>5

\* A run nobody knows of yet becomes the process's.
LEMMA RunOpensKeeps ==
    ASSUME IInv, NEW p \in Pid, NEW r \in Run, RunOpens(p, r)
    PROVE  IInv'
<1> DEFINE b == [bun[p] EXCEPT !.at = "asked", !.run = r]
<1>1. bun[p] \in BunRec /\ bun[p].at = "starting" /\ bun[p].run = NoRun /\ r # NoRun
      /\ life[r] = "none"
  BY OpiceRunAssumption DEF RunOpens, Platform!Open, IInv, TypeOK, ProcessOK
<1>2. b \in BunRec /\ b.at = "asked" /\ b.run = r
  BY <1>1 DEF BunRec, Up
<1>3. bun' = [bun EXCEPT ![p] = b] /\ UNCHANGED <<peopled, handoff, cli, posts, strays>>
      /\ life' = [life EXCEPT ![r] = "open"]
  BY DEF RunOpens, Platform!Open, IInv, TypeOK
<1> HIDE DEF b
<1>4. /\ bun' \in [Pid -> BunRec] /\ bun'[p] = b
      /\ \A q \in Pid \ {p} : bun'[q] = bun[q]
  BY <1>2, <1>3 DEF IInv, TypeOK
<1>5. /\ life' \in [Run -> Platform!Life] /\ life'[r] = "open"
      /\ \A s \in Run \ {r} : life'[s] = life[s]
  BY <1>3 DEF IInv, TypeOK, Platform!Life
<1>6. /\ r \notin posts
      /\ \A q \in Pid : handoff[q] # r /\ bun[q].run # r
  BY <1>1 DEF IInv, NamesAreOpened
<1>7. TypeOK'
  <2>1. \A q \in Pid : bun'[q].at = "dead" => Parents(q) # {}
    BY <1>2, <1>4 DEF IInv, TypeOK
  <2> QED
    BY <1>3, <1>4, <1>5, <2>1 DEF IInv, TypeOK, Parents
<1>8. ASSUME NEW c \in Cli PROVE CommandOK(c)' /\ FinishOK(c)'
  <2>0. CommandOK(c) /\ FinishOK(c) /\ cli[c].pid \in Pid \cup {NoPid}
    BY CliFields DEF IInv, TypeOK
  <2>1. CommandOK(c)'
    BY <1>1, <1>2, <1>3, <1>4, <2>0 DEF CommandOK, Collecting
  <2>2. cli[c].at \in {"finish", "unlink"} =>
            life'[handoff[cli[c].pid]] = life[handoff[cli[c].pid]]
    BY <1>5, <1>6, <2>0 DEF CommandOK, Collecting
  <2> QED
    BY <1>3, <2>0, <2>1, <2>2 DEF FinishOK
<1>9. ASSUME NEW q \in Pid PROVE ProcessOK(q)' /\ HandoffOK(q)'
  <2>0. ProcessOK(q) /\ HandoffOK(q) /\ handoff[q] \in Run \cup {NoRun}
    BY DEF IInv, TypeOK
  <2>1. ProcessOK(q)'
    BY <1>2, <1>4, <2>0 DEF ProcessOK
  <2>2. handoff[q] # NoRun => life'[handoff[q]] = life[handoff[q]]
    BY <1>5, <1>6, <2>0
  <2>3. q # p => HandoffOK(q)'
    BY <1>3, <1>4, <2>0, <2>2 DEF HandoffOK, Over
  <2>4. q = p => HandoffOK(q)'
    BY <1>1, <1>2, <1>3, <1>4, <2>0, <2>2 DEF HandoffOK, Over
  <2> QED
    BY <2>1, <2>3, <2>4
<1>10. RunsApart'
  <2>1. \A q1, q2 \in Pid : bun'[q1].run = bun'[q2].run /\ bun'[q1].run # NoRun => q1 = q2
    BY <1>2, <1>4, <1>6 DEF IInv, RunsApart
  <2>2. \A q1, q2 \in Pid : handoff[q1] = bun'[q2].run /\ handoff[q1] # NoRun =>
            q1 = q2 /\ bun'[q2].at \in {"known", "dead"}
    BY <1>2, <1>4, <1>6 DEF IInv, RunsApart
  <2> QED
    BY <1>3, <2>1, <2>2 DEF IInv, RunsApart
<1>11. NamesAreOpened'
  <2>1. \A s \in Run : life[s] # "none" => life'[s] # "none"
    BY <1>1, <1>5
  <2>2. \A q \in Pid : bun[q].run \in Run \cup {NoRun} /\ handoff[q] \in Run \cup {NoRun}
    BY BunFields DEF IInv, TypeOK
  <2>3. \A q \in Pid : bun'[q].run # NoRun => life'[bun'[q].run] # "none"
    BY <1>2, <1>4, <1>5, <2>1, <2>2 DEF IInv, NamesAreOpened
  <2>4. \A q \in Pid : handoff[q] # NoRun => life'[handoff[q]] # "none"
    BY <2>1, <2>2 DEF IInv, NamesAreOpened
  <2>5. \A s \in posts : life'[s] # "none"
    BY <2>1 DEF IInv, NamesAreOpened, TypeOK
  <2> QED
    BY <1>3, <2>3, <2>4, <2>5 DEF NamesAreOpened
<1>12. PostedIsOver'
  BY <1>2, <1>3, <1>4, <1>6 DEF IInv, PostedIsOver
<1>13. OpenRunsHaveAnOwner'
  <2>1. ASSUME NEW s \in Run, life'[s] = "open", s \notin strays
        PROVE  Owned(s)'
    <3>1. CASE s = r
      BY <1>2, <1>4, <3>1 DEF Owned, Up
    <3>2. CASE s # r
      <4>1. Owned(s)
        BY <1>5, <2>1, <3>2 DEF IInv, OpenRunsHaveAnOwner
      <4>2. \A q \in Pid : bun[q].run = s => bun'[q] = bun[q]
        BY <1>1, <1>4, <2>1, OpiceRunAssumption
      <4> QED
        BY <1>3, <4>1, <4>2 DEF Owned
    <3> QED
      BY <3>1, <3>2
  <2> QED
    BY <1>3, <2>1 DEF OpenRunsHaveAnOwner
<1> QED
  BY <1>7, <1>8, <1>9, <1>10, <1>11, <1>12, <1>13 DEF IInv

\* A request that was given up names nothing yet.
LEMMA RequestAdriftKeeps ==
    ASSUME IInv, NEW p \in Pid, NEW r \in Run, RequestAdrift(p, r)
    PROVE  IInv'
<1>1. UNCHANGED <<life, peopled, handoff, bun, cli, posts>> /\ strays' = strays \cup {r}
  BY OpiceRunAssumption DEF RequestAdrift, Strays, platform
<1>2. TypeOK'
  BY <1>1 DEF IInv, TypeOK, Parents
<1>3. \A c \in Cli : CommandOK(c)' /\ FinishOK(c)'
  BY <1>1 DEF IInv, CommandOK, FinishOK
<1>4. \A q \in Pid : ProcessOK(q)' /\ HandoffOK(q)'
  BY <1>1 DEF IInv, ProcessOK, HandoffOK, Over
<1>5. RunsApart' /\ NamesAreOpened' /\ PostedIsOver' /\ OpenRunsHaveAnOwner'
  BY <1>1 DEF IInv, RunsApart, NamesAreOpened, PostedIsOver, OpenRunsHaveAnOwner, Owned
<1> QED
  BY <1>2, <1>3, <1>4, <1>5 DEF IInv

\* The run that it opens has no owner, and is not counted on.
LEMMA RunOpensLateKeeps ==
    ASSUME IInv, NEW r \in Run, RunOpensLate(r)
    PROVE  IInv'
<1>1. /\ UNCHANGED <<peopled, handoff, bun, cli, posts, strays>>
      /\ life' = [life EXCEPT ![r] = "open"] /\ life[r] = "none" /\ r \in strays
  BY DEF RunOpensLate, Platform!Open
<1>2. /\ life' \in [Run -> Platform!Life] /\ life'[r] = "open"
      /\ \A s \in Run \ {r} : life'[s] = life[s]
  BY <1>1 DEF IInv, TypeOK, Platform!Life
<1>3. /\ r \notin posts
      /\ \A q \in Pid : handoff[q] # r /\ bun[q].run # r
  BY <1>1, OpiceRunAssumption DEF IInv, NamesAreOpened
<1>4. TypeOK'
  BY <1>1, <1>2 DEF IInv, TypeOK, Parents
<1>5. ASSUME NEW c \in Cli PROVE CommandOK(c)' /\ FinishOK(c)'
  <2>1. CommandOK(c) /\ FinishOK(c) /\ cli[c].pid \in Pid \cup {NoPid}
    BY CliFields DEF IInv, TypeOK
  <2>2. cli[c].at \in {"finish", "unlink"} =>
            life'[handoff[cli[c].pid]] = life[handoff[cli[c].pid]]
    BY <1>2, <1>3, <2>1 DEF CommandOK, Collecting
  <2> QED
    BY <1>1, <2>1, <2>2 DEF CommandOK, FinishOK
<1>6. ASSUME NEW q \in Pid PROVE ProcessOK(q)' /\ HandoffOK(q)'
  <2>1. ProcessOK(q) /\ HandoffOK(q) /\ handoff[q] \in Run \cup {NoRun}
    BY DEF IInv, TypeOK
  <2>2. handoff[q] # NoRun => life'[handoff[q]] = life[handoff[q]]
    BY <1>2, <1>3, <2>1
  <2> QED
    BY <1>1, <2>1, <2>2 DEF ProcessOK, HandoffOK, Over
<1>7. NamesAreOpened'
  <2>1. \A s \in Run : life[s] # "none" => life'[s] # "none"
    BY <1>1, <1>2
  <2>2. \A q \in Pid : bun[q].run \in Run \cup {NoRun} /\ handoff[q] \in Run \cup {NoRun}
    BY BunFields DEF IInv, TypeOK
  <2> QED
    BY <1>1, <2>1, <2>2 DEF IInv, NamesAreOpened, TypeOK
<1>8. OpenRunsHaveAnOwner'
  BY <1>1, <1>2 DEF IInv, OpenRunsHaveAnOwner, Owned
<1>9. RunsApart' /\ PostedIsOver'
  BY <1>1 DEF IInv, RunsApart, PostedIsOver
<1> QED
  BY <1>4, <1>5, <1>6, <1>7, <1>8, <1>9 DEF IInv

-----------------------------------------------------------------------------
(***************************************************************************)
(* The commands.                                                           *)
(***************************************************************************)
LEMMA SpawnKeeps ==
    ASSUME IInv, NEW c \in Cli, NEW p \in Pid, NEW http \in BOOLEAN, NEW strict \in BOOLEAN,
           Spawn(c, p, http, strict)
    PROVE  IInv'
<1> DEFINE at == IF http THEN "starting" ELSE "silent"
           b == [bun[p] EXCEPT !.at = at]
           k == [cli[c] EXCEPT !.at = "child", !.pid = p, !.strict = strict]
<1>1. /\ bun[p] \in BunRec /\ bun[p].at = "free" /\ bun[p].run = NoRun
      /\ cli[c] \in CliRec /\ cli[c].at = "idle" /\ cli[c].pid = NoPid
      /\ cli[c].failed = FALSE /\ cli[c].misled = FALSE
  BY DEF Spawn, Started, IInv, TypeOK, ProcessOK, CommandOK
<1>2. b \in BunRec /\ b.at \in {"starting", "silent"} /\ b.run = NoRun
  <2>1. at \in BunAt /\ at \in {"starting", "silent"}
    BY DEF BunAt, Up
  <2> HIDE DEF at
  <2> QED
    BY <1>1, <2>1, BunAtChanges
<1>3. k \in CliRec /\ k.at = "child" /\ k.pid = p /\ k.failed = FALSE
      /\ k.misled = FALSE
  BY <1>1 DEF CliRec
<1>4. /\ bun' = [bun EXCEPT ![p] = b] /\ cli' = [cli EXCEPT ![c] = k]
      /\ UNCHANGED <<life, peopled, handoff, posts, strays>>
  BY DEF Spawn, Started, IInv, TypeOK, platform
<1> HIDE DEF b, k
<1>5. /\ bun' \in [Pid -> BunRec] /\ bun'[p] = b
      /\ \A q \in Pid \ {p} : bun'[q] = bun[q]
      /\ cli' \in [Cli -> CliRec] /\ cli'[c] = k
      /\ \A d \in Cli \ {c} : cli'[d] = cli[d]
  BY <1>2, <1>3, <1>4 DEF IInv, TypeOK
<1>6. \A d \in Cli : cli[d].pid # p
  BY <1>1 DEF IInv, CommandOK
<1>7. TypeOK'
  <2>1. \A d, e \in Cli : cli'[d].pid = cli'[e].pid /\ cli'[d].pid # NoPid => d = e
    BY <1>3, <1>5, <1>6 DEF IInv, TypeOK
  <2>2. ASSUME NEW q \in Pid, bun'[q].at = "dead" PROVE Parents(q)' # {}
    <3>1. bun[q].at = "dead"
      BY <1>2, <1>5, <2>2
    <3>2. PICK d \in Cli : cli[d].pid = q
      BY <3>1 DEF IInv, TypeOK, Parents
    <3>3. d # c
      BY <1>1, <3>2, OpiceRunAssumption
    <3> QED
      BY <1>5, <3>2, <3>3 DEF Parents
  <2> QED
    BY <1>4, <1>5, <2>1, <2>2 DEF IInv, TypeOK
<1>8. ASSUME NEW d \in Cli PROVE CommandOK(d)' /\ FinishOK(d)'
  <2>1. CASE d = c
    BY <1>2, <1>3, <1>5, <2>1, OpiceRunAssumption DEF CommandOK, FinishOK, Collecting
  <2>2. CASE d # c
    <3>1. CommandOK(d) /\ FinishOK(d) /\ cli[d].pid \in Pid \cup {NoPid}
      BY CliFields DEF IInv, TypeOK
    <3>2. cli[d].pid \in Pid => bun'[cli[d].pid] = bun[cli[d].pid]
      BY <1>5, <1>6
    <3> QED
      BY <1>4, <1>5, <2>2, <3>1, <3>2 DEF CommandOK, FinishOK, Collecting
  <2> QED
    BY <2>1, <2>2
<1>9. ASSUME NEW q \in Pid PROVE ProcessOK(q)' /\ HandoffOK(q)'
  BY <1>1, <1>2, <1>4, <1>5 DEF IInv, ProcessOK, HandoffOK, Over
<1>10. \A q \in Pid : bun'[q].run = bun[q].run /\ (bun[q].run # NoRun => bun'[q] = bun[q])
  BY <1>1, <1>2, <1>5
<1>11. RunsApart'
  BY <1>4, <1>10 DEF IInv, RunsApart
<1>12. NamesAreOpened'
  BY <1>4, <1>10 DEF IInv, NamesAreOpened
<1>13. PostedIsOver'
  <2>1. NoRun \notin posts
    BY OpiceRunAssumption DEF IInv, TypeOK
  <2> QED
    BY <1>4, <1>10, <2>1 DEF IInv, PostedIsOver
<1>14. OpenRunsHaveAnOwner'
  <2>1. ASSUME NEW s \in Run, Owned(s) PROVE Owned(s)'
    <3>1. s # NoRun
      BY OpiceRunAssumption
    <3>2. CASE \E q \in Pid : bun[q].at \in Up /\ bun[q].run = s
      BY <1>10, <3>1, <3>2 DEF Owned
    <3>3. CASE \E d \in Cli : cli[d].at \in {"child", "collect", "finish"} /\ handoff[cli[d].pid] = s
      BY <1>1, <1>4, <1>5, <3>3 DEF Owned
    <3> QED
      BY <2>1, <3>2, <3>3 DEF Owned
  <2> QED
    BY <1>4, <2>1 DEF IInv, OpenRunsHaveAnOwner
<1> QED
  BY <1>7, <1>8, <1>9, <1>11, <1>12, <1>13, <1>14 DEF IInv

\* A command that goes on with its dead child.
LEMMA CommandKeeps ==
    ASSUME IInv, NEW c \in Cli, NEW k \in CliRec, cli' = [cli EXCEPT ![c] = k],
           UNCHANGED <<life, peopled, handoff, bun>>,
           cli[c].at \in {"child"} \cup Collecting, bun[cli[c].pid].at = "dead",
           k.pid = cli[c].pid, k.at \in Collecting,
           k.at \in {"finish", "unlink"} => handoff[k.pid] \in Run,
           posts \ {handoff[k.pid]} \subseteq posts',
           \A r \in posts' : r \in posts \/ r = handoff[k.pid],
           posts' \subseteq Run, strays \subseteq strays', strays' \subseteq Run,
           k.at = "finish" => handoff[k.pid] \in posts' \/ life[handoff[k.pid]] # "open",
           k.at = "unlink" => IF k.failed \/ k.misled THEN handoff[k.pid] \in strays'
                              ELSE life[handoff[k.pid]] # "open",
           cli[c].at = "finish" => k.at = "unlink",
           k.at # "unlink" => k.failed = FALSE /\ k.misled = FALSE,
           cli[c].at # "unlink"
    PROVE  IInv'
<1> DEFINE p == cli[c].pid
<1>1. /\ cli' \in [Cli -> CliRec] /\ cli'[c] = k
      /\ \A d \in Cli \ {c} : cli'[d] = cli[d]
      /\ \A d \in Cli : cli'[d].pid = cli[d].pid
  BY DEF IInv, TypeOK
<1>2. /\ p \in Pid /\ p # NoPid /\ handoff[p] \in Run \cup {NoRun}
      /\ CommandOK(c) /\ FinishOK(c)
  BY OpiceRunAssumption DEF IInv, CommandOK, TypeOK
<1>3. \A d \in Cli \ {c} : cli[d].pid # p
  BY <1>2 DEF IInv, TypeOK
<1>4. TypeOK'
  BY <1>1 DEF IInv, TypeOK, Parents
<1>5. ASSUME NEW d \in Cli PROVE CommandOK(d)' /\ FinishOK(d)'
  <2>1. CASE d = c
    BY <1>1, <1>2, <2>1 DEF CommandOK, FinishOK, Collecting
  <2>2. CASE d # c
    <3>1. CommandOK(d) /\ FinishOK(d)
      BY DEF IInv
    <3>2. CommandOK(d)'
      BY <1>1, <2>2, <3>1 DEF CommandOK
    <3>3. cli[d].at = "finish" => handoff[cli[d].pid] # handoff[p]
      <4>1. cli[d].at = "finish" => cli[d].pid \in Pid /\ handoff[cli[d].pid] # NoRun
        BY <3>1, OpiceRunAssumption DEF CommandOK, Collecting
      <4> QED
        BY <1>2, <1>3, <2>2, <4>1 DEF IInv, RunsApart
    <3>4. FinishOK(d)'
      BY <1>1, <2>2, <3>1, <3>3 DEF FinishOK
    <3> QED
      BY <3>2, <3>4
  <2> QED
    BY <2>1, <2>2
<1>6. ASSUME NEW q \in Pid PROVE ProcessOK(q)' /\ HandoffOK(q)'
  BY DEF IInv, ProcessOK, HandoffOK, Over
<1>7. RunsApart'
  BY DEF IInv, RunsApart
<1>8. NamesAreOpened'
  <2>1. \A r \in posts' : life[r] # "none"
    BY <1>2, OpiceRunAssumption DEF IInv, NamesAreOpened
  <2> QED
    BY <2>1 DEF IInv, NamesAreOpened
<1>9. PostedIsOver'
  <2>1. ASSUME NEW q \in Pid, bun[q].at \in Up, bun[q].run = handoff[p], handoff[p] \in posts'
        PROVE  FALSE
    <3>1. handoff[p] # NoRun
      BY <2>1, OpiceRunAssumption
    <3>2. q = p
      BY <1>2, <2>1, <3>1 DEF IInv, RunsApart
    <3> QED
      BY <2>1, <3>2 DEF Up
  <2> QED
    BY <2>1 DEF IInv, PostedIsOver
<1>10. OpenRunsHaveAnOwner'
  <2>1. ASSUME NEW s \in Run, life[s] = "open", s \notin strays'
        PROVE  Owned(s)'
    <3>1. Owned(s)
      BY <2>1 DEF IInv, OpenRunsHaveAnOwner
    <3>2. CASE \E q \in Pid : bun[q].at \in Up /\ bun[q].run = s
      BY <3>2 DEF Owned
    <3>3. ASSUME NEW d \in Cli, cli[d].at \in {"child", "collect", "finish"},
                 handoff[cli[d].pid] = s
          PROVE  Owned(s)'
      <4>1. CASE d # c
        BY <1>1, <3>3, <4>1 DEF Owned
      <4>2. CASE d = c
        <5>1. k.at # "unlink"
          BY <2>1, <3>3, <4>2
        <5> QED
          BY <1>1, <3>3, <4>2, <5>1 DEF Owned, Collecting
      <4> QED
        BY <4>1, <4>2
    <3> QED
      BY <3>1, <3>2, <3>3 DEF Owned
  <2> QED
    BY <2>1 DEF OpenRunsHaveAnOwner
<1> QED
  BY <1>4, <1>5, <1>6, <1>7, <1>8, <1>9, <1>10 DEF IInv

LEMMA SeesExitKeeps ==
    ASSUME IInv, NEW c \in Cli, SeesExit(c)
    PROVE  IInv'
<1> DEFINE k == [cli[c] EXCEPT !.at = "collect"]
<1>1. /\ cli[c] \in CliRec /\ cli[c].at = "child" /\ bun[cli[c].pid].at = "dead"
      /\ cli[c].failed = FALSE /\ cli[c].misled = FALSE
  BY DEF SeesExit, IInv, TypeOK, CommandOK
<1>2. "collect" \in CliAt
  BY DEF CliAt, Collecting
<1>3. k \in CliRec /\ k.at = "collect" /\ k.pid = cli[c].pid /\ k.failed = cli[c].failed
      /\ k.misled = cli[c].misled
  BY <1>1, <1>2, CliAtChanges
<1>4. /\ cli' = [cli EXCEPT ![c] = k]
      /\ UNCHANGED <<life, peopled, handoff, bun, posts, strays>>
  BY DEF SeesExit, IInv, TypeOK, platform
<1>5. posts' \subseteq Run /\ strays \subseteq strays' /\ strays' \subseteq Run
  BY <1>4 DEF IInv, TypeOK
<1> HIDE DEF k
<1> QED
  BY <1>1, <1>3, <1>4, <1>5, CommandKeeps DEF Collecting

LEMMA CollectKeeps ==
    ASSUME IInv, NEW c \in Cli, Collect(c)
    PROVE  IInv'
<1> DEFINE k == [cli[c] EXCEPT !.at = "finish"]
           p == cli[c].pid
<1>1. /\ cli[c] \in CliRec /\ cli[c].at = "collect" /\ bun[p].at = "dead" /\ p \in Pid
      /\ cli[c].failed = FALSE /\ cli[c].misled = FALSE
  BY DEF Collect, IInv, TypeOK, CommandOK, Collecting
<1>2. "finish" \in CliAt
  BY DEF CliAt, Collecting
<1>3. k \in CliRec /\ k.at = "finish" /\ k.pid = p /\ k.failed = cli[c].failed
      /\ k.misled = cli[c].misled
  BY <1>1, <1>2, CliAtChanges
<1>4. /\ cli' = [cli EXCEPT ![c] = k]
      /\ UNCHANGED <<life, peopled, handoff, bun, strays>>
  BY DEF Collect, IInv, TypeOK, platform
<1>5. handoff[p] \in Run /\ posts' = posts \cup {handoff[p]}
  BY <1>1 DEF Collect, Matching, IInv, TypeOK
<1>6. posts' \subseteq Run /\ strays \subseteq strays' /\ strays' \subseteq Run
  BY <1>4, <1>5 DEF IInv, TypeOK
<1> HIDE DEF k
<1> QED
  BY <1>1, <1>3, <1>4, <1>5, <1>6, CommandKeeps DEF Collecting

LEMMA FinishAnsweredKeeps ==
    ASSUME IInv, NEW c \in Cli, FinishAnswered(c)
    PROVE  IInv'
<1> DEFINE k == [cli[c] EXCEPT !.at = "unlink"]
           p == cli[c].pid
<1>1. /\ cli[c] \in CliRec /\ cli[c].at = "finish" /\ bun[p].at = "dead" /\ p \in Pid
      /\ handoff[p] \in Run /\ handoff[p] \notin posts /\ life[handoff[p]] # "open"
      /\ cli[c].failed = FALSE /\ cli[c].misled = FALSE
  BY DEF FinishAnswered, IInv, TypeOK, CommandOK, FinishOK, Collecting
<1>2. "unlink" \in CliAt
  BY DEF CliAt, Collecting
<1>3. k \in CliRec /\ k.at = "unlink" /\ k.pid = p /\ k.failed = cli[c].failed
      /\ k.misled = cli[c].misled
  BY <1>1, <1>2, CliAtChanges
<1>4. /\ cli' = [cli EXCEPT ![c] = k]
      /\ UNCHANGED <<life, peopled, handoff, bun, posts, strays>>
  BY DEF FinishAnswered, IInv, TypeOK, platform
<1>5. posts' \subseteq Run /\ strays \subseteq strays' /\ strays' \subseteq Run
  BY <1>4 DEF IInv, TypeOK
<1> HIDE DEF k
<1> QED
  BY <1>1, <1>3, <1>4, <1>5, CommandKeeps DEF Collecting

LEMMA TurnedAwayKeeps ==
    ASSUME IInv, NEW c \in Cli, TurnedAway(c)
    PROVE  IInv'
<1> DEFINE k == [cli[c] EXCEPT !.at = "unlink", !.misled = TRUE]
           p == cli[c].pid
<1>1. /\ cli[c] \in CliRec /\ cli[c].at = "finish" /\ bun[p].at = "dead" /\ p \in Pid
      /\ handoff[p] \in Run
  BY DEF TurnedAway, IInv, TypeOK, CommandOK, Collecting
<1>2. k \in CliRec /\ k.at = "unlink" /\ k.pid = p /\ k.misled = TRUE
  BY <1>1 DEF CliRec, Collecting
<1>3. /\ cli' = [cli EXCEPT ![c] = k]
      /\ UNCHANGED <<life, peopled, handoff, bun>>
      /\ posts' = posts \ {handoff[p]}
      /\ strays' = strays \cup {handoff[p]}
  BY <1>1, OpiceRunAssumption DEF TurnedAway, Strays, IInv, TypeOK, platform
<1>4. /\ posts' \subseteq posts /\ posts \ {handoff[p]} \subseteq posts' /\ posts' \subseteq Run
      /\ strays \subseteq strays' /\ strays' \subseteq Run /\ handoff[p] \in strays'
  BY <1>1, <1>3 DEF IInv, TypeOK
<1> HIDE DEF k
<1> QED
  BY <1>1, <1>2, <1>3, <1>4, CommandKeeps DEF Collecting

LEMMA FinishFailsKeeps ==
    ASSUME IInv, NEW c \in Cli, NEW lost \in BOOLEAN, FinishFails(c, lost)
    PROVE  IInv'
<1> DEFINE k == [cli[c] EXCEPT !.at = "unlink", !.failed = TRUE]
           p == cli[c].pid
<1>1. /\ cli[c] \in CliRec /\ cli[c].at = "finish" /\ bun[p].at = "dead" /\ p \in Pid
      /\ handoff[p] \in Run
  BY DEF FinishFails, IInv, TypeOK, CommandOK, Collecting
<1>2. k \in CliRec /\ k.at = "unlink" /\ k.pid = p /\ k.failed = TRUE
  BY <1>1 DEF CliRec, Collecting
<1>3. /\ cli' = [cli EXCEPT ![c] = k]
      /\ UNCHANGED <<life, peopled, handoff, bun>>
      /\ posts' = (IF lost THEN posts \ {handoff[p]} ELSE posts)
      /\ strays' = strays \cup {handoff[p]}
  BY <1>1, OpiceRunAssumption DEF FinishFails, Strays, IInv, TypeOK, platform
<1>4. /\ posts' \subseteq posts /\ posts \ {handoff[p]} \subseteq posts' /\ posts' \subseteq Run
      /\ strays \subseteq strays' /\ strays' \subseteq Run /\ handoff[p] \in strays'
  BY <1>1, <1>3 DEF IInv, TypeOK
<1> HIDE DEF k
<1> QED
  BY <1>1, <1>2, <1>3, <1>4, CommandKeeps DEF Collecting

\* A command that lets go of its child, whose pid is free from then on if it is
\* dead; what the file of that pid still names is over.
LEMMA LettingGoKeeps ==
    ASSUME IInv, NEW c \in Cli, NEW k \in CliRec, NEW p \in Pid, p = cli[c].pid,
           cli' = [cli EXCEPT ![c] = k], k.at \in {"done", "killed"}, k.pid = NoPid,
           k.failed = FALSE, k.at # "done" => k.misled = FALSE,
           bun' = IF bun[p].at = "dead" THEN [bun EXCEPT ![p] = NoBun] ELSE bun,
           UNCHANGED <<life, peopled, posts>>,
           handoff' \in [Pid -> Run \cup {NoRun}],
           \A q \in Pid : handoff'[q] = handoff[q] \/ (q = p /\ handoff'[q] = NoRun),
           bun[p].at = "dead" \/ handoff'[p] = handoff[p],
           strays \subseteq strays', strays' \subseteq Run,
           handoff[p] # NoRun => life[handoff[p]] # "open" \/ handoff[p] \in strays'
    PROVE  IInv'
<1>1. /\ cli' \in [Cli -> CliRec] /\ cli'[c] = k
      /\ \A d \in Cli \ {c} : cli'[d] = cli[d]
  BY DEF IInv, TypeOK
<1>2. /\ bun' \in [Pid -> BunRec]
      /\ \A q \in Pid \ {p} : bun'[q] = bun[q]
      /\ bun[p].at = "dead" => bun'[p] = NoBun
      /\ bun[p].at # "dead" => bun'[p] = bun[p]
  BY NoBunIs DEF IInv, TypeOK
<1>3. \A q \in Pid : bun'[q] = bun[q] \/ (bun'[q].run = NoRun /\ bun'[q].at = "free" /\ q = p)
  BY <1>2, NoBunIs
<1>4. \A d \in Cli \ {c} : cli[d].pid # p
  BY OpiceRunAssumption DEF IInv, TypeOK
<1>5. TypeOK'
  <2>1. \A d, e \in Cli : cli'[d].pid = cli'[e].pid /\ cli'[d].pid # NoPid => d = e
    BY <1>1 DEF IInv, TypeOK
  <2>2. ASSUME NEW q \in Pid, bun'[q].at = "dead" PROVE Parents(q)' # {}
    <3>1. bun[q].at = "dead" /\ q # p
      BY <1>2, <2>2, NoBunIs
    <3>2. PICK d \in Cli : cli[d].pid = q
      BY <3>1 DEF IInv, TypeOK, Parents
    <3>3. d # c
      BY <3>1, <3>2
    <3> QED
      BY <1>1, <3>2, <3>3 DEF Parents
  <2> QED
    BY <1>1, <1>2, <2>1, <2>2 DEF IInv, TypeOK
<1>6. ASSUME NEW d \in Cli PROVE CommandOK(d)' /\ FinishOK(d)'
  <2>1. CASE d = c
    BY <1>1, <2>1, OpiceRunAssumption DEF CommandOK, FinishOK, Collecting
  <2>2. CASE d # c
    <3>1. CommandOK(d) /\ FinishOK(d) /\ cli[d].pid \in Pid \cup {NoPid}
      BY CliFields DEF IInv, TypeOK
    <3>2. cli[d].pid \in Pid => /\ bun'[cli[d].pid] = bun[cli[d].pid]
                                /\ handoff'[cli[d].pid] = handoff[cli[d].pid]
      BY <1>2, <1>4, <2>2
    <3>3. CommandOK(d)'
      BY <1>1, <2>2, <3>1, <3>2 DEF CommandOK, Collecting
    <3>4. cli[d].at \in {"finish", "unlink"} => cli[d].pid \in Pid
      BY <3>1 DEF CommandOK, Collecting
    <3>5. FinishOK(d)'
      BY <1>1, <2>2, <3>1, <3>2, <3>4 DEF FinishOK
    <3> QED
      BY <3>3, <3>5
  <2> QED
    BY <2>1, <2>2
<1>7. ASSUME NEW q \in Pid PROVE ProcessOK(q)' /\ HandoffOK(q)'
  <2>0. ProcessOK(q) /\ HandoffOK(q)
    BY DEF IInv
  <2>1. ProcessOK(q)'
    BY <1>3, <2>0 DEF ProcessOK
  <2>2. CASE q # p
    <3>1. handoff'[q] = handoff[q] /\ bun'[q] = bun[q]
      BY <1>2, <2>2
    <3> QED
      BY <2>0, <2>1, <3>1 DEF HandoffOK, Over
  <2>3. CASE q = p
    <3>1. handoff'[p] # NoRun => life[handoff'[p]] # "open" \/ handoff'[p] \in strays'
      OBVIOUS
    <3>2. CASE bun[p].at = "dead"
      BY <1>2, <2>1, <2>3, <3>1, <3>2, NoBunIs DEF HandoffOK, Over
    <3>3. CASE bun[p].at # "dead"
      BY <1>2, <2>0, <2>1, <2>3, <3>1, <3>3 DEF HandoffOK, Over
    <3> QED
      BY <3>2, <3>3
  <2> QED
    BY <2>1, <2>2, <2>3
<1>8. RunsApart'
  <2>1. \A q1, q2 \in Pid : bun'[q1].run = bun'[q2].run /\ bun'[q1].run # NoRun => q1 = q2
    BY <1>3 DEF IInv, RunsApart
  <2>2. \A q1, q2 \in Pid : handoff'[q1] = handoff'[q2] /\ handoff'[q1] # NoRun => q1 = q2
    BY DEF IInv, RunsApart
  <2>3. ASSUME NEW q1 \in Pid, NEW q2 \in Pid, handoff'[q1] = bun'[q2].run, handoff'[q1] # NoRun
        PROVE  q1 = q2 /\ bun'[q2].at \in {"known", "dead"}
    <3>1. handoff'[q1] = handoff[q1] /\ bun'[q2] = bun[q2]
      BY <1>3, <2>3
    <3> QED
      BY <2>3, <3>1 DEF IInv, RunsApart
  <2> QED
    BY <2>1, <2>2, <2>3 DEF RunsApart
<1>9. NamesAreOpened'
  <2>1. \A q \in Pid : bun'[q].run # NoRun => bun'[q].run = bun[q].run
    BY <1>3
  <2> QED
    BY <2>1 DEF IInv, NamesAreOpened
<1>10. PostedIsOver'
  <2>1. \A q \in Pid : bun'[q].at \in Up => bun'[q] = bun[q]
    BY <1>3 DEF Up
  <2> QED
    BY <2>1 DEF IInv, PostedIsOver
<1>11. OpenRunsHaveAnOwner'
  <2>1. ASSUME NEW s \in Run, life[s] = "open", s \notin strays'
        PROVE  Owned(s)'
    <3>1. Owned(s) /\ s # NoRun
      BY <2>1, OpiceRunAssumption DEF IInv, OpenRunsHaveAnOwner
    <3>2. CASE \E q \in Pid : bun[q].at \in Up /\ bun[q].run = s
      <4>1. \A q \in Pid : bun[q].at \in Up => bun'[q] = bun[q]
        BY <1>2 DEF Up
      <4> QED
        BY <3>2, <4>1 DEF Owned
    <3>3. ASSUME NEW d \in Cli, cli[d].at \in {"child", "collect", "finish"},
                 handoff[cli[d].pid] = s
          PROVE  Owned(s)'
      <4>1. d # c
        BY <2>1, <3>1, <3>3
      <4>2. cli[d].pid \in Pid /\ cli[d].pid # p
        BY <1>4, <3>3, <4>1 DEF IInv, CommandOK, Collecting
      <4> QED
        BY <1>1, <3>3, <4>1, <4>2 DEF Owned
    <3> QED
      BY <3>1, <3>2, <3>3 DEF Owned
  <2> QED
    BY <2>1 DEF OpenRunsHaveAnOwner
<1> QED
  BY <1>5, <1>6, <1>7, <1>8, <1>9, <1>10, <1>11 DEF IInv

LEMMA NewCliIs ==
    /\ NewCli \in CliRec /\ NewCli.pid = NoPid
    /\ NewCli.failed = FALSE /\ NewCli.misled = FALSE
    /\ LET n == [NewCli EXCEPT !.at = "killed"] IN
       /\ n \in CliRec /\ n.at = "killed" /\ n.pid = NoPid
       /\ n.failed = FALSE /\ n.misled = FALSE
<1>1. /\ NewCli \in CliRec /\ NewCli.pid = NoPid
      /\ NewCli.failed = FALSE /\ NewCli.misled = FALSE
  BY DEF NewCli, CliRec
<1>2. "killed" \in CliAt
  BY DEF CliAt
<1> QED
  BY <1>1, <1>2, CliAtChanges

LEMMA DoneCliIs ==
    ASSUME NEW code \in 0..1, NEW misled \in BOOLEAN
    PROVE  LET n == [NewCli EXCEPT !.at = "done", !.code = code, !.misled = misled] IN
           /\ n \in CliRec /\ n.at = "done" /\ n.pid = NoPid /\ n.failed = FALSE
           /\ n.code = code /\ n.misled = misled
<1> DEFINE k == NewCli
           n == [k EXCEPT !.at = "done", !.code = code, !.misled = misled]
<1>1. k \in CliRec /\ k.pid = NoPid /\ k.failed = FALSE
  BY NewCliIs
<1> HIDE DEF k
<1>2. /\ n \in CliRec /\ n.at = "done" /\ n.pid = k.pid /\ n.failed = k.failed
      /\ n.code = code /\ n.misled = misled
  BY <1>1 DEF CliRec
<1> HIDE DEF n
<1>3. /\ n \in CliRec /\ n.at = "done" /\ n.pid = NoPid /\ n.failed = FALSE
      /\ n.code = code /\ n.misled = misled
  BY <1>1, <1>2
<1> USE DEF n, k
<1> QED
  BY <1>3

LEMMA NothingToCollectKeeps ==
    ASSUME IInv, NEW c \in Cli, NothingToCollect(c)
    PROVE  IInv'
<1> DEFINE p == cli[c].pid
           code == ExitCode(c)
           misled == FALSE
           k == [NewCli EXCEPT !.at = "done", !.code = code, !.misled = misled]
<1>1. /\ cli[c].at = "collect" /\ p \in Pid /\ bun[p].at = "dead" /\ handoff[p] = NoRun
  BY DEF NothingToCollect, Matching, IInv, CommandOK, Collecting
<1>2. code \in 0..1 /\ misled \in BOOLEAN
  BY <1>1, BunFields DEF ExitCode, IInv, TypeOK
<1>3. /\ cli' = [cli EXCEPT ![c] = k] /\ bun' = [bun EXCEPT ![p] = NoBun]
      /\ UNCHANGED <<life, peopled, posts, handoff, strays>>
  BY DEF NothingToCollect, Ends, platform
<1> HIDE DEF code, misled
<1>4. k \in CliRec /\ k.at = "done" /\ k.pid = NoPid /\ k.failed = FALSE
  BY <1>2, DoneCliIs
<1>5. handoff' \in [Pid -> Run \cup {NoRun}] /\ strays' \subseteq Run /\ strays \subseteq strays'
  BY <1>3 DEF IInv, TypeOK
<1> HIDE DEF k
<1> QED
  BY <1>1, <1>3, <1>4, <1>5, LettingGoKeeps

LEMMA CannotListKeeps ==
    ASSUME IInv, NEW c \in Cli, CannotList(c)
    PROVE  IInv'
<1> DEFINE p == cli[c].pid
           code == ExitCode(c)
           misled == TRUE
           k == [NewCli EXCEPT !.at = "done", !.code = code, !.misled = misled]
<1>1. /\ cli[c].at = "collect" /\ p \in Pid /\ bun[p].at = "dead" /\ handoff[p] \in Run
  BY DEF CannotList, Matching, IInv, TypeOK, CommandOK, Collecting
<1>2. code \in 0..1 /\ misled \in BOOLEAN
  BY <1>1, BunFields DEF ExitCode, IInv, TypeOK
<1>3. /\ cli' = [cli EXCEPT ![c] = k] /\ bun' = [bun EXCEPT ![p] = NoBun]
      /\ UNCHANGED <<life, peopled, posts, handoff>> /\ strays' = strays \cup {handoff[p]}
  BY <1>1, OpiceRunAssumption DEF CannotList, Ends, Strays, platform
<1> HIDE DEF code, misled
<1>4. k \in CliRec /\ k.at = "done" /\ k.pid = NoPid /\ k.failed = FALSE
  BY <1>2, DoneCliIs
<1>5. handoff' \in [Pid -> Run \cup {NoRun}] /\ strays' \subseteq Run /\ strays \subseteq strays'
  BY <1>1, <1>3 DEF IInv, TypeOK
<1> HIDE DEF k
<1> QED
  BY <1>1, <1>3, <1>4, <1>5, LettingGoKeeps

LEMMA UnlinkKeeps ==
    ASSUME IInv, NEW c \in Cli, NEW removed \in BOOLEAN, Unlink(c, removed)
    PROVE  IInv'
<1> DEFINE p == cli[c].pid
           code == ExitCode(c)
           misled == cli[c].misled
           k == [NewCli EXCEPT !.at = "done", !.code = code, !.misled = misled]
<1>1. /\ cli[c].at = "unlink" /\ p \in Pid /\ bun[p].at = "dead" /\ handoff[p] \in Run
      /\ life[handoff[p]] # "open" \/ handoff[p] \in strays
  BY DEF Unlink, IInv, CommandOK, FinishOK, Collecting
<1>2. code \in 0..1 /\ misled \in BOOLEAN
  BY <1>1, BunFields, CliFields DEF ExitCode, IInv, TypeOK
<1>3. /\ cli' = [cli EXCEPT ![c] = k] /\ bun' = [bun EXCEPT ![p] = NoBun]
      /\ UNCHANGED <<life, peopled, posts, strays>>
      /\ handoff' = IF removed THEN [handoff EXCEPT ![p] = NoRun] ELSE handoff
  BY DEF Unlink, Ends, platform
<1> HIDE DEF code, misled
<1>4. k \in CliRec /\ k.at = "done" /\ k.pid = NoPid /\ k.failed = FALSE
  BY <1>2, DoneCliIs
<1>5. /\ handoff' \in [Pid -> Run \cup {NoRun}] /\ strays' \subseteq Run /\ strays \subseteq strays'
      /\ \A q \in Pid : handoff'[q] = handoff[q] \/ (q = p /\ handoff'[q] = NoRun)
  BY <1>1, <1>3 DEF IInv, TypeOK
<1> HIDE DEF k
<1> QED
  BY <1>1, <1>3, <1>4, <1>5, LettingGoKeeps

LEMMA KilledKeeps ==
    ASSUME IInv, NEW c \in Cli, Killed(c)
    PROVE  IInv'
<1> DEFINE p == cli[c].pid
           k == [NewCli EXCEPT !.at = "killed"]
<1>1. cli[c].at \in {"child"} \cup Collecting /\ p \in Pid
  BY DEF Killed, IInv, CommandOK
<1>2. k \in CliRec /\ k.at = "killed" /\ k.pid = NoPid /\ k.failed = FALSE
      /\ k.misled = FALSE
  BY NewCliIs
<1>3. /\ cli' = [cli EXCEPT ![c] = k]
      /\ bun' = IF bun[p].at = "dead" THEN [bun EXCEPT ![p] = NoBun] ELSE bun
      /\ UNCHANGED <<life, peopled, posts, handoff>>
      /\ strays' = strays \cup ({bun[p].run, handoff[p]} \ {NoRun})
  BY DEF Killed, platform
<1>4. /\ handoff' \in [Pid -> Run \cup {NoRun}] /\ strays' \subseteq Run /\ strays \subseteq strays'
      /\ handoff[p] # NoRun => handoff[p] \in strays'
  <2>1. bun[p].run \in Run \cup {NoRun}
    BY <1>1, BunFields DEF IInv, TypeOK
  <2> QED
    BY <1>1, <1>3, <2>1 DEF IInv, TypeOK
<1> HIDE DEF k
<1> QED
  BY <1>1, <1>2, <1>3, <1>4, LettingGoKeeps

\* Runs come to an end on the platform: by their finish, or by the cron.
LEMMA EndingKeeps ==
    ASSUME IInv, UNCHANGED <<handoff, bun, cli, strays>>, posts' \subseteq posts,
           life' \in [Run -> Platform!Life], peopled' \in [Run -> BOOLEAN],
           \A s \in Run : life'[s] = life[s] \/ life'[s] \notin {"none", "open"},
           \A r \in posts : r \in posts' \/ life'[r] # "open"
    PROVE  IInv'
<1>1. TypeOK'
  BY DEF IInv, TypeOK, Parents
<1>2. /\ \A p \in Pid : bun[p].run \in Run \cup {NoRun} /\ handoff[p] \in Run \cup {NoRun}
      /\ \A s \in Run : life[s] # "none" => life'[s] # "none"
      /\ \A s \in Run : life[s] # "open" /\ life[s] # "none" => life'[s] # "open"
  BY BunFields DEF IInv, TypeOK
<1>3. ASSUME NEW c \in Cli PROVE CommandOK(c)' /\ FinishOK(c)'
  <2>1. CommandOK(c) /\ FinishOK(c)
    BY DEF IInv
  <2>2. CommandOK(c)'
    BY <2>1 DEF CommandOK
  <2>3. cli[c].at \in {"finish", "unlink"} =>
            handoff[cli[c].pid] \in Run /\ life[handoff[cli[c].pid]] # "none"
    BY <2>1, OpiceRunAssumption DEF CommandOK, Collecting, IInv, NamesAreOpened
  <2>4. FinishOK(c)'
    BY <1>2, <2>1, <2>3 DEF FinishOK
  <2> QED
    BY <2>2, <2>4
<1>4. ASSUME NEW q \in Pid PROVE ProcessOK(q)' /\ HandoffOK(q)'
  <2>1. ProcessOK(q) /\ HandoffOK(q)
    BY DEF IInv
  <2>2. handoff[q] # NoRun => handoff[q] \in Run /\ life[handoff[q]] # "none"
    BY <1>2 DEF IInv, NamesAreOpened
  <2> QED
    BY <1>2, <2>1, <2>2 DEF ProcessOK, HandoffOK, Over
<1>5. RunsApart' /\ PostedIsOver'
  BY DEF IInv, RunsApart, PostedIsOver
<1>6. NamesAreOpened'
  BY <1>2 DEF IInv, NamesAreOpened, TypeOK
<1>7. OpenRunsHaveAnOwner'
  BY DEF IInv, OpenRunsHaveAnOwner, Owned
<1> QED
  BY <1>1, <1>3, <1>4, <1>5, <1>6, <1>7 DEF IInv

LEMMA FinishLandsKeeps ==
    ASSUME IInv, NEW r \in Run, NEW v \in Platform!Verdict, FinishLands(r, v)
    PROVE  IInv'
<1>1. UNCHANGED <<handoff, bun, cli, strays, peopled>> /\ posts' = posts \ {r}
  BY DEF FinishLands, Platform!Close, platform
<1>2. /\ life' \in [Run -> Platform!Life] /\ life'[r] # "open"
      /\ \A s \in Run : life'[s] = life[s] \/ life'[s] \notin {"none", "open"}
  <2>1. CASE Platform!Close(r, v)
    BY <2>1 DEF Platform!Close, Platform!Verdict, Platform!Life, IInv, TypeOK
  <2>2. CASE life[r] = "given up" /\ UNCHANGED platform
    BY <2>2 DEF platform, IInv, TypeOK
  <2> QED
    BY <2>1, <2>2 DEF FinishLands
<1>3. peopled' \in [Run -> BOOLEAN] /\ posts' \subseteq posts
      /\ \A s \in posts : s \in posts' \/ life'[s] # "open"
  BY <1>1, <1>2 DEF IInv, TypeOK
<1> QED
  BY <1>1, <1>2, <1>3, EndingKeeps

LEMMA ReaperKeeps ==
    ASSUME IInv, Reaper
    PROVE  IInv'
<1>1. PICK gone \in SUBSET Run : Platform!GiveUp(gone)
  BY DEF Reaper
<1>2. UNCHANGED <<handoff, bun, cli, posts, strays, peopled>>
  BY <1>1 DEF Reaper, Platform!GiveUp
<1>3. life' \in [Run -> Platform!Life]
      /\ \A s \in Run : life'[s] = life[s] \/ life'[s] \notin {"none", "open"}
  BY <1>1 DEF Platform!GiveUp, Platform!Life, IInv, TypeOK
<1>4. peopled' \in [Run -> BOOLEAN]
  BY <1>2 DEF IInv, TypeOK
<1> QED
  BY <1>2, <1>3, <1>4, EndingKeeps

-----------------------------------------------------------------------------
(***************************************************************************)
(* The theorems.                                                           *)
(***************************************************************************)
LEMMA Initially ==
    Init => IInv
<1> SUFFICES ASSUME Init PROVE IInv
  OBVIOUS
<1>1. /\ \A p \in Pid : handoff[p] = NoRun /\ bun[p].at = "free" /\ bun[p].run = NoRun
      /\ \A c \in Cli : /\ cli[c].at = "idle" /\ cli[c].pid = NoPid
                        /\ cli[c].failed = FALSE /\ cli[c].misled = FALSE
      /\ \A r \in Run : life[r] = "none"
      /\ posts = {}
  BY DEF Init, NoBun, NewCli, Platform!Init
<1>2. TypeOK
  <2>1. bun \in [Pid -> BunRec] /\ cli \in [Cli -> CliRec]
    BY NoBunIs, NewCliIs DEF Init
  <2> QED
    BY <1>1, <2>1 DEF Init, TypeOK, Platform!Init, Platform!Life
<1>3. \A c \in Cli : CommandOK(c) /\ FinishOK(c)
  BY <1>1, OpiceRunAssumption DEF CommandOK, FinishOK, Collecting
<1>4. \A p \in Pid : ProcessOK(p) /\ HandoffOK(p)
  BY <1>1 DEF ProcessOK, HandoffOK
<1>5. RunsApart /\ NamesAreOpened /\ PostedIsOver /\ OpenRunsHaveAnOwner
  BY <1>1 DEF RunsApart, NamesAreOpened, PostedIsOver, OpenRunsHaveAnOwner, Up
<1> QED
  BY <1>2, <1>3, <1>4, <1>5 DEF IInv

LEMMA StutterKeeps ==
    ASSUME IInv, UNCHANGED vars
    PROVE  IInv'
BY DEF vars, platform, IInv, TypeOK, Parents, CommandOK, FinishOK, ProcessOK, HandoffOK, Over,
       RunsApart, NamesAreOpened, PostedIsOver, OpenRunsHaveAnOwner, Owned

LEMMA Inductive ==
    IInv /\ [Next]_vars => IInv'
<1> SUFFICES ASSUME IInv, [Next]_vars PROVE IInv'
  OBVIOUS
<1>1. ASSUME NEW c \in Cli, NEW p \in Pid, NEW http \in BOOLEAN, NEW strict \in BOOLEAN,
             Spawn(c, p, http, strict)
      PROVE  IInv'
  BY <1>1, SpawnKeeps
<1>2. ASSUME NEW p \in Pid, BareBunTest(p) \/ AnswerLost(p) \/ StartFails(p) \/ Reports(p)
      PROVE  IInv'
  BY <1>2, BareBunTestKeeps, AnswerLostKeeps, StartFailsKeeps, ReportsKeeps
<1>3. ASSUME NEW p \in Pid, NEW r \in Run,
             RunOpens(p, r) \/ RequestAdrift(p, r)
      PROVE  IInv'
  BY <1>3, RunOpensKeeps, RequestAdriftKeeps
<1>4. ASSUME NEW p \in Pid, NEW written \in BOOLEAN, RunKnown(p, written)
      PROVE  IInv'
  BY <1>4, RunKnownKeeps
<1>5. ASSUME NEW p \in Pid, NEW code \in 0..1, Exit(p, code)
      PROVE  IInv'
  BY <1>5, ExitKeeps
<1>6. ASSUME NEW c \in Cli, Command(c)
      PROVE  IInv'
  BY <1>6, SeesExitKeeps, NothingToCollectKeeps, CannotListKeeps, CollectKeeps,
     FinishAnsweredKeeps, TurnedAwayKeeps, FinishFailsKeeps, UnlinkKeeps DEF Command
<1>7. ASSUME NEW c \in Cli, Killed(c)
      PROVE  IInv'
  BY <1>7, KilledKeeps
<1>8. ASSUME NEW r \in Run, NEW v \in Platform!Verdict, FinishLands(r, v)
      PROVE  IInv'
  BY <1>8, FinishLandsKeeps
<1>9. CASE Reaper
  BY <1>9, ReaperKeeps
<1>10. CASE AllDone \/ UNCHANGED vars
  BY <1>10, StutterKeeps DEF AllDone
<1>11. ASSUME NEW r \in Run, RunOpensLate(r)
       PROVE  IInv'
  BY <1>11, RunOpensLateKeeps
<1> QED
  BY <1>1, <1>2, <1>3, <1>4, <1>5, <1>6, <1>7, <1>8, <1>9, <1>10, <1>11 DEF Next

\* The handoff protocol keeps its invariant, whatever the number of commands, of
\* processes and of reused pids: each run has one process, one file at most, and
\* a finish on its way only once that process is gone.
THEOREM Invariance ==
    Spec => []IInv
BY Initially, Inductive, PTL DEF Spec

\* Commands, processes, handoffs and runs keep to their types, a command holds a
\* pid of its own, and a dead process has a command that waits for it.
THEOREM TypeCorrect ==
    Spec => []TypeOK
<1>1. IInv => TypeOK
  BY DEF IInv
<1> QED
  BY <1>1, Invariance, PTL

\* A run that stays open either has a process or a command that can still finish
\* it, or was lost in one of the ways the code puts up with.
THEOREM EveryOpenRunHasAnOwner ==
    Spec => []OpenRunsHaveAnOwner
<1>1. IInv => OpenRunsHaveAnOwner
  BY DEF IInv
<1> QED
  BY <1>1, Invariance, PTL

\* Commands and processes make of the platform only what it promises: every step is
\* one of RunLifecycle or leaves its runs alone.  It is what lets RunLifecycle stand
\* here for the rows of Platform, which implements it.
THEOREM PlatformIsUsedAsPromised ==
    Spec => Platform!Spec
<1>1. Init => Platform!Init
  BY DEF Init
<1>2. IInv /\ [Next]_vars => [Platform!Next]_<<life, peopled>>
  <2> SUFFICES ASSUME IInv, Next, ~UNCHANGED <<life, peopled>>
               PROVE  Platform!Next
    BY DEF vars, platform
  <2> USE DEF platform
  <2>1. ASSUME NEW p \in Pid, NEW r \in Run, RunOpens(p, r) PROVE Platform!Next
    BY <2>1 DEF RunOpens, Platform!Next
  <2>2. ASSUME NEW p \in Pid, Reports(p) PROVE Platform!Next
    <3>1. Platform!Feed(bun[p].run) /\ bun[p].run \in Run
      BY <2>2 DEF Reports, IInv, ProcessOK
    <3> QED
      BY <3>1 DEF Platform!Next
  <2>3. ASSUME NEW r \in Run, NEW v \in Platform!Verdict, FinishLands(r, v)
        PROVE  Platform!Next
    BY <2>3 DEF FinishLands, Platform!Next
  <2>4. CASE Reaper
    BY <2>4 DEF Reaper, Platform!Next
  <2>5. ASSUME NEW c \in Cli, Command(c) \/ Killed(c) PROVE FALSE
    BY <2>5 DEF Command, Killed, SeesExit, NothingToCollect, CannotList, Collect,
                FinishAnswered, TurnedAway, FinishFails, Unlink
  <2>6. ASSUME NEW p \in Pid, \/ BareBunTest(p) \/ AnswerLost(p) \/ StartFails(p)
                              \/ \E written \in BOOLEAN : RunKnown(p, written)
                              \/ \E code \in 0..1 : Exit(p, code)
                              \/ \E r \in Run : RequestAdrift(p, r)
        PROVE  FALSE
    BY <2>6 DEF BareBunTest, AnswerLost, StartFails, RunKnown, Exit, RequestAdrift
  <2>7. ASSUME NEW c \in Cli, NEW p \in Pid, NEW http \in BOOLEAN, NEW strict \in BOOLEAN,
               Spawn(c, p, http, strict)
        PROVE  FALSE
    BY <2>7 DEF Spawn
  <2>8. CASE AllDone
    BY <2>8 DEF AllDone, vars
  <2>9. ASSUME NEW r \in Run, RunOpensLate(r) PROVE Platform!Next
    BY <2>9 DEF RunOpensLate, Platform!Next
  <2> QED
    BY <2>1, <2>2, <2>3, <2>4, <2>5, <2>6, <2>7, <2>8, <2>9 DEF Next
<1> QED
  BY <1>1, <1>2, Invariance, PTL DEF Spec, Platform!Spec

\* Runs change by nothing but the platform's own operations, and only a finish
\* that lands gives a verdict.
LEMMA OnlyFinishesGiveVerdicts ==
    ASSUME IInv, [Next]_vars, NEW r \in Run,
           life'[r] # life[r], life'[r] \in Platform!Verdict
    PROVE  r \in posts
<1> SUFFICES ASSUME r \notin posts PROVE FALSE
  OBVIOUS
<1>1. life \in [Run -> Platform!Life]
  BY DEF IInv, TypeOK
<1>2. ASSUME NEW p \in Pid, NEW s \in Run, RunOpens(p, s)
      PROVE  FALSE
  BY <1>1, <1>2 DEF RunOpens, Platform!Open, Platform!Verdict
<1>9. ASSUME NEW s \in Run, RunOpensLate(s)
      PROVE  FALSE
  BY <1>1, <1>9 DEF RunOpensLate, Platform!Open, Platform!Verdict
<1>3. ASSUME NEW s \in Run, NEW v \in Platform!Verdict, FinishLands(s, v)
      PROVE  FALSE
  BY <1>1, <1>3 DEF FinishLands, Platform!Close, platform
<1>4. CASE Reaper
  BY <1>1, <1>4 DEF Reaper, Platform!GiveUp, Platform!Verdict
<1>5. ASSUME NEW p \in Pid,
             \/ BareBunTest(p) \/ AnswerLost(p) \/ StartFails(p) \/ Reports(p)
             \/ \E b \in BOOLEAN : RunKnown(p, b)
             \/ \E code \in 0..1 : Exit(p, code)
             \/ \E s \in Run : RequestAdrift(p, s)
      PROVE  FALSE
  BY <1>5 DEF BareBunTest, AnswerLost, StartFails, Reports, Platform!Feed, RunKnown, Exit,
              RequestAdrift, platform
<1>6. ASSUME NEW c \in Cli, NEW p \in Pid, NEW b1 \in BOOLEAN, NEW b2 \in BOOLEAN,
             Spawn(c, p, b1, b2)
      PROVE  FALSE
  BY <1>6 DEF Spawn, platform
<1>7. ASSUME NEW c \in Cli, Command(c) \/ Killed(c)
      PROVE  FALSE
  BY <1>7 DEF Command, SeesExit, NothingToCollect, CannotList, Collect, FinishAnswered,
              TurnedAway, FinishFails, Unlink, Killed, platform
<1>8. CASE AllDone \/ UNCHANGED vars
  BY <1>8 DEF AllDone, vars, platform
<1> QED
  BY <1>2, <1>3, <1>4, <1>5, <1>6, <1>7, <1>8, <1>9 DEF Next

\* No command closes a run under the feet of the process that reports to it, be
\* it with a handoff that an earlier process of the same pid left behind or with
\* a finish that lands late.
THEOREM LiveRunsAreNotFinished ==
    Spec => NoLiveRunIsFinished
<1>1. ASSUME IInv, [Next]_vars, NEW r \in Run,
             life'[r] # life[r], life'[r] \in Platform!Verdict,
             NEW p \in Pid, bun[p].at \in Up
      PROVE  bun[p].run # r
  <2>1. r \in posts
    BY <1>1, OnlyFinishesGiveVerdicts
  <2> QED
    BY <1>1, <2>1 DEF IInv, PostedIsOver
<1>2. IInv /\ [Next]_vars =>
        [\A r \in Run : life'[r] # life[r] /\ life'[r] \in Platform!Verdict =>
            \A p \in Pid : bun[p].at \in Up => bun[p].run # r]_vars
  BY <1>1
<1> QED
  BY <1>2, Invariance, PTL DEF Spec, NoLiveRunIsFinished

\* Where a command can end: without a file that it sees, or after its finish.
LEMMA EndingCommand ==
    ASSUME IInv, [Next]_vars, NEW c \in Cli, cli[c].at # "done", cli'[c].at = "done"
    PROVE  /\ \/ cli[c].at = "collect" /\ (handoff[cli[c].pid] = NoRun \/ cli'[c].misled)
              \/ cli[c].at = "unlink" /\ cli'[c].misled = cli[c].misled
           /\ cli[c].pid \in Pid /\ cli'[c].code = ExitCode(c)
<1> DEFINE Goal == /\ \/ /\ cli[c].at = "collect"
                         /\ handoff[cli[c].pid] = NoRun \/ cli'[c].misled
                      \/ cli[c].at = "unlink" /\ cli'[c].misled = cli[c].misled
                   /\ cli[c].pid \in Pid /\ cli'[c].code = ExitCode(c)
<1>0. cli \in [Cli -> CliRec] /\ CommandOK(c)
  BY DEF IInv, TypeOK
<1>1. ASSUME NEW d \in Cli, NEW p \in Pid, NEW b1 \in BOOLEAN, NEW b2 \in BOOLEAN,
             Spawn(d, p, b1, b2)
      PROVE  FALSE
  <2>1. cli'[c] = cli[c] \/ cli'[c].at = "child"
    BY <1>0, <1>1 DEF Spawn, CliRec
  <2> QED
    BY <2>1
<1>2. ASSUME cli' = cli PROVE FALSE
  BY <1>2
<1>3. ASSUME NEW d \in Cli, SeesExit(d) \/ Collect(d) \/ FinishAnswered(d)
      PROVE  FALSE
  <2>1. PICK at \in {"collect", "finish", "unlink"} : cli' = [cli EXCEPT ![d].at = at]
    BY <1>3 DEF SeesExit, Collect, FinishAnswered
  <2>2. cli'[c] = cli[c] \/ cli'[c].at = at
    BY <1>0, <2>1 DEF CliRec
  <2> QED
    BY <2>1, <2>2
<1>4. ASSUME NEW d \in Cli, TurnedAway(d) \/ \E b \in BOOLEAN : FinishFails(d, b)
      PROVE  FALSE
  <2>1. cli'[c] = cli[c] \/ cli'[c].at = "unlink"
    BY <1>0, <1>4 DEF TurnedAway, FinishFails, CliRec
  <2> QED
    BY <2>1
<1>5. ASSUME NEW d \in Cli, Killed(d)
      PROVE  FALSE
  <2>1. cli'[c] = cli[c] \/ cli'[c].at = "killed"
    BY <1>0, <1>5, NewCliIs DEF Killed
  <2> QED
    BY <2>1
<1>6. ASSUME NEW d \in Cli, NEW m \in BOOLEAN, Ends(d, m),
             \/ cli[d].at = "collect" /\ (Matching(d) = {} \/ m)
             \/ cli[d].at = "unlink" /\ m = cli[d].misled
      PROVE  Goal
  <2>1. CommandOK(d)
    BY DEF IInv
  <2>2. cli[d].pid \in Pid /\ bun[cli[d].pid] \in BunRec
    BY <1>6, <2>1 DEF CommandOK, Collecting, IInv, TypeOK
  <2>3. ExitCode(d) \in 0..1
    BY <2>2, BunFields DEF ExitCode
  <2>4. cli'[c] # cli[c] => c = d
    BY <1>0, <1>6 DEF Ends
  <2>5. c = d
    BY <2>4
  <2>6. cli'[d] = [NewCli EXCEPT !.at = "done", !.code = ExitCode(d), !.misled = m]
    BY <1>0, <1>6 DEF Ends
  <2>7. cli'[d].code = ExitCode(d) /\ cli'[d].misled = m
    BY <2>3, <2>6, DoneCliIs
  <2>8. cli[d].at = "collect" => handoff[cli[d].pid] = NoRun \/ m
    BY <1>6, <2>2 DEF Matching
  <2> QED
    BY <1>6, <2>2, <2>5, <2>7, <2>8
<1>7. ASSUME NEW d \in Cli, Command(d) PROVE Goal
  <2>1. CASE NothingToCollect(d) \/ CannotList(d)
    BY <1>6, <2>1 DEF NothingToCollect, CannotList
  <2>2. ASSUME NEW b \in BOOLEAN, Unlink(d, b) PROVE Goal
    <3>1. cli[d].misled \in BOOLEAN
      BY <1>0, CliFields
    <3> QED
      BY <1>6, <2>2, <3>1 DEF Unlink
  <2> QED
    BY <1>3, <1>4, <1>7, <2>1, <2>2 DEF Command
<1>8. ASSUME \/ \E p \in Pid : BareBunTest(p) \/ AnswerLost(p) \/ StartFails(p) \/ Reports(p)
             \/ \E p \in Pid, r \in Run : RunOpens(p, r) \/ RequestAdrift(p, r)
             \/ \E r \in Run : RunOpensLate(r)
             \/ \E p \in Pid, written \in BOOLEAN : RunKnown(p, written)
             \/ \E p \in Pid, code \in 0..1 : Exit(p, code)
             \/ \E r \in Run, v \in Platform!Verdict : FinishLands(r, v)
      PROVE  cli' = cli
  BY <1>8 DEF BareBunTest, AnswerLost, StartFails, Reports, RunOpens, RequestAdrift, RunOpensLate,
              RunKnown, Exit, FinishLands
<1>9. ASSUME Reaper \/ AllDone \/ UNCHANGED vars PROVE cli' = cli
  BY <1>9 DEF Reaper, AllDone, vars
<1> HIDE DEF Goal
<1>10. Goal
  BY <1>1, <1>2, <1>5, <1>7, <1>8, <1>9 DEF Next
<1> QED
  BY <1>10 DEF Goal

\* With --fail-on-report-error a command that ends green leaves no open run behind
\* that its child wrote a handoff for, unless it was misled: by a directory of
\* handoffs that it could not list, or by a finish turned away with a redirect.
THEOREM GreenMeansClosed ==
    Spec => GreenStrictRunIsClosed
<1>1. ASSUME IInv, [Next]_vars, NEW c \in Cli, cli[c].at # "done", cli'[c].at = "done",
             cli[c].strict, cli'[c].code = 0, ~cli'[c].misled,
             bun[cli[c].pid].run # NoRun, handoff[cli[c].pid] = bun[cli[c].pid].run
      PROVE  life[bun[cli[c].pid].run] # "open"
  <2>1. /\ \/ cli[c].at = "collect" /\ (handoff[cli[c].pid] = NoRun \/ cli'[c].misled)
           \/ cli[c].at = "unlink" /\ cli'[c].misled = cli[c].misled
        /\ ExitCode(c) = 0
    BY <1>1, EndingCommand
  <2>2. cli[c].at = "unlink" /\ ~cli[c].misled
    BY <1>1, <2>1
  <2>3. ~cli[c].failed
    BY <1>1, <2>1 DEF ExitCode
  <2>4. FinishOK(c)
    BY <1>1 DEF IInv
  <2> QED
    BY <1>1, <2>2, <2>3, <2>4 DEF FinishOK
<1>2. IInv /\ [Next]_vars =>
        [\A c \in Cli :
            LET p == cli[c].pid IN
            /\ cli[c].at # "done" /\ cli'[c].at = "done"
            /\ cli[c].strict /\ cli'[c].code = 0 /\ ~cli'[c].misled
            /\ bun[p].run # NoRun /\ handoff[p] = bun[p].run
            => life[bun[p].run] # "open"]_vars
  BY <1>1
<1> QED
  BY <1>2, Invariance, PTL DEF Spec, GreenStrictRunIsClosed

-----------------------------------------------------------------------------
(***************************************************************************)
(* opice-browser: one named session, for any number of terminals and       *)
(* servers.                                                                *)
(***************************************************************************)
About(s) == srv[s].at \in {"serving"} \cup Booting

\* Of servers that are about at one time, each knows of the other; one Chrome runs on
\* the profile.
BrowserInv ==
    /\ BSTypeOK
    /\ \A s, t \in Server : About(s) /\ About(t) /\ s # t => s \in overlapped
    /\ \A s, t \in Server : Alive(s) /\ Alive(t) => s = t
    /\ ReachableUnlessOverlapped

LEMMA ServersAre == Server \subseteq Nat /\ None \notin Server
BY DEF Server, None

LEMMA FieldsSet ==
    /\ \A r \in CmdRec : \A x : [r EXCEPT !.conn = x] = [at |-> r.at, conn |-> x]
    /\ \A r \in SrvRec : \A x : [r EXCEPT !.at = x] = [at |-> x, ending |-> r.ending]
    /\ \A r \in SrvRec : /\ [r EXCEPT !.ending = TRUE] \in SrvRec
                         /\ [r EXCEPT !.ending = TRUE].at = r.at
                         /\ [r EXCEPT !.ending = TRUE].ending
<1>1. \A r \in CmdRec : \A x : [r EXCEPT !.conn = x] = [at |-> r.at, conn |-> x]
  BY DEF CmdRec
<1>2. \A r \in SrvRec : \A x : [r EXCEPT !.at = x] = [at |-> x, ending |-> r.ending]
  BY DEF SrvRec
<1>3. ASSUME NEW r \in SrvRec
      PROVE  /\ [r EXCEPT !.ending = TRUE] \in SrvRec
             /\ [r EXCEPT !.ending = TRUE].at = r.at
             /\ [r EXCEPT !.ending = TRUE].ending
  <2>1. [r EXCEPT !.ending = TRUE] \in SrvRec
    BY DEF SrvRec
  <2>2. [r EXCEPT !.ending = TRUE].at = r.at
    BY DEF SrvRec
  <2>3. [r EXCEPT !.ending = TRUE].ending
    BY DEF SrvRec
  <2> QED
    BY <2>1, <2>2, <2>3
<1> QED
  BY <1>1, <1>2, <1>3

\* A command that is over has no connection.
LEMMA EndedTyped ==
    ASSUME BSTypeOK, NEW c \in Client, cmd' = [cmd EXCEPT ![c] = [at |-> "idle", conn |-> None]],
           \A s \in Server : srv'[s].at = srv[s].at
    PROVE  /\ cmd' \in [Client -> CmdRec]
           /\ \A d \in Client : cmd'[d].conn # None =>
                  cmd'[d].at \in Asking /\ srv'[cmd'[d].conn].at \notin {"none"} \cup Booting
<1>1. [at |-> "idle", conn |-> None] \in CmdRec
  BY DEF CmdRec
<1>2. cmd' \in [Client -> CmdRec]
  BY <1>1 DEF BSTypeOK
<1>3. ASSUME NEW d \in Client, cmd'[d].conn # None
      PROVE  cmd'[d].at \in Asking /\ srv'[cmd'[d].conn].at \notin {"none"} \cup Booting
  <2>1. d # c /\ cmd'[d] = cmd[d]
    BY <1>3 DEF BSTypeOK
  <2>2. cmd[d].conn \in Server
    BY <1>3, <2>1 DEF BSTypeOK, CmdRec
  <2> QED
    BY <1>3, <2>1, <2>2 DEF BSTypeOK
<1> QED
  BY <1>2, <1>3

LEMMA InitBrowserInv == BSInit => BrowserInv
<1> SUFFICES ASSUME BSInit PROVE BrowserInv
  OBVIOUS
<1>1. BSTypeOK
  BY ServersAre DEF BSInit, BSTypeOK, SrvRec, CmdRec, Idle, Booting
<1> QED
  BY <1>1 DEF BSInit, BrowserInv, About, Booting, Alive, ReachableUnlessOverlapped

LEMMA NextBrowserInv == BrowserInv /\ [BSNext]_bsVars => BrowserInv'
<1> SUFFICES ASSUME BrowserInv, [BSNext]_bsVars PROVE BrowserInv'
  OBVIOUS
<1> USE ServersAre
<1>1. /\ BSTypeOK /\ ReachableUnlessOverlapped
      /\ \A s, t \in Server : About(s) /\ About(t) /\ s # t => s \in overlapped
      /\ \A s, t \in Server : Alive(s) /\ Alive(t) => s = t
  BY DEF BrowserInv
\* A command that changes nothing but itself.
<1>2. ASSUME NEW c \in Client, NEW r \in CmdRec, cmd' = [cmd EXCEPT ![c] = r],
             r.conn # None => r.at \in Asking /\ srv'[r.conn].at \notin {"none"} \cup Booting,
             UNCHANGED <<srv, chrome, sock, file, overlapped>>, page' \in Server \cup {None}
      PROVE  BrowserInv'
  <2>1. BSTypeOK'
    BY <1>1, <1>2 DEF BSTypeOK
  <2> QED
    BY <1>1, <1>2, <2>1 DEF BrowserInv, About, Alive, ReachableUnlessOverlapped
<1>3. ASSUME NEW at \in {"idle", "clean", "kill"} \cup Asking
      PROVE  [at |-> at, conn |-> None] \in CmdRec
  BY DEF CmdRec
<1>4. ASSUME NEW c \in Client, NEW at \in {"ping", "verb", "quit"}, Start(c, at)
      PROVE  BrowserInv'
  <2>1. [at |-> at, conn |-> None] \in CmdRec
    BY <1>3 DEF Asking
  <2> QED
    BY <1>1, <1>2, <1>4, <2>1 DEF Start, Become, BSTypeOK
<1>5. ASSUME NEW c \in Client, Connect(c)
      PROVE  BrowserInv'
  <2>1. /\ cmd[c] \in CmdRec /\ sock \in Server /\ cmd[c].at \in Asking
        /\ srv[sock].at = "serving" /\ cmd' = [cmd EXCEPT ![c] = [cmd[c] EXCEPT !.conn = sock]]
    BY <1>1, <1>5 DEF Connect, Serves, BSTypeOK
  <2>2. cmd' = [cmd EXCEPT ![c] = [at |-> cmd[c].at, conn |-> sock]]
    BY <2>1, FieldsSet
  <2>3. [at |-> cmd[c].at, conn |-> sock] \in CmdRec
    BY <2>1 DEF CmdRec
  <2> QED
    BY <1>1, <1>2, <1>5, <2>1, <2>2, <2>3 DEF Connect, BSTypeOK, Booting
<1>6. ASSUME NEW c \in Client, RequestFails(c) \/ Pong(c) \/ Abandon(c)
      PROVE  BrowserInv'
  <2>1. \E at \in {"idle", "clean", "kill", "poll"} : Become(c, at)
    BY <1>1, <1>6 DEF RequestFails, Pong, Abandon, Unanswered, Asking
  <2>2. PICK at \in {"idle", "clean", "kill", "poll"} : Become(c, at)
    BY <2>1
  <2>3. [at |-> at, conn |-> None] \in CmdRec
    BY <1>3 DEF Asking
  <2>4. UNCHANGED <<srv, chrome, sock, file, page, overlapped>>
    BY <1>6 DEF RequestFails, Pong, Abandon
  <2> QED
    BY <1>1, <1>2, <2>2, <2>3, <2>4 DEF Become, BSTypeOK
<1>7. ASSUME NEW c \in Client, VerbAnswered(c)
      PROVE  BrowserInv'
  <2>1. [at |-> "idle", conn |-> None] \in CmdRec
    BY <1>3
  <2>2. page' \in Server \cup {None}
    BY <1>1, <1>7 DEF VerbAnswered, BSTypeOK, CmdRec
  <2> QED
    BY <1>1, <1>2, <1>7, <2>1, <2>2 DEF VerbAnswered, Become
<1>8. ASSUME NEW c \in Client, QuitAcked(c)
      PROVE  BrowserInv'
  <2> DEFINE s == cmd[c].conn
  <2>1. s \in Server \cup {None}
    BY <1>1 DEF BSTypeOK, CmdRec
  <2>2. /\ Serves(s) /\ srv' = [srv EXCEPT ![s].ending = TRUE] /\ Become(c, "idle")
        /\ UNCHANGED <<chrome, sock, file, page, overlapped>>
    BY <1>8 DEF QuitAcked
  <2> HIDE DEF s
  <2>3. /\ s \in Server /\ srv[s] \in SrvRec
        /\ srv' = [srv EXCEPT ![s] = [srv[s] EXCEPT !.ending = TRUE]]
        /\ cmd' = [cmd EXCEPT ![c] = [at |-> "idle", conn |-> None]]
    BY <1>1, <2>1, <2>2 DEF Serves, BSTypeOK, Become
  <2>4. /\ \A t \in Server : srv'[t].at = srv[t].at /\ (srv[t].ending => srv'[t].ending)
        /\ srv' \in [Server -> SrvRec]
    BY <1>1, <2>3, FieldsSet DEF BSTypeOK
  <2>5. BSTypeOK'
    BY <1>1, <1>3, <2>2, <2>3, <2>4, EndedTyped DEF BSTypeOK
  <2> QED
    BY <1>1, <2>2, <2>4, <2>5 DEF BrowserInv, About, Alive, ReachableUnlessOverlapped
<1>9. ASSUME NEW c \in Client, Kill(c)
      PROVE  BrowserInv'
  <2>1. /\ cmd' = [cmd EXCEPT ![c] = [at |-> "idle", conn |-> None]]
        /\ sock' = None /\ file' = None /\ UNCHANGED <<page, overlapped>>
        /\ srv' \in [Server -> SrvRec]
        /\ chrome' \in [Server -> {"none", "alive", "gone", "unseen"}]
    BY <1>1, <1>9 DEF Kill, BSTypeOK, SrvRec, Become
  <2>2. \A t \in Server : /\ srv'[t].at = srv[t].at /\ (srv[t].ending => srv'[t].ending)
                          /\ Alive(t)' => Alive(t)
                          /\ t = file /\ srv[t].at = "serving" => srv'[t].ending
    <3> SUFFICES ASSUME NEW t \in Server
                 PROVE  /\ srv'[t].at = srv[t].at /\ (srv[t].ending => srv'[t].ending)
                        /\ Alive(t)' => Alive(t)
                        /\ t = file /\ srv[t].at = "serving" => srv'[t].ending
      OBVIOUS
    <3>1. /\ srv[t] \in SrvRec
          /\ srv'[t] = IF t = file /\ Serves(t) THEN [srv[t] EXCEPT !.ending = TRUE] ELSE srv[t]
          /\ chrome'[t] = IF t = file /\ Alive(t) THEN "gone" ELSE chrome[t]
      BY <1>1, <1>9 DEF Kill, BSTypeOK
    <3>2. /\ [srv[t] EXCEPT !.ending = TRUE].at = srv[t].at
          /\ [srv[t] EXCEPT !.ending = TRUE].ending
      BY <3>1 DEF SrvRec
    <3>3. srv'[t].at = srv[t].at /\ (srv[t].ending => srv'[t].ending)
      BY <3>1, <3>2
    <3>4. Alive(t)' => Alive(t)
      BY <3>1 DEF Alive
    <3>5. t = file /\ srv[t].at = "serving" => srv'[t].ending
      BY <3>1, <3>2 DEF Serves
    <3> QED
      BY <3>3, <3>4, <3>5
  <2>3. BSTypeOK'
    <3>1. \A t \in Server : srv'[t].at = srv[t].at
      BY <2>2
    <3>2. /\ cmd' \in [Client -> CmdRec]
          /\ \A d \in Client : cmd'[d].conn # None =>
                 cmd'[d].at \in Asking /\ srv'[cmd'[d].conn].at \notin {"none"} \cup Booting
      BY <1>1, <2>1, <3>1, EndedTyped
    <3>3. {sock', file', page'} \subseteq Server \cup {None} /\ overlapped' \subseteq Server
      BY <1>1, <2>1 DEF BSTypeOK
    <3> QED
      BY <2>1, <3>2, <3>3 DEF BSTypeOK
  <2>4. ReachableUnlessOverlapped'
    BY <1>1, <2>1, <2>2 DEF ReachableUnlessOverlapped
  <2> QED
    BY <1>1, <2>1, <2>2, <2>3, <2>4 DEF BrowserInv, About
<1>10. ASSUME NEW c \in Client, NEW s \in Server, Clean(c, s)
       PROVE  BrowserInv'
  <2> DEFINE about == {t \in Server : About(t)}
  <2>1. /\ srv' = [srv EXCEPT ![s] = [at |-> "boot", ending |-> srv[s].ending]]
        /\ srv[s].at = "none" /\ sock' = None /\ file' = None /\ UNCHANGED <<chrome, page>>
        /\ cmd' = [cmd EXCEPT ![c] = [at |-> "poll", conn |-> None]]
        /\ overlapped' = IF about = {} THEN overlapped ELSE overlapped \cup about \cup {s}
    <3>1. srv[s] \in SrvRec /\ srv' = [srv EXCEPT ![s] = [srv[s] EXCEPT !.at = "boot"]]
      BY <1>1, <1>10 DEF Clean, BSTypeOK
    <3> QED
      BY <1>10, <3>1, FieldsSet DEF Clean, Become, About
  <2>2. /\ \A t \in Server \ {s} : srv'[t] = srv[t]
        /\ srv'[s].at = "boot"
    BY <1>1, <2>1 DEF BSTypeOK
  <2>3. [at |-> "poll", conn |-> None] \in CmdRec
    BY <1>3 DEF Asking
  <2>4. BSTypeOK'
    <3>1. srv' \in [Server -> SrvRec]
      BY <1>1, <2>1 DEF BSTypeOK, SrvRec, Booting
    <3>2. overlapped' \subseteq Server /\ cmd' \in [Client -> CmdRec]
      BY <1>1, <2>1, <2>3 DEF BSTypeOK
    <3>3. ASSUME NEW d \in Client, cmd'[d].conn # None
          PROVE  cmd'[d].at \in Asking /\ srv'[cmd'[d].conn].at \notin {"none"} \cup Booting
      <4>1. d # c /\ cmd'[d] = cmd[d]
        BY <1>1, <2>1, <3>3 DEF BSTypeOK
      <4>2. cmd[d].conn \in Server \ {s}
        BY <1>1, <2>1, <3>3, <4>1 DEF BSTypeOK, CmdRec
      <4> QED
        BY <1>1, <2>2, <3>3, <4>1, <4>2 DEF BSTypeOK
    <3> QED
      BY <1>1, <2>1, <3>1, <3>2, <3>3 DEF BSTypeOK
  <2>5. \A t, u \in Server : About(t)' /\ About(u)' /\ t # u => t \in overlapped'
    BY <1>1, <2>1, <2>2 DEF About
  <2>6. ReachableUnlessOverlapped'
    BY <2>1, <2>2 DEF ReachableUnlessOverlapped, About
  <2> QED
    BY <1>1, <2>1, <2>4, <2>5, <2>6 DEF BrowserInv, Alive
\* A server, or its Chrome, goes on: no server is about that was not.
<1>11. ASSUME NEW s \in Server, NEW at \in {"serving"} \cup Booting \cup Dead,
              Goes(s, at), About(s), srv[s].at = "serving" => at \in Dead,
             UNCHANGED <<cmd, page, overlapped>>,
              at \in Booting => srv[s].at \in Booting,
              chrome' \in [Server -> {"none", "alive", "gone", "unseen"}],
              \A t \in Server \ {s} : Alive(t)' => Alive(t),
              Alive(s)' => \A t \in Server \ {s} : ~Alive(t),
              \/ UNCHANGED <<sock, file>>
              \/ sock' = s /\ file' = s /\ at = "serving"
              \/ sock' = None /\ file' = None /\ at \in Dead,
              at = "serving" => sock' = s /\ file' = s
       PROVE  BrowserInv'
  <2>1. /\ srv' = [srv EXCEPT ![s] = [at |-> at, ending |-> srv[s].ending]]
        /\ \A t \in Server \ {s} : srv'[t] = srv[t]
        /\ srv'[s].at = at
    <3>1. srv[s] \in SrvRec /\ srv' = [srv EXCEPT ![s] = [srv[s] EXCEPT !.at = at]]
      BY <1>1, <1>11 DEF Goes, BSTypeOK
    <3>2. srv' = [srv EXCEPT ![s] = [at |-> at, ending |-> srv[s].ending]]
      BY <3>1, FieldsSet
    <3> QED
      BY <1>1, <3>2 DEF BSTypeOK
  <2>2. BSTypeOK'
    <3>1. srv' \in [Server -> SrvRec]
      BY <1>1, <1>11, <2>1 DEF BSTypeOK, SrvRec
    <3>2. \A c \in Client : cmd[c].conn # None => srv'[cmd[c].conn].at \notin {"none"} \cup Booting
      BY <1>1, <1>11, <2>1 DEF BSTypeOK, CmdRec, Booting, Dead
    <3> QED
      BY <1>1, <1>11, <3>1, <3>2 DEF BSTypeOK
  <2>3. \A t \in Server : About(t)' => About(t)
    BY <1>11, <2>1 DEF About
  <2>4. ASSUME NEW t \in Server, srv'[t].at = "serving", Alive(t)', ~srv'[t].ending,
               t \notin overlapped'
        PROVE  sock' = t /\ file' = t
    <3>1. CASE t = s
      BY <1>11, <2>1, <2>4, <3>1
    <3>2. CASE t # s
      <4>1. About(t) /\ Alive(t) /\ ~srv[t].ending /\ srv[t].at = "serving"
        BY <1>11, <2>1, <2>4, <3>2 DEF About
      <4>2. t \in overlapped
        BY <1>1, <1>11, <3>2, <4>1
      <4> QED
        BY <1>11, <2>4, <4>2
    <3> QED
      BY <3>1, <3>2
  <2>5. \A t, u \in Server : Alive(t)' /\ Alive(u)' => t = u
    BY <1>1, <1>11
  <2> QED
    BY <1>1, <1>11, <2>2, <2>3, <2>4, <2>5 DEF BrowserInv, ReachableUnlessOverlapped
<1>12. ASSUME NEW s \in Server, SpawnChrome(s)
       PROVE  BrowserInv'
  <2>1. /\ chrome' \in [Server -> {"none", "alive", "gone", "unseen"}]
        /\ \A t \in Server \ {s} : Alive(t)' => Alive(t)
        /\ Alive(s)' => \A t \in Server \ {s} : ~Alive(t)
    BY <1>1, <1>12 DEF SpawnChrome, ProfileFree, BSTypeOK, Alive
  <2> QED
    BY <1>11, <1>12, <2>1 DEF SpawnChrome, About, Booting, Dead
<1>13. ASSUME NEW s \in Server, Connected(s) \/ BootFails(s) \/ Crash(s)
       PROVE  BrowserInv'
  <2>1. UNCHANGED <<chrome, sock, file, cmd, page, overlapped>> /\ About(s)
    BY <1>13 DEF Connected, BootFails, Crash, About, Booting
  <2>2. \/ Goes(s, "held") /\ srv[s].at = "wait"
        \/ Goes(s, "failed")
        \/ Goes(s, "crashed")
    BY <1>13 DEF Connected, BootFails, Crash
  <2>3. /\ chrome' \in [Server -> {"none", "alive", "gone", "unseen"}]
        /\ \A t \in Server : Alive(t)' => Alive(t)
        /\ Alive(s)' => \A t \in Server \ {s} : ~Alive(t)
    BY <1>1, <2>1 DEF BSTypeOK, Alive
  <2> QED
    BY <1>11, <2>1, <2>2, <2>3 DEF Booting, Dead
<1>14. ASSUME NEW s \in Server, Listen(s)
       PROVE  BrowserInv'
  <2>1. /\ chrome' \in [Server -> {"none", "alive", "gone", "unseen"}]
        /\ \A t \in Server : Alive(t)' => Alive(t)
        /\ Alive(s)' => \A t \in Server \ {s} : ~Alive(t)
    BY <1>1, <1>14 DEF Listen, BSTypeOK, Alive
  <2> QED
    BY <1>11, <1>14, <2>1 DEF Listen, About, Booting, Dead
<1>15. ASSUME NEW s \in Server, Shutdown(s)
       PROVE  BrowserInv'
  <2>1. /\ chrome' \in [Server -> {"none", "alive", "gone", "unseen"}]
        /\ \A t \in Server : Alive(t)' => Alive(t)
        /\ Alive(s)' => \A t \in Server \ {s} : ~Alive(t)
    BY <1>1, <1>15 DEF Shutdown, BSTypeOK, Alive
  <2> QED
    BY <1>11, <1>15, <2>1 DEF Shutdown, About, Booting, Dead
<1>16. ASSUME NEW s \in Server, ChromeDies(s)
       PROVE  BrowserInv'
  <2>1. /\ UNCHANGED <<srv, sock, file, cmd, page, overlapped>>
        /\ chrome' \in [Server -> {"none", "alive", "gone", "unseen"}]
        /\ \A t \in Server : Alive(t)' => Alive(t)
    BY <1>1, <1>16 DEF ChromeDies, BSTypeOK, Alive
  <2>2. BSTypeOK'
    BY <1>1, <2>1 DEF BSTypeOK
  <2> QED
    BY <1>1, <2>1, <2>2 DEF BrowserInv, About, ReachableUnlessOverlapped
<1>17. CASE UNCHANGED bsVars
  BY <1>1, <1>17 DEF bsVars, BrowserInv, BSTypeOK, About, Alive, ReachableUnlessOverlapped
<1> QED
  BY <1>4, <1>5, <1>6, <1>7, <1>8, <1>9, <1>10, <1>12, <1>13, <1>14, <1>15, <1>16, <1>17
     DEF BSNext, CommandStep, ServerStep, Quiet

\* Commands, servers and Chromes keep to their types, and a command is only ever
\* connected to a server that came as far as to listen.
THEOREM BrowserTypeCorrect == BSSpec => []BSTypeOK
<1>1. BrowserInv => BSTypeOK
  BY DEF BrowserInv
<1> QED
  BY <1>1, InitBrowserInv, NextBrowserInv, PTL DEF BSSpec

\* A server with its browser is reached at the socket, and named by the session file,
\* until it ends or another is launched while it is about, for any terminals.
THEOREM ServersStayReachable == BSSpec => []ReachableUnlessOverlapped
<1>1. BrowserInv => ReachableUnlessOverlapped
  BY DEF BrowserInv
<1> QED
  BY <1>1, InitBrowserInv, NextBrowserInv, PTL DEF BSSpec

\* A verb acts on another server's page only when the browser of the one before is
\* gone, however launches overlap.
THEOREM PagesAreKept == BSSpec => PageIsKept
<1>1. BrowserInv /\ [BSNext]_bsVars => [page' # page /\ page # None => ~Alive(page)]_bsVars
  <2> SUFFICES ASSUME BrowserInv, [BSNext]_bsVars, page' # page, page # None
               PROVE  ~Alive(page)
    OBVIOUS
  <2>1. PICK c \in Client : VerbAnswered(c)
    BY DEF BSNext, CommandStep, ServerStep, Quiet, bsVars, Start, Connect, RequestFails, Pong, Abandon,
           QuitAcked, Kill, Clean, SpawnChrome, Connected, BootFails, Listen, Shutdown, Crash, ChromeDies
  <2>2. page' = cmd[c].conn /\ Alive(page') /\ page' \in Server /\ page \in Server
    BY <2>1 DEF VerbAnswered, BrowserInv, BSTypeOK, Serves, CmdRec
  <2> QED
    BY <2>2 DEF BrowserInv
<1> QED
  BY <1>1, InitBrowserInv, NextBrowserInv, PTL DEF BSSpec, PageIsKept

------------------------------------------------------------------------------
(***************************************************************************)
(* What the CLI has resolved so far agrees with the environment its child  *)
(* will look at, and the child's harness with what it was told.            *)
(***************************************************************************)
Fields == got = [tier |-> got.tier, strict |-> got.strict, select |-> got.select,
                 report |-> got.report, video |-> got.video, dir |-> got.dir,
                 retries |-> got.retries]

StrictOK == IsTruthy(input.env["REPORT_STRICT"]) => got.strict
ReportOK == Falsy(got.report) => Falsy(input.env["REPORT_FILE"])

ChildOK ==
    /\ child["REPORT_STRICT"] = IF got.strict THEN "1" ELSE input.env["REPORT_STRICT"]
    /\ child["REPORT_FILE"] = OrElse(got.report, input.env["REPORT_FILE"])
    /\ \A c \in Cred : child[c] = OrElse(CliCred(input.env, input.conf, input.dsn, c), input.env[c])

ToldOK ==
    /\ phase \in Phase /\ got.strict \in BOOLEAN /\ Fields
    /\ phase \notin {"tier", "strict"} => StrictOK
    /\ phase \notin {"tier", "strict", "select", "report"} => ReportOK
    /\ phase \in {"retries", "configure", "register"} => ChildOK
    /\ CliAndChildAgree

\* Whom the gate has let through, and where the user's modules were found.
GateOK ==
    /\ input \in Input /\ DOMAIN verdict = DOMAIN Scenario
    /\ phase # "register" => \A s \in DOMAIN Scenario : verdict[s] = "none"
    /\ ChangedFilesRun

FoundOK ==
    harness.setup \in {NoFile, FindUserFile(input.cwd, input.marked, input.explicit,
                                            input.holders)}

LaunchInv == ToldOK /\ GateOK /\ FoundOK

-----------------------------------------------------------------------------
(***************************************************************************)
(* Paths.                                                                  *)
(***************************************************************************)
\* The path p without its first n segments.
From(p, n) == SubSeq(p, n + 1, Len(p))

LEMMA FromProperties ==
    ASSUME NEW p \in Seq(STRING), NEW n \in 0..(Len(p) - 1)
    PROVE  /\ From(p, n) \in Seq(STRING) /\ Len(From(p, n)) = Len(p) - n
           /\ \A i \in 1..(Len(p) - n) : n + i \in DOMAIN p /\ From(p, n)[i] = p[n + i]
<1>1. Len(p) \in Nat /\ n + 1 \in Int /\ n + 1 <= Len(p) /\ DOMAIN p = 1..Len(p)
  OBVIOUS
<1>2. \A i \in (n + 1)..Len(p) : p[i] \in STRING
  BY <1>1
<1>3. /\ From(p, n) \in Seq(STRING)
      /\ Len(From(p, n)) = Len(p) - (n + 1) + 1
      /\ \A i \in 1..(Len(p) - (n + 1) + 1) : From(p, n)[i] = p[(n + 1) + i - 1]
  BY <1>1, <1>2, SubSeqProperties DEF From
<1>4. Len(p) - (n + 1) + 1 = Len(p) - n
  BY <1>1
<1>5. \A i \in 1..(Len(p) - n) : n + i \in DOMAIN p /\ (n + 1) + i - 1 = n + i
  BY <1>1
<1> QED
  BY <1>3, <1>4, <1>5

\* Of two ends of one path, the shorter is an end of the other.
LEMMA EndsOfOnePath ==
    ASSUME NEW p \in Seq(STRING), NEW m \in 0..(Len(p) - 1), NEW n \in 0..(Len(p) - 1), m < n
    PROVE  EndsWith(From(p, m), From(p, n))
<1> DEFINE a == From(p, m)
           b == From(p, n)
           k == Len(a) - Len(b) + 1
<1>1. /\ a \in Seq(STRING) /\ Len(a) = Len(p) - m
      /\ \A i \in 1..(Len(p) - m) : a[i] = p[m + i]
  BY FromProperties
<1>2. /\ b \in Seq(STRING) /\ Len(b) = Len(p) - n
      /\ \A i \in 1..(Len(p) - n) : b[i] = p[n + i]
  BY FromProperties
<1>3. Len(p) \in Nat /\ Len(b) < Len(a) /\ k = n - m + 1 /\ k \in 1..Len(a)
  BY <1>1, <1>2
<1> HIDE DEF a, b, k
<1>4. /\ SubSeq(a, k, Len(a)) \in Seq(STRING)
      /\ Len(SubSeq(a, k, Len(a))) = Len(a) - k + 1
      /\ \A i \in 1..(Len(a) - k + 1) : SubSeq(a, k, Len(a))[i] = a[k + i - 1]
  <2>1. k \in Int /\ Len(a) \in Int /\ k <= Len(a) /\ \A i \in k..Len(a) : a[i] \in STRING
    BY <1>1, <1>3
  <2> QED
    BY <2>1, SubSeqProperties
<1>5. Len(a) - k + 1 = Len(b) /\ Len(b) = Len(p) - n
  BY <1>1, <1>2, <1>3
<1>6. ASSUME NEW i \in 1..Len(b) PROVE SubSeq(a, k, Len(a))[i] = b[i]
  <2>1. /\ i \in 1..(Len(a) - k + 1) /\ i \in 1..(Len(p) - n)
        /\ k + i - 1 \in 1..(Len(p) - m) /\ m + (k + i - 1) = n + i
    BY <1>3, <1>5
  <2> QED
    BY <1>1, <1>2, <1>4, <2>1
<1>7. SubSeq(a, k, Len(a)) = b
  BY <1>2, <1>4, <1>5, <1>6, SeqEqual
<1> QED
  BY <1>3, <1>7 DEF EndsWith, a, b, k

LEMMA LenPositive ==
    ASSUME NEW p \in Seq(STRING), p # <<>>
    PROVE  Len(p) \in Nat /\ Len(p) >= 1 /\ DOMAIN p = 1..Len(p)
OBVIOUS

\* A path that starts with no "." and ends without a slash is normal.
LEMMA NormalIsKept ==
    ASSUME NEW p \in Seq(STRING), p # <<>>, p[1] # ".", p[Len(p)] # Blank
    PROVE  NormalPath(p) = p
<1>1. Len(p) \in Nat /\ Len(p) >= 1
  BY LenPositive
<1> DEFINE Plain(k) == k = Len(p) \/ p[k] # "."
           Full(k)  == k = 1 \/ p[k] # Blank
           First(k) == Plain(k) /\ \A j \in 1..(k - 1) : ~Plain(j)
           Final(k) == Full(k) /\ \A j \in (k + 1)..Len(p) : ~Full(j)
           from == CHOOSE k \in 1..Len(p) : First(k)
           to   == CHOOSE k \in 1..Len(p) : Final(k)
<1>2. NormalPath(p) = SubSeq(p, from, to)
  BY DEF NormalPath
<1>3. Plain(1) /\ Full(Len(p))
  OBVIOUS
<1> HIDE DEF Plain, Full
<1>4. 1 \in 1..Len(p) /\ First(1)
  BY <1>1, <1>3
<1>5. Len(p) \in 1..Len(p) /\ Final(Len(p))
  BY <1>1, <1>3
<1>6. ASSUME NEW k \in 1..Len(p), First(k) PROVE k = 1
  <2>1. k # 1 => 1 \in 1..(k - 1)
    BY <1>1
  <2> QED
    BY <1>3, <1>6, <2>1
<1>7. ASSUME NEW k \in 1..Len(p), Final(k) PROVE k = Len(p)
  <2>1. k # Len(p) => Len(p) \in (k + 1)..Len(p)
    BY <1>1
  <2> QED
    BY <1>3, <1>7, <2>1
<1> HIDE DEF First, Final
<1>8. from = 1
  BY <1>4, <1>6
<1>9. to = Len(p)
  BY <1>5, <1>7
<1> HIDE DEF from, to
<1> QED
  BY <1>2, <1>8, <1>9, SubSeqFull

\* The ends of a path without a "." and without a trailing slash: any two select one
\* another.
LEMMA EndsSelect ==
    ASSUME NEW p \in Seq(STRING), p # <<>>, \A k \in DOMAIN p : p[k] # ".", p[Len(p)] # Blank,
           NEW n \in 0..(Len(p) - 1), NEW m \in 0..(Len(p) - 1)
    PROVE  /\ From(p, n) # NoFile /\ NormalPath(From(p, n)) = From(p, n)
           /\ \/ From(p, m) = From(p, n)
              \/ EndsWith(From(p, n), From(p, m)) \/ EndsWith(From(p, m), From(p, n))
<1>1. Len(p) \in Nat /\ Len(p) >= 1 /\ DOMAIN p = 1..Len(p)
  BY LenPositive
<1>2. /\ From(p, n) \in Seq(STRING) /\ Len(From(p, n)) = Len(p) - n
      /\ \A i \in 1..(Len(p) - n) : n + i \in DOMAIN p /\ From(p, n)[i] = p[n + i]
  BY FromProperties
<1>3. /\ Len(p) - n >= 1 /\ 1 \in 1..(Len(p) - n) /\ Len(p) - n \in 1..(Len(p) - n)
      /\ n + (Len(p) - n) = Len(p)
  BY <1>1
<1>4. From(p, n)[1] # "." /\ From(p, n)[Len(From(p, n))] # Blank /\ From(p, n) # <<>>
  <2>1. From(p, n)[1] = p[n + 1] /\ n + 1 \in DOMAIN p
    BY <1>2, <1>3
  <2>2. From(p, n)[Len(p) - n] = p[n + (Len(p) - n)]
    BY <1>2, <1>3
  <2>3. From(p, n)[Len(From(p, n))] = p[Len(p)]
    BY <1>2, <1>3, <2>2
  <2>4. Len(From(p, n)) # 0
    BY <1>2, <1>3
  <2> QED
    BY <2>1, <2>3, <2>4
<1>5. NormalPath(From(p, n)) = From(p, n)
  BY <1>2, <1>4, NormalIsKept
<1>6. m = n \/ m < n \/ n < m
  BY <1>1
<1> QED
  BY <1>4, <1>5, <1>6, EndsOfOnePath DEF NoFile

\* The path relative to a directory, as the gate takes it and as a list of changed files
\* gives it.
LEMMA Related ==
    ASSUME NEW s \in DOMAIN Scenario, NEW dir \in Seq(STRING)
    PROVE  \E n \in 0..(Len(FileOf[s]) - 1) : Relative(FileOf[s], dir) = From(FileOf[s], n)
<1>1. FileOf[s] \in Seq(STRING) /\ FileOf[s] # <<>>
  BY LaunchAssumption DEF NoFile
<1>2. FileOf[s] = From(FileOf[s], 0)
  BY <1>1, SubSeqFull DEF From
<1>3. CASE Relative(FileOf[s], dir) = FileOf[s]
  BY <1>1, <1>2, <1>3
<1>4. CASE Relative(FileOf[s], dir) # FileOf[s]
  <2>1. Len(dir) < Len(FileOf[s]) /\ Relative(FileOf[s], dir) = From(FileOf[s], Len(dir))
    BY <1>4 DEF Relative, From
  <2> QED
    BY <1>1, <2>1
<1> QED
  BY <1>3, <1>4

LEMMA ChangedFileIsSelected ==
    ASSUME NEW s \in DOMAIN Scenario, NEW cwd \in Seq(STRING), NEW entries, NEW e \in entries,
           \A k \in DOMAIN FileOf[s] : FileOf[s][k] \notin Odd,
           NormalPath(e) \in {FileOf[s], Relative(FileOf[s], Root)}
    PROVE  IsScenarioSelected(CaptureTestFile(FileOf[s], cwd), entries)
<1>1. /\ FileOf[s] \in Seq(STRING) /\ FileOf[s] # <<>>
      /\ \A k \in DOMAIN FileOf[s] : FileOf[s][k] # "."
      /\ FileOf[s][Len(FileOf[s])] # Blank
  BY LaunchAssumption DEF NoFile
<1>2. PICK n \in 0..(Len(FileOf[s]) - 1) :
          CaptureTestFile(FileOf[s], cwd) = From(FileOf[s], n)
  <2>1. CaptureTestFile(FileOf[s], cwd) = Relative(FileOf[s], cwd)
    BY DEF CaptureTestFile
  <2> QED
    BY <2>1, Related
<1>3. PICK m \in 0..(Len(FileOf[s]) - 1) : NormalPath(e) = From(FileOf[s], m)
  <2>1. FileOf[s] = From(FileOf[s], 0) /\ 0 \in 0..(Len(FileOf[s]) - 1)
    BY <1>1, LenPositive, SubSeqFull DEF From
  <2>2. \E m \in 0..(Len(FileOf[s]) - 1) :
            Relative(FileOf[s], Root) = From(FileOf[s], m)
    BY Related, LaunchAssumption
  <2> QED
    BY <2>1, <2>2
<1> DEFINE f == From(FileOf[s], n)
<1>4. /\ f # NoFile /\ NormalPath(f) = f /\ NormalPath(e) # NoFile
      /\ NormalPath(e) = f \/ EndsWith(f, NormalPath(e)) \/ EndsWith(NormalPath(e), f)
  BY <1>1, <1>3, EndsSelect
<1> HIDE DEF f
<1>5. IsScenarioSelected(f, entries)
  BY <1>4 DEF IsScenarioSelected
<1> QED
  BY <1>2, <1>5 DEF f

-----------------------------------------------------------------------------
(***************************************************************************)
(* The search for the user's files.                                        *)
(***************************************************************************)
LEMMA UpwardProperties ==
    ASSUME NEW dir \in Seq(STRING), NEW d \in Upward(dir)
    PROVE  d \in Seq(STRING) /\ Len(d) \in 1..Len(dir) /\ d = SubSeq(dir, 1, Len(d))
<1>1. PICK k \in 1..Len(dir) : d = SubSeq(dir, 1, k)
  BY DEF Upward
<1>2. Len(dir) \in Nat /\ k \in Int /\ 1 <= k /\ \A i \in 1..k : dir[i] \in STRING
  OBVIOUS
<1>3. d \in Seq(STRING) /\ Len(d) = k - 1 + 1
  BY <1>1, <1>2, SubSeqProperties
<1>4. Len(d) = k
  BY <1>2, <1>3
<1> QED
  BY <1>1, <1>3, <1>4

\* Of two directories above one, the shorter is above the other.
LEMMA UpwardIsLinear ==
    ASSUME NEW dir \in Seq(STRING), NEW a \in Upward(dir), NEW d \in Upward(dir),
           Len(a) <= Len(d)
    PROVE  a \in Upward(d) /\ (Len(a) = Len(d) => a = d)
<1>1. /\ a \in Seq(STRING) /\ Len(a) \in 1..Len(dir) /\ a = SubSeq(dir, 1, Len(a))
      /\ d \in Seq(STRING) /\ Len(d) \in 1..Len(dir) /\ d = SubSeq(dir, 1, Len(d))
  BY UpwardProperties
<1>2. /\ 1 \in 1..Len(dir) /\ Len(d) \in 1..Len(dir)
      /\ 1 \in 1..(Len(d) - 1 + 1) /\ Len(a) \in 1..(Len(d) - 1 + 1) /\ Len(a) \in 1..Len(d)
      /\ 1 + 1 - 1 = 1 /\ 1 + Len(a) - 1 = Len(a)
  BY <1>1
<1>3. SubSeq(SubSeq(dir, 1, Len(d)), 1, Len(a)) = SubSeq(dir, 1 + 1 - 1, 1 + Len(a) - 1)
  BY <1>2, SubSeqOfSubSeq
<1>4. a = SubSeq(d, 1, Len(a))
  BY <1>1, <1>2, <1>3
<1> QED
  BY <1>1, <1>2, <1>4 DEF Upward

LEMMA DeepestIsDeepest ==
    ASSUME NEW dir \in Seq(STRING), NEW D \in SUBSET Upward(dir), D # {}
    PROVE  Deepest(D) \in D /\ \A e \in D : Len(e) <= Len(Deepest(D))
<1>1. Len(dir) \in Nat /\ \A d \in D : Len(d) \in 1..Len(dir)
  BY UpwardProperties
<1> DEFINE T == {n \in Nat : \E d \in D : n = Len(dir) - Len(d)}
<1>2. \A d \in D : Len(dir) - Len(d) \in T
  BY <1>1
<1>3. T \subseteq Nat /\ T # {}
  BY <1>2
<1>4. PICK n \in T : \A k \in T : <<k, n>> \notin OpToRel(<, Nat)
  BY <1>3, NatLessThanWellFounded, WFMin, Zenon
<1>5. PICK d \in D : n = Len(dir) - Len(d)
  OBVIOUS
<1>6. ASSUME NEW e \in D PROVE Len(e) <= Len(d)
  <2>1. Len(dir) - Len(e) \in T /\ Len(dir) - Len(e) \in Nat /\ n \in Nat
    BY <1>2
  <2> HIDE DEF T
  <2>2. ~(Len(dir) - Len(e) < n)
    BY <1>4, <2>1 DEF OpToRel
  <2>3. Len(d) \in Nat /\ Len(e) \in Nat
    BY <1>1
  <2> QED
    BY <1>1, <1>5, <2>2, <2>3
<1> HIDE DEF T
<1>7. \E x \in D : \A e \in D : Len(e) <= Len(x)
  BY <1>6
<1> QED
  BY <1>7 DEF Deepest

LEMMA CeilingProperties ==
    ASSUME NEW cwd \in Seq(STRING), NEW marked, NEW explicit, Upward(cwd) # {}
    PROVE  LET ceiling == ProjectCeiling(cwd, marked, explicit) IN
           \/ ceiling = cwd /\ Upward(cwd) \cap marked = {}
           \/ /\ ceiling \in Upward(cwd) \cap marked
              /\ \/ ceiling = explicit
                 \/ \A m \in Upward(cwd) \cap marked : Len(m) <= Len(ceiling)
<1> DEFINE roots == Upward(cwd) \cap marked
<1>1. CASE explicit \in roots
  BY <1>1 DEF ProjectCeiling
<1>2. CASE explicit \notin roots /\ roots = {}
  BY <1>2 DEF ProjectCeiling
<1>3. CASE explicit \notin roots /\ roots # {}
  <2>1. ProjectCeiling(cwd, marked, explicit) = Deepest(roots)
    BY <1>3 DEF ProjectCeiling
  <2>2. roots \in SUBSET Upward(cwd)
    OBVIOUS
  <2>3. Deepest(roots) \in roots /\ \A m \in roots : Len(m) <= Len(Deepest(roots))
    BY <1>3, <2>2, DeepestIsDeepest
  <2> QED
    BY <2>1, <2>3
<1> QED
  BY <1>1, <1>2, <1>3

LEMMA FoundIsOfTheProject ==
    ASSUME NEW cwd \in Seq(STRING), NEW marked, NEW explicit, NEW holders,
           NEW d, d = FindUserFile(cwd, marked, explicit, holders), d # NoFile
    PROVE  /\ d \in Upward(cwd) \cap holders
           /\ \/ d = cwd
              \/ \A m \in Upward(cwd) \cap marked :
                    Len(d) < Len(m) => explicit \in marked \cap Upward(d)
           /\ d # cwd => \E m \in Upward(d) : m \in marked
<1> DEFINE ceiling == ProjectCeiling(cwd, marked, explicit)
           found == {x \in Upward(cwd) \cap holders : Len(ceiling) <= Len(x)}
<1>1. found # {} /\ d = Deepest(found)
  BY DEF FindUserFile
<1>2. found \in SUBSET Upward(cwd)
  OBVIOUS
<1>3. d \in found
  BY <1>1, <1>2, DeepestIsDeepest
<1>4. /\ d \in Upward(cwd) \cap holders /\ Len(ceiling) <= Len(d)
      /\ d \in Seq(STRING) /\ Len(d) \in 1..Len(cwd)
  BY <1>3, UpwardProperties
<1>5. \/ ceiling = cwd /\ Upward(cwd) \cap marked = {}
      \/ /\ ceiling \in Upward(cwd) \cap marked
         /\ \/ ceiling = explicit
            \/ \A m \in Upward(cwd) \cap marked : Len(m) <= Len(ceiling)
  BY <1>4, CeilingProperties
<1> HIDE DEF ceiling, found
<1>6. CASE ceiling = cwd /\ Upward(cwd) \cap marked = {}
  <2>1. Len(d) = Len(cwd) /\ d = SubSeq(cwd, 1, Len(d))
    BY <1>4, <1>6, UpwardProperties
  <2>2. d = cwd
    BY <2>1, SubSeqFull
  <2> QED
    BY <1>4, <2>2
<1>7. CASE /\ ceiling \in Upward(cwd) \cap marked
           /\ \/ ceiling = explicit
              \/ \A m \in Upward(cwd) \cap marked : Len(m) <= Len(ceiling)
  <2>1. ceiling \in Upward(d) /\ Len(ceiling) \in Nat
    BY <1>4, <1>7, UpwardIsLinear, UpwardProperties
  <2>2. ASSUME NEW m \in Upward(cwd) \cap marked, Len(d) < Len(m)
        PROVE  explicit \in marked \cap Upward(d)
    <3>1. Len(m) \in Nat
      BY UpwardProperties
    <3>2. ceiling = explicit
      BY <1>4, <1>7, <2>1, <2>2, <3>1
    <3> QED
      BY <1>7, <2>1, <3>2
  <2> QED
    BY <1>4, <1>7, <2>1, <2>2
<1> QED
  BY <1>5, <1>6, <1>7

-----------------------------------------------------------------------------
(***************************************************************************)
(* What the CLI tells its child.                                           *)
(***************************************************************************)
LEMMA Texts == Falsy(Unset) /\ ~Falsy("default.html") /\ ~Falsy("1") /\ ~IsTruthy(Unset)
BY Zenon DEF Falsy, IsTruthy, Unset, Blank

LEMMA ChildIsTold == child' = ChildEnv /\ UNCHANGED <<input, got>> => ChildOK'
<1> SUFFICES ASSUME child' = ChildEnv, UNCHANGED <<input, got>> PROVE ChildOK'
  OBVIOUS
<1>1. \A c \in Cred : child'[c] = OrElse(CliCred(input.env, input.conf, input.dsn, c), input.env[c])
  <2> SUFFICES ASSUME NEW c \in Cred
               PROVE  child'[c] = OrElse(CliCred(input.env, input.conf, input.dsn, c), input.env[c])
    OBVIOUS
  <2>1. c \in Var /\ c \notin {"TIER", "REPORT_STRICT", "REPORT_FILE", "VIDEO", "VIDEO_DIR"}
    BY DEF Var, Cred
  <2> QED
    BY <2>1 DEF ChildEnv
<1>2. child'["REPORT_STRICT"] = IF got.strict THEN "1" ELSE input.env["REPORT_STRICT"]
  BY DEF ChildEnv, Var, Cred
<1>3. child'["REPORT_FILE"] = OrElse(got.report, input.env["REPORT_FILE"])
  BY DEF ChildEnv, Var, Cred
<1> QED
  BY <1>1, <1>2, <1>3 DEF ChildOK

LEMMA CredentialsAgree ==
    ASSUME ChildOK, NEW c \in Cred
    PROVE  LET mine == CliCred(input.env, input.conf, input.dsn, c)
               its == HarnessCred(child, input.dsn, c)
           IN \/ mine = its \/ (Falsy(mine) /\ Falsy(its))
              \/ c \in {"PROJECT", "ENDPOINT"} /\ input.conf[c] = Blank
<1> DEFINE mine == CliCred(input.env, input.conf, input.dsn, c)
           its == HarnessCred(child, input.dsn, c)
<1>1. child[c] = OrElse(mine, input.env[c])
  BY DEF ChildOK
<1>2. its = IF child[c] = Unset THEN Dsn(input.dsn, c) ELSE child[c]
  BY DEF HarnessCred, Or
<1>3. CASE ~Falsy(mine)
  <2>1. child[c] = mine /\ mine # Unset
    BY <1>1, <1>3, Texts DEF OrElse
  <2> QED
    BY <1>2, <2>1
<1>4. CASE Falsy(mine)
  <2>1. child[c] = input.env[c]
    BY <1>1, <1>4 DEF OrElse
  <2>2. CASE input.env[c] = Unset
    <3>1. its = Dsn(input.dsn, c)
      BY <1>2, <2>1, <2>2
    <3>2. mine = Or(IF c \in {"PROJECT", "ENDPOINT"} THEN input.conf[c] ELSE Unset,
                    Dsn(input.dsn, c))
      BY <2>2 DEF CliCred, Or
    <3>3. CASE c \in {"PROJECT", "ENDPOINT"} /\ input.conf[c] # Unset
      BY <1>4, <3>2, <3>3 DEF Or, Falsy
    <3>4. CASE ~(c \in {"PROJECT", "ENDPOINT"} /\ input.conf[c] # Unset)
      BY <3>1, <3>2, <3>4 DEF Or
    <3> QED
      BY <3>3, <3>4
  <2>3. CASE input.env[c] # Unset
    BY <1>2, <1>4, <2>1, <2>3 DEF CliCred, Or
  <2> QED
    BY <2>2, <2>3
<1> QED
  BY <1>3, <1>4

LEMMA InitLaunchInv == LInit => LaunchInv
<1> SUFFICES ASSUME LInit PROVE LaunchInv
  OBVIOUS
<1>1. ToldOK
  BY DEF LInit, ToldOK, Phase, Fields, CliAndChildAgree
<1>2. GateOK
  BY DEF LInit, GateOK, ChangedFilesRun
<1>3. FoundOK
  BY DEF LInit, FoundOK, NoHarness
<1> QED
  BY <1>1, <1>2, <1>3 DEF LaunchInv

\* An extractor, or the spawn: nothing the harness has, and no verdict.
LEMMA CliStep ==
    ASSUME LaunchInv, phase # "register", phase' # "register", ToldOK',
           UNCHANGED <<input, harness, verdict>>
    PROVE  LaunchInv'
<1>1. GateOK'
  BY DEF LaunchInv, GateOK, ChangedFilesRun
<1>2. FoundOK'
  BY DEF LaunchInv, FoundOK
<1> QED
  BY <1>1, <1>2 DEF LaunchInv

\* The harness starts with no verdict.
LEMMA GateStarts ==
    ASSUME GateOK, phase # "register", UNCHANGED <<input, got, verdict>>
    PROVE  GateOK'
<1>1. \A s \in DOMAIN Scenario : verdict'[s] = "none"
  BY DEF GateOK
<1> QED
  BY <1>1 DEF GateOK, ChangedFilesRun

LEMMA NextLaunchInv == LaunchInv /\ [LNext]_lVars => LaunchInv'
<1> SUFFICES ASSUME LaunchInv, [LNext]_lVars PROVE LaunchInv'
  OBVIOUS
<1>1. ToldOK /\ GateOK /\ FoundOK /\ Fields
  BY DEF LaunchInv, ToldOK
<1>2. CASE ExtractTier
  <2>1. /\ phase = "tier" /\ phase' = "strict" /\ UNCHANGED <<input, child, harness, verdict>>
        /\ \E tier : got' = [got EXCEPT !.tier = tier]
    BY <1>2 DEF ExtractTier, Takes
  <2>2. Fields' /\ got'.strict = got.strict
    BY <1>1, <2>1 DEF Fields
  <2>3. ToldOK'
    BY <1>1, <2>1, <2>2 DEF ToldOK, Phase, CliAndChildAgree
  <2> QED
    BY <2>1, <2>3, CliStep
<1>3. CASE ExtractStrict
  <2> DEFINE b == \/ Contains(left, Flag("fail-on-report-error"))
                  \/ IsTruthy(input.env["REPORT_STRICT"])
                  \/ input.conf["REPORT_STRICT"] = "1"
  <2>1. /\ phase = "strict" /\ phase' = "select" /\ UNCHANGED <<input, child, harness, verdict>>
        /\ got' = [got EXCEPT !.strict = b]
    BY <1>3 DEF ExtractStrict
  <2>2. b \in BOOLEAN /\ (IsTruthy(input.env["REPORT_STRICT"]) => b)
    OBVIOUS
  <2> HIDE DEF b
  <2>3. Fields' /\ got'.strict = b
    BY <1>1, <2>1 DEF Fields
  <2>4. ToldOK'
    BY <1>1, <2>1, <2>2, <2>3 DEF ToldOK, Phase, StrictOK, CliAndChildAgree
  <2> QED
    BY <2>1, <2>4, CliStep
<1>4. CASE ExtractSelect
  <2>1. /\ phase = "select" /\ phase' = "report" /\ UNCHANGED <<input, child, harness, verdict>>
        /\ \E select : got' = [got EXCEPT !.select = select]
    BY <1>4 DEF ExtractSelect, Takes
  <2>2. Fields' /\ got'.strict = got.strict
    BY <1>1, <2>1 DEF Fields
  <2>3. ToldOK'
    BY <1>1, <2>1, <2>2 DEF ToldOK, Phase, StrictOK, CliAndChildAgree
  <2> QED
    BY <2>1, <2>3, CliStep
<1>5. CASE ExtractReport
  <2>1. /\ phase = "report" /\ phase' = "video" /\ UNCHANGED <<input, child, harness, verdict>>
        /\ \E text : got' = [got EXCEPT !.report = text]
                     /\ (text = OrElse(text, "default.html") \/ text = input.env["REPORT_FILE"])
    <3> DEFINE x == Extract(left, "report", HtmlWord(left))
               named == OrElse(LastOf(x.vals), "default.html")
               text == IF x.there THEN named ELSE input.env["REPORT_FILE"]
    <3>1. /\ phase = "report" /\ phase' = "video" /\ UNCHANGED <<input, child, harness, verdict>>
          /\ got' = [got EXCEPT !.report = text]
      BY <1>5 DEF ExtractReport, Takes
    <3>2. named = OrElse(named, "default.html")
      BY DEF OrElse
    <3> HIDE DEF named
    <3>3. text = OrElse(text, "default.html") \/ text = input.env["REPORT_FILE"]
      BY <3>2
    <3> QED
      BY <3>1, <3>3
  <2>2. PICK text : /\ got' = [got EXCEPT !.report = text]
                    /\ text = OrElse(text, "default.html") \/ text = input.env["REPORT_FILE"]
    BY <2>1
  <2>3. Fields' /\ got'.strict = got.strict /\ got'.report = text
    BY <1>1, <2>2 DEF Fields
  <2>4. Falsy(text) => Falsy(input.env["REPORT_FILE"])
    BY <2>2, Texts DEF OrElse
  <2>5. ToldOK'
    BY <1>1, <2>1, <2>3, <2>4 DEF ToldOK, Phase, StrictOK, ReportOK, CliAndChildAgree
  <2> QED
    BY <2>1, <2>5, CliStep
<1>6. CASE ExtractVideo
  <2>1. /\ phase = "video" /\ phase' = "spawn" /\ UNCHANGED <<input, child, harness, verdict>>
        /\ \E video, dir : got' = [got EXCEPT !.video = video, !.dir = dir]
    BY <1>6 DEF ExtractVideo, Takes
  <2>2. Fields' /\ got'.strict = got.strict /\ got'.report = got.report
    BY <1>1, <2>1 DEF Fields
  <2>3. ToldOK'
    BY <1>1, <2>1, <2>2 DEF ToldOK, Phase, StrictOK, ReportOK, CliAndChildAgree
  <2> QED
    BY <2>1, <2>3, CliStep
<1>7. CASE BuildEnv
  <2>1. /\ phase = "spawn" /\ phase' = "retries" /\ UNCHANGED <<input, got, harness, verdict>>
        /\ child' = ChildEnv
    BY <1>7 DEF BuildEnv
  <2>2. ChildOK'
    BY <2>1, ChildIsTold
  <2>3. ToldOK'
    BY <1>1, <2>1, <2>2 DEF ToldOK, Phase, Fields, StrictOK, ReportOK, CliAndChildAgree
  <2> QED
    BY <2>1, <2>3, CliStep
<1>8. CASE ExtractRetries
  <2>1. /\ phase = "retries" /\ phase' = "configure"
        /\ UNCHANGED <<input, child, harness, verdict>>
        /\ \E retries : got' = [got EXCEPT !.retries = retries]
    BY <1>8 DEF ExtractRetries
  <2>2. Fields' /\ got'.strict = got.strict /\ got'.report = got.report
    BY <1>1, <2>1 DEF Fields
  <2>3. StrictOK' /\ ReportOK' /\ ChildOK'
    BY <1>1, <2>1, <2>2 DEF ToldOK, StrictOK, ReportOK, ChildOK
  <2>4. ToldOK'
    BY <1>1, <2>1, <2>2, <2>3 DEF ToldOK, Phase, CliAndChildAgree
  <2> QED
    BY <2>1, <2>4, CliStep
<1>9. CASE Configure
  <2>1. /\ phase = "configure" /\ phase' = "register" /\ UNCHANGED <<input, got, child, verdict>>
        /\ harness' = [reporter |-> ReporterFor(child, input.dsn),
                       strict |-> IsTruthy(child["REPORT_STRICT"]),
                       setup |-> FindUserFile(input.cwd, input.marked, input.explicit,
                                              input.holders)]
    BY <1>9 DEF Configure
  <2>2. StrictOK /\ ReportOK /\ ChildOK /\ got.strict \in BOOLEAN
    BY <1>1, <2>1 DEF ToldOK
  <2>3. harness'.strict = got.strict
    <3>1. IsTruthy(child["REPORT_STRICT"]) = got.strict
      BY <2>2, Zenon DEF StrictOK, ChildOK, IsTruthy
    <3> QED
      BY <2>1, <3>1
  <2>4. (harness'.reporter = "file") = ~Falsy(got.report)
    <3>1. Falsy(child["REPORT_FILE"]) <=> Falsy(got.report)
      BY <2>2 DEF ReportOK, ChildOK, OrElse
    <3>2. (ReporterFor(child, input.dsn) = "file") <=> ~Falsy(child["REPORT_FILE"])
      BY DEF ReporterFor
    <3> QED
      BY <2>1, <3>1, <3>2
  <2>5. CliAndChildAgree'
    <3>1. \A c \in Cred : LET mine == CliCred(input.env, input.conf, input.dsn, c)
                              its == HarnessCred(child, input.dsn, c)
                          IN \/ mine = its \/ (Falsy(mine) /\ Falsy(its))
                             \/ c \in {"PROJECT", "ENDPOINT"} /\ input.conf[c] = Blank
      BY <2>2, CredentialsAgree
    <3> QED
      BY <2>1, <2>3, <2>4, <3>1 DEF CliAndChildAgree
  <2>6. ToldOK'
    BY <1>1, <2>1, <2>2, <2>5 DEF ToldOK, Phase, Fields, StrictOK, ReportOK, ChildOK
  <2>7. GateOK'
    BY <1>1, <2>1, GateStarts DEF GateOK
  <2>8. FoundOK'
    BY <2>1 DEF FoundOK
  <2> QED
    BY <2>6, <2>7, <2>8 DEF LaunchInv
<1>10. ASSUME NEW s \in DOMAIN Scenario, BrowserTest(s)
       PROVE  LaunchInv'
  <2>1. /\ phase = "register" /\ UNCHANGED <<input, phase, left, got, child, harness>>
        /\ \E tier, selected :
               verdict' = [verdict EXCEPT ![s] =
                              DecideScenarioRun(tier, selected,
                                                CaptureTestFile(FileOf[s], input.cwd), got.select)]
    BY <1>10 DEF BrowserTest
  <2>2. ToldOK'
    BY <1>1, <2>1 DEF ToldOK, Fields, StrictOK, ReportOK, ChildOK, CliAndChildAgree
  <2>3. input.cwd \in Seq(STRING)
    BY <1>1, LaunchAssumption DEF GateOK
  <2>4. ASSUME NEW e \in got.select,
               \A k \in DOMAIN FileOf[s] : FileOf[s][k] \notin Odd,
               NormalPath(e) \in {FileOf[s], Relative(FileOf[s], Root)}
        PROVE  verdict'[s] # "skipped"
    <3>1. IsScenarioSelected(CaptureTestFile(FileOf[s], input.cwd), got.select)
      BY <2>3, <2>4, ChangedFileIsSelected
    <3> QED
      BY <1>1, <2>1, <3>1 DEF GateOK, DecideScenarioRun
  <2>5. /\ DOMAIN verdict' = DOMAIN Scenario
        /\ \A t \in DOMAIN Scenario \ {s} : verdict'[t] = verdict[t]
    BY <1>1, <2>1 DEF GateOK
  <2>6. ChangedFilesRun'
    <3> SUFFICES ASSUME NEW t \in DOMAIN Scenario, NEW e \in got.select,
                        \A k \in DOMAIN FileOf[t] : FileOf[t][k] \notin Odd,
                        NormalPath(e) \in {FileOf[t], Relative(FileOf[t], Root)}
                 PROVE  verdict'[t] # "skipped"
      BY <2>1 DEF ChangedFilesRun
    <3>1. CASE t = s
      BY <2>4, <3>1
    <3>2. CASE t # s
      BY <1>1, <2>5, <3>2 DEF GateOK, ChangedFilesRun
    <3> QED
      BY <3>1, <3>2
  <2>7. GateOK' /\ FoundOK'
    BY <1>1, <2>1, <2>5, <2>6 DEF GateOK, FoundOK
  <2> QED
    BY <2>2, <2>7 DEF LaunchInv
<1>11. CASE UNCHANGED lVars
  BY <1>1, <1>11 DEF lVars, LaunchInv, ToldOK, Fields, StrictOK, ReportOK, ChildOK,
                     CliAndChildAgree, GateOK, ChangedFilesRun, FoundOK
<1> QED
  BY <1>2, <1>3, <1>4, <1>5, <1>6, <1>7, <1>8, <1>9, <1>10, <1>11 DEF LNext, Launched

LEMMA LaunchKept == LSpec => []LaunchInv
  BY InitLaunchInv, NextLaunchInv, PTL DEF LSpec

\* The CLI and its child agree on strictness, on each credential and on whether there
\* is a report file, for any command line, environment, config and DSN.
THEOREM LaunchAgrees == LSpec => []CliAndChildAgree
<1>1. LaunchInv => CliAndChildAgree
  BY DEF LaunchInv, ToldOK
<1> QED
  BY <1>1, LaunchKept, PTL

\* A scenario whose file is on a list of changed files runs, whatever its tier, for
\* any scenarios, roots of the repository and working directories, if there is nothing
\* odd in the path.
THEOREM ChangedScenariosRun == LSpec => []ChangedFilesRun
<1>1. LaunchInv => ChangedFilesRun
  BY DEF LaunchInv, GateOK
<1> QED
  BY <1>1, LaunchKept, PTL

\* The user's modules are searched for up to the root of a project, for any layout of
\* directories, marks of projects and OPICE_PROJECT_ROOT.
THEOREM SearchStaysInside == LSpec => []UserFilesAreOfTheProject
<1>1. LaunchInv => UserFilesAreOfTheProject
  <2> SUFFICES ASSUME LaunchInv, harness.setup # NoFile
               PROVE  UserFilesAreOfTheProject
    BY DEF UserFilesAreOfTheProject
  <2>1. /\ harness.setup = FindUserFile(input.cwd, input.marked, input.explicit, input.holders)
        /\ input.cwd \in Seq(STRING)
    BY LaunchAssumption DEF LaunchInv, FoundOK, GateOK
  <2> QED
    BY <2>1, FoundIsOfTheProject DEF UserFilesAreOfTheProject
<1> QED
  BY <1>1, LaunchKept, PTL

-----------------------------------------------------------------------------
(***************************************************************************)
(* Positions in their order.                                               *)
(***************************************************************************)
Increasing(f) == \A i, j \in DOMAIN f : i < j => f[i] < f[j]
Orders(f, at) == f \in [1..Cardinality(at) -> at] /\ Increasing(f)

LEMMA CardinalityOfPositions ==
    ASSUME NEW n \in Nat, NEW at \in SUBSET (1..n)
    PROVE  IsFiniteSet(at) /\ Cardinality(at) \in Nat
<1>1. IsFiniteSet(1..n)
  BY FS_Interval
<1> QED
  BY <1>1, FS_Subset, FS_CardinalityType

\* A set of naturals has a least element.
LEMMA LeastOne ==
    ASSUME NEW T \in SUBSET Nat, T # {}
    PROVE  \E m \in T : \A k \in T : m <= k
<1>1. PICK m \in T : \A k \in T : <<k, m>> \notin OpToRel(<, Nat)
  BY NatLessThanWellFounded, WFMin, Zenon
<1>2. ASSUME NEW k \in T PROVE m <= k
  <2>1. k \in Nat /\ m \in Nat /\ ~(k < m)
    BY <1>1 DEF OpToRel
  <2> QED
    BY <2>1
<1> QED
  BY <1>2

LEMMA PositionsHaveAnOrder ==
    ASSUME NEW n \in Nat, NEW at \in SUBSET (1..n)
    PROVE  \E f : Orders(f, at)
<1> DEFINE T == {m \in Nat : \E p \in SUBSET (1..m) : ~\E f : Orders(f, p)}
<1> SUFFICES ASSUME T # {} PROVE FALSE
  OBVIOUS
<1>1. PICK m \in T : \A k \in T : m <= k
  BY LeastOne
<1>2. PICK p \in SUBSET (1..m) : ~\E f : Orders(f, p)
  OBVIOUS
<1>3. m \in Nat /\ p \in SUBSET (1..m)
  OBVIOUS
<1>6. ASSUME m > 0, NEW q \in SUBSET (1..(m - 1)) PROVE \E f : Orders(f, q)
  <2> SUFFICES ASSUME ~\E f : Orders(f, q) PROVE FALSE
    OBVIOUS
  <2>1. m - 1 \in Nat /\ ~(m <= m - 1)
    BY <1>3, <1>6
  <2>2. m - 1 \in T
    BY <2>1
  <2> HIDE DEF T
  <2> QED
    BY <1>1, <2>1, <2>2
<1> HIDE DEF T
<1>4. CASE p = {}
  <2>1. Cardinality(p) = 0
    BY <1>4, FS_EmptySet
  <2>2. Orders([i \in 1..0 |-> i], p)
    BY <2>1, <1>4 DEF Orders, Increasing
  <2> QED
    BY <1>2, <2>2
<1>5. CASE p # {}
  <2>0. m \in Nat /\ m > 0
    <3>1. PICK i \in p : TRUE
      BY <1>5
    <3>2. i \in 1..m
      BY <1>3
    <3> QED
      BY <1>3, <3>2
  <2>1. m > 0 /\ m \in Nat /\ 1..m = 1..(m - 1) \cup {m}
    BY <2>0
  <2>2. CASE m \notin p
    BY <1>2, <1>3, <1>6, <2>1, <2>2
  <2>3. CASE m \in p
    <3> DEFINE q == p \ {m}
               c == Cardinality(q)
    <3>1. q \in SUBSET (1..(m - 1))
      BY <2>1
    <3>2. PICK f : Orders(f, q)
      BY <1>6, <2>1, <3>1
    <3>3. IsFiniteSet(q) /\ c \in Nat
      BY <3>1, <2>1, CardinalityOfPositions
    <3>4. q \cup {m} = p /\ m \notin q
      BY <2>3
    <3>5. Cardinality(p) = c + 1
      BY <3>3, <3>4, FS_AddElement
    <3> DEFINE g == [i \in 1..(c + 1) |-> IF i = c + 1 THEN m ELSE f[i]]
    <3>6. f \in [1..c -> q] /\ Increasing(f)
      BY <3>2 DEF Orders
    <3> HIDE DEF c
    <3>7. g \in [1..(c + 1) -> p]
      BY <2>3, <3>3, <3>6
    <3>8. ASSUME NEW i \in 1..(c + 1), NEW j \in 1..(c + 1), i < j PROVE g[i] < g[j]
      <4>1. i \in 1..c /\ g[i] = f[i] /\ f[i] \in q
        BY <3>3, <3>6, <3>8
      <4>2. CASE j = c + 1
        <5>1. f[i] \in 1..(m - 1) /\ g[j] = m
          BY <4>1, <4>2, <3>1
        <5> QED
          BY <4>1, <5>1, <2>0
      <4>3. CASE j # c + 1
        <5>1. j \in 1..c
          BY <4>3, <3>3
        <5>2. g[j] = f[j] /\ f[i] < f[j]
          BY <3>6, <3>8, <4>1, <4>3, <5>1 DEF Increasing
        <5> QED
          BY <4>1, <5>2
      <4> QED
        BY <4>2, <4>3
    <3>9. Orders(g, p)
      BY <3>5, <3>7, <3>8 DEF Orders, Increasing
    <3> QED
      BY <1>2, <3>9
  <2> QED
    BY <2>2, <2>3
<1> QED
  BY <1>4, <1>5

\* An order of positions reaches all of them.
LEMMA InOrderIs ==
    ASSUME NEW n \in Nat, NEW at \in SUBSET (1..n)
    PROVE  /\ Cardinality(at) \in Nat
           /\ InOrder(at) \in [1..Cardinality(at) -> at] /\ Increasing(InOrder(at))
           /\ \A i \in at : \E k \in 1..Cardinality(at) : InOrder(at)[k] = i
<1> DEFINE c == Cardinality(at)
           f == InOrder(at)
<1>1. c \in Nat /\ IsFiniteSet(at)
  BY CardinalityOfPositions
<1>2. f \in [1..c -> at] /\ Increasing(f)
  <2>1. \E g \in [1..c -> at] : \A i, j \in DOMAIN g : i < j => g[i] < g[j]
    BY PositionsHaveAnOrder DEF Orders, Increasing
  <2> QED
    BY <2>1 DEF InOrder, Increasing
<1> HIDE DEF c, f
<1>3. f \in Injection(1..c, at)
  <2>1. ASSUME NEW i \in 1..c, NEW j \in 1..c, f[i] = f[j] PROVE i = j
    <3>0. f[i] \in at /\ f[j] \in at /\ at \subseteq Nat
      BY <1>2
    <3>1. f[i] \in Nat /\ f[j] \in Nat
      BY <3>0
    <3>3. i \in Nat /\ j \in Nat /\ ~(f[i] < f[j]) /\ ~(f[j] < f[i])
      BY <3>1, <2>1
    <3>2. ~(i < j) /\ ~(j < i)
      BY <1>2, <3>3 DEF Increasing
    <3> QED
      BY <3>3, <3>2
  <2> QED
    BY <1>2, <2>1, Fun_IsInj
<1>4. IsFiniteSet(1..c) /\ Cardinality(1..c) = c
  BY <1>1, FS_Interval
<1>5. f \in Surjection(1..c, at)
  BY <1>1, <1>3, <1>4, FS_Injection DEF c
<1>6. \A i \in at : \E k \in 1..c : f[k] = i
  BY <1>5 DEF Surjection
<1> QED
  BY <1>1, <1>2, <1>6 DEF c, f

\* There is one such order.
LEMMA OneOrder ==
    ASSUME NEW n \in Nat, NEW at \in SUBSET (1..n), NEW c \in Nat,
           NEW h \in [1..c -> at], Increasing(h), \A i \in at : \E k \in 1..c : h[k] = i
    PROVE  c = Cardinality(at) /\ InOrder(at) = h
<1> DEFINE f == InOrder(at)
<1>1. IsFiniteSet(at) /\ IsFiniteSet(1..c) /\ Cardinality(1..c) = c
  <2>1. IsFiniteSet(1..c) /\ Cardinality(1..c) = c
    BY FS_Interval
  <2> QED
    BY <2>1, CardinalityOfPositions
<1>2. h \in Injection(1..c, at) /\ h \in Surjection(1..c, at)
  <2>1. ASSUME NEW i \in 1..c, NEW j \in 1..c, h[i] = h[j] PROVE i = j
    <3>0. h[i] \in at /\ h[j] \in at /\ at \subseteq Nat
      OBVIOUS
    <3>1. h[i] \in Nat /\ h[j] \in Nat
      BY <3>0
    <3>3. i \in Nat /\ j \in Nat /\ ~(h[i] < h[j]) /\ ~(h[j] < h[i])
      BY <3>1, <2>1
    <3>2. ~(i < j) /\ ~(j < i)
      BY <3>3 DEF Increasing
    <3> QED
      BY <3>3, <3>2
  <2> QED
    BY <2>1, Fun_IsInj DEF Surjection
<1>3. c = Cardinality(at)
  BY <1>1, <1>2, FS_Injection
<1>4. /\ f \in [1..c -> at] /\ Increasing(f)
      /\ \A i \in at : \E k \in 1..c : f[k] = i
  BY <1>3, InOrderIs
<1> HIDE DEF f
<1> DEFINE T == {k \in 1..c : f[k] # h[k]}
<1>5. ASSUME T # {} PROVE FALSE
  <2>0. T \in SUBSET Nat /\ T # {}
    BY <1>5
  <2>1. PICK m \in T : \A k \in T : m <= k
    <3> HIDE DEF T
    <3> QED
      BY <2>0, LeastOne
  <2>2. m \in 1..c /\ f[m] # h[m] /\ f[m] \in at /\ h[m] \in at /\ at \subseteq Nat
    BY <1>4
  <2>6. f[m] \in Nat /\ h[m] \in Nat
    BY <2>2
  <2>3. \A k \in 1..c : k < m => f[k] = h[k]
    BY <2>1, <2>2
  <2>4. ASSUME f[m] < h[m] PROVE FALSE
    <3>1. PICK k \in 1..c : h[k] = f[m]
      BY <2>2
    <3>2. CASE k < m
      <4>1. f[k] = f[m] /\ f[k] < f[m]
        BY <1>4, <2>2, <2>3, <3>1, <3>2 DEF Increasing
      <4> QED
        BY <4>1, <2>6
    <3>3. CASE ~(k < m)
      <4>1. h[m] = h[k] \/ h[m] < h[k]
        BY <2>2, <3>3 DEF Increasing
      <4> QED
        BY <4>1, <3>1, <2>6, <2>4
    <3> QED
      BY <3>2, <3>3
  <2>5. ASSUME h[m] < f[m] PROVE FALSE
    <3>1. PICK k \in 1..c : f[k] = h[m]
      BY <1>4, <2>2
    <3>2. CASE k < m
      <4>1. h[k] = h[m] /\ h[k] < h[m]
        BY <2>2, <2>3, <3>1, <3>2 DEF Increasing
      <4> QED
        BY <4>1, <2>6
    <3>3. CASE ~(k < m)
      <4>1. f[m] = f[k] \/ f[m] < f[k]
        BY <1>4, <2>2, <3>3 DEF Increasing
      <4> QED
        BY <4>1, <3>1, <2>6, <2>5
    <3> QED
      BY <3>2, <3>3
  <2> QED
    BY <2>2, <2>4, <2>5, <2>6
<1>6. \A k \in 1..c : f[k] = h[k]
  BY <1>5
<1> QED
  BY <1>3, <1>4, <1>6 DEF f

\* Picking from what was picked.
Again(at, again) == {InOrder(at)[k] : k \in again}

LEMMA PickedTwice ==
    ASSUME NEW s, NEW n \in Nat, NEW at \in SUBSET (1..n),
           NEW again \in SUBSET (1..Cardinality(at))
    PROVE  Picked(Picked(s, at), again) = Picked(s, Again(at, again))
<1> DEFINE both == Again(at, again)
           f == InOrder(at)
           c == Cardinality(at)
           g == InOrder(again)
           d == Cardinality(again)
           h == [k \in 1..d |-> f[g[k]]]
<1>1. c \in Nat /\ f \in [1..c -> at] /\ Increasing(f)
  BY InOrderIs
<1>2. /\ d \in Nat /\ g \in [1..d -> again] /\ Increasing(g)
      /\ \A i \in again : \E k \in 1..d : g[k] = i
  BY <1>1, InOrderIs
<1>0. both = {f[k] : k \in again}
  BY DEF Again
<1> HIDE DEF f, c, g, d, both
<1>3. both \in SUBSET (1..n) /\ h \in [1..d -> both]
  BY <1>0, <1>1, <1>2 DEF c
<1>4. Increasing(h)
  <2>1. ASSUME NEW i \in 1..d, NEW j \in 1..d, i < j PROVE h[i] < h[j]
    <3>1. g[i] < g[j] /\ g[i] \in 1..c /\ g[j] \in 1..c
      BY <1>2, <2>1 DEF Increasing, c
    <3> QED
      BY <1>1, <3>1 DEF Increasing
  <2> QED
    BY <2>1 DEF Increasing
<1>5. \A i \in both : \E k \in 1..d : h[k] = i
  <2> SUFFICES ASSUME NEW l \in again PROVE \E k \in 1..d : h[k] = f[l]
    BY <1>0
  <2> QED
    BY <1>2
<1> HIDE DEF h
<1>6. d = Cardinality(both) /\ InOrder(both) = h
  BY <1>2, <1>3, <1>4, <1>5, OneOrder
<1>7. Picked(Picked(s, at), again) = [k \in 1..d |-> s[f[g[k]]]]
  <2>1. ASSUME NEW k \in 1..d PROVE Picked(s, at)[g[k]] = s[f[g[k]]]
    BY <1>2 DEF Picked, c, f
  <2> QED
    BY <2>1 DEF Picked, g, d
<1>8. Picked(s, both) = [k \in 1..d |-> s[f[g[k]]]]
  BY <1>6 DEF Picked, h
<1> QED
  BY <1>7, <1>8 DEF both

\* What an extractor takes: one set of positions, since each depends on the one before.
TakenAt(args, name, values, at, i) ==
    i \in at <=> /\ i - 1 \in DOMAIN args \ at
                 /\ IsFlag(args[i - 1], name) /\ args[i] \in values

LEMMA TakenIs ==
    ASSUME NEW Elem, NEW args \in Seq(Elem), NEW name, NEW values
    PROVE  /\ Taken(args, name, values) \in SUBSET DOMAIN args
           /\ \A i \in DOMAIN args : TakenAt(args, name, values, Taken(args, name, values), i)
<1> DEFINE At(at, i) == TakenAt(args, name, values, at, i)
           n == Len(args)
           T == {m \in 0..n : ~\E at \in SUBSET (1..m) : \A i \in 1..m : At(at, i)}
<1>1. n \in Nat /\ DOMAIN args = 1..n
  OBVIOUS
<1>2. \E at \in SUBSET (1..n) : \A i \in 1..n : At(at, i)
  <2> SUFFICES ASSUME ~\E at \in SUBSET (1..n) : \A i \in 1..n : At(at, i) PROVE FALSE
    OBVIOUS
  <2>0. n \in 0..n
    BY <1>1
  <2>1. T \in SUBSET Nat /\ T # {}
    <3> HIDE DEF At
    <3>1. n \in T
      BY <2>0
    <3>2. T \subseteq 0..n /\ 0..n \subseteq Nat
      BY <1>1
    <3> QED
      BY <3>1, <3>2
  <2>2. PICK m \in T : \A k \in T : m <= k
    <3> HIDE DEF T
    <3> QED
      BY <2>1, LeastOne
  <2>3. m \in 0..n /\ ~\E at \in SUBSET (1..m) : \A i \in 1..m : At(at, i)
    OBVIOUS
  <2>4. m # 0
    <3>1. 0 \notin T
      <4>1. {} \in SUBSET (1..0) /\ \A i \in 1..0 : At({}, i)
        OBVIOUS
      <4> QED
        BY <4>1
    <3> QED
      BY <3>1
  <2>5. m - 1 \in 0..n /\ ~(m <= m - 1) /\ m \in 1..n /\ 1..m = 1..(m - 1) \cup {m}
    BY <1>1, <2>3, <2>4
  <2>6. m - 1 \notin T
    <3> HIDE DEF T
    <3> QED
      BY <2>2, <2>5
  <2>7. PICK at \in SUBSET (1..(m - 1)) : \A i \in 1..(m - 1) : At(at, i)
    BY <2>5, <2>6
  <2> DEFINE more == IF /\ m - 1 \in DOMAIN args \ at
                        /\ IsFlag(args[m - 1], name) /\ args[m] \in values
                     THEN at \cup {m} ELSE at
  <2>8. m \notin at /\ m - 1 # m /\ m \in Nat
    BY <2>5
  <2>9. At(more, m)
    BY <2>8 DEF TakenAt
  <2>10. ASSUME NEW i \in 1..(m - 1) PROVE At(more, i)
    <3>1. i # m /\ i - 1 # m
      BY <2>8
    <3>2. At(at, i)
      BY <2>7
    <3> QED
      BY <3>1, <3>2 DEF TakenAt
  <2>11. more \in SUBSET (1..m)
    BY <2>5
  <2> HIDE DEF At, more
  <2> QED
    BY <2>3, <2>5, <2>9, <2>10, <2>11
<1> QED
  BY <1>1, <1>2 DEF Taken, TakenAt

\* Where the values of a flag are is no choice: the loop of an extractor, which goes
\* from left to right, and the equation that Options states have one result.
THEOREM ExtractionIsDetermined ==
    ASSUME NEW Elem, NEW args \in Seq(Elem), NEW name, NEW values,
           NEW at \in SUBSET DOMAIN args, \A i \in DOMAIN args : TakenAt(args, name, values, at, i)
    PROVE  at = Taken(args, name, values)
<1> DEFINE its == Taken(args, name, values)
           T == {i \in DOMAIN args : ~(i \in at <=> i \in its)}
<1>1. its \in SUBSET DOMAIN args /\ \A i \in DOMAIN args : TakenAt(args, name, values, its, i)
  BY TakenIs
<1>2. DOMAIN args = 1..Len(args) /\ Len(args) \in Nat
  OBVIOUS
<1> HIDE DEF its
<1>3. T = {}
  <2> SUFFICES ASSUME T # {} PROVE FALSE
    OBVIOUS
  <2>1. T \in SUBSET Nat
    BY <1>2
  <2>2. PICK i \in T : \A k \in T : i <= k
    <3> HIDE DEF T
    <3> QED
      BY <2>1, LeastOne
  <2>3. i \in DOMAIN args /\ i \in Nat /\ ~(i <= i - 1)
    BY <1>2
  <2>4. i - 1 \notin T
    <3> HIDE DEF T
    <3> QED
      BY <2>2, <2>3
  <2>5. i - 1 \in DOMAIN args \ at <=> i - 1 \in DOMAIN args \ its
    BY <2>4
  <2>6. TakenAt(args, name, values, at, i) /\ TakenAt(args, name, values, its, i)
    BY <1>1, <2>3
  <2> QED
    BY <2>2, <2>5, <2>6 DEF TakenAt
<1> QED
  BY <1>1, <1>3 DEF its

-----------------------------------------------------------------------------
(***************************************************************************)
(* What is left of the command line, when the options `done` have been     *)
(* extracted: positions that are kept, those of options, and those of      *)
(* values, each after the flag that took it.                               *)
(***************************************************************************)
WasTaken(args, kept, i) ==
    \E f \in 1..(i - 1) : /\ args[f].form = "flag" /\ MayTake(args[f].name, args[i])
                          /\ \A j \in (f + 1)..(i - 1) : j \notin kept

Leaves(args, kept, done) ==
    /\ \A i \in kept : IsOwn(args[i]) => args[i].name \notin done
    /\ \A i \in DOMAIN args \ kept : ~IsOwn(args[i]) => WasTaken(args, kept, i)

Survives(args, rest, done) ==
    \E kept \in SUBSET DOMAIN args : rest = Picked(args, kept) /\ Leaves(args, kept, done)

\* Picking is by position, so what is picked is a part of the line.
LEMMA PickedIs ==
    ASSUME NEW args \in Seq(Token), NEW kept \in SUBSET DOMAIN args
    PROVE  /\ Cardinality(kept) \in Nat
           /\ Picked(args, kept) \in Seq(Token)
           /\ DOMAIN Picked(args, kept) = 1..Cardinality(kept)
           /\ \A k \in 1..Cardinality(kept) :
                  InOrder(kept)[k] \in kept /\ Picked(args, kept)[k] = args[InOrder(kept)[k]]
<1> DEFINE c == Cardinality(kept)
           f == InOrder(kept)
<1>1. Len(args) \in Nat /\ DOMAIN args = 1..Len(args)
  OBVIOUS
<1>2. c \in Nat /\ f \in [1..c -> kept]
  BY <1>1, InOrderIs
<1> HIDE DEF c, f
<1>3. Picked(args, kept) = [k \in 1..c |-> args[f[k]]]
  BY DEF Picked, c, f
<1>4. \A k \in 1..c : f[k] \in kept /\ args[f[k]] \in Token
  BY <1>2
<1>5. [k \in 1..c |-> args[f[k]]] \in Seq(Token)
  <2> DEFINE g == [k \in 1..c |-> args[f[k]]]
  <2>1. g \in [1..c -> Token]
    BY <1>4
  <2> QED
    BY <1>2, <2>1, SeqDef
<1> QED
  BY <1>2, <1>3, <1>4, <1>5 DEF c, f

LEMMA NothingExtracted ==
    ASSUME NEW args \in Seq(Token)
    PROVE  Survives(args, args, {})
<1> DEFINE n == Len(args)
           h == [i \in 1..n |-> i]
           all == DOMAIN args
<1>1. n \in Nat /\ all = 1..n /\ all \in SUBSET (1..n)
  OBVIOUS
<1>2. h \in [1..n -> all] /\ Increasing(h) /\ \A i \in all : \E k \in 1..n : h[k] = i
  BY <1>1 DEF Increasing
<1>3. n = Cardinality(all) /\ InOrder(all) = h
  <2> HIDE DEF h, all, n
  <2> QED
    BY <1>1, <1>2, OneOrder
<1>4. Picked(args, all) = args
  <2>1. Picked(args, all) = [i \in 1..n |-> args[h[i]]]
    BY <1>3 DEF Picked
  <2>2. [i \in 1..n |-> args[h[i]]] = [i \in 1..n |-> args[i]]
    OBVIOUS
  <2> QED
    BY <2>1, <2>2
<1>5. Leaves(args, all, {})
  BY DEF Leaves
<1> QED
  BY <1>4, <1>5 DEF Survives

\* An extraction takes options of one kind, and values right behind their flags.
LEMMA SurvivesMore ==
    ASSUME NEW args \in Seq(Token), NEW rest, NEW done, Survives(args, rest, done),
           NEW taken \in SUBSET DOMAIN rest, NEW own \in SUBSET DOMAIN rest, NEW name,
           \A k \in own : IsOwn(rest[k]),
           \A k \in taken : /\ k - 1 \in DOMAIN rest /\ rest[k - 1].form = "flag"
                            /\ MayTake(rest[k - 1].name, rest[k]),
           \A k \in DOMAIN rest \ (taken \cup own) : IsOwn(rest[k]) => rest[k].name # name
    PROVE  Survives(args, Picked(rest, DOMAIN rest \ (taken \cup own)), done \cup {name})
<1>1. PICK kept \in SUBSET DOMAIN args : rest = Picked(args, kept) /\ Leaves(args, kept, done)
  BY DEF Survives
<1> DEFINE n == Len(args)
           c == Cardinality(kept)
           f == InOrder(kept)
           again == DOMAIN rest \ (taken \cup own)
           still == {f[k] : k \in again}
<1>2. n \in Nat /\ DOMAIN args = 1..n /\ kept \in SUBSET (1..n)
  OBVIOUS
<1>3. /\ c \in Nat /\ f \in [1..c -> kept] /\ Increasing(f)
      /\ \A i \in kept : \E k \in 1..c : f[k] = i
  BY <1>2, InOrderIs
<1>4. DOMAIN rest = 1..c /\ \A k \in 1..c : f[k] \in kept /\ rest[k] = args[f[k]]
  BY <1>1, PickedIs
<1> HIDE DEF c, f, n
<1>5. still \in SUBSET kept
  BY <1>4
<1>6. Picked(rest, again) = Picked(args, still)
  <2>1. Len(args) \in Nat /\ kept \in SUBSET (1..Len(args))
    BY <1>2 DEF n
  <2>2. again \in SUBSET (1..Cardinality(kept)) /\ still = Again(kept, again)
    BY <1>4 DEF c, f, Again
  <2> HIDE DEF again, still
  <2>3. Picked(Picked(args, kept), again) = Picked(args, Again(kept, again))
    BY <2>1, <2>2, PickedTwice
  <2> QED
    BY <1>1, <2>2, <2>3
<1>7. ASSUME NEW i \in still, IsOwn(args[i]) PROVE args[i].name \notin done \cup {name}
  <2>1. PICK k \in again : i = f[k]
    OBVIOUS
  <2>2. k \in 1..c /\ rest[k] = args[i] /\ i \in kept
    BY <1>4, <2>1
  <2>3. rest[k].name # name
    BY <1>7, <2>2
  <2>4. args[i].name \notin done
    BY <1>1, <1>7, <2>2 DEF Leaves
  <2> QED
    BY <2>2, <2>3, <2>4
<1>8. ASSUME NEW i \in DOMAIN args \ still, ~IsOwn(args[i]) PROVE WasTaken(args, still, i)
  <2>1. CASE i \notin kept
    <3>1. WasTaken(args, kept, i)
      BY <1>1, <1>8, <2>1 DEF Leaves
    <3> QED
      BY <1>5, <3>1 DEF WasTaken
  <2>2. CASE i \in kept
    <3>1. PICK k \in 1..c : f[k] = i
      BY <1>3, <2>2
    <3>2. k \notin again /\ rest[k] = args[i]
      BY <1>4, <1>8, <3>1
    <3>3. k \in taken
      BY <1>4, <1>8, <3>1, <3>2
    <3>4. /\ k - 1 \in 1..c /\ rest[k - 1].form = "flag"
          /\ MayTake(rest[k - 1].name, rest[k])
      BY <1>4, <3>3
    <3> DEFINE g == f[k - 1]
    <3>5. g < i /\ rest[k - 1] = args[g] /\ g \in kept
      <4>1. k \in 1..c /\ k - 1 \in 1..c /\ k - 1 < k
        BY <1>3, <3>4
      <4>2. g < i
        BY <1>3, <3>1, <4>1 DEF Increasing
      <4> QED
        BY <1>4, <4>1, <4>2
    <3>6. g \in 1..n /\ i \in 1..n
      BY <1>2, <2>2, <3>5
    <3>7. ASSUME NEW j \in (g + 1)..(i - 1), j \in still PROVE FALSE
      <4>1. PICK l \in again : j = f[l]
        BY <3>7
      <4>2. l \in 1..c /\ g < j /\ j < i
        BY <1>4, <3>6
      <4>3. ~(l < k - 1) /\ l # k - 1 /\ ~(k < l) /\ l # k
        <5>1. l < k - 1 => f[l] < g
          BY <1>3, <3>4, <4>2 DEF Increasing
        <5>2. k < l => i < f[l]
          BY <1>3, <3>1, <4>2 DEF Increasing
        <5>3. j \in Nat /\ i \in Nat /\ g \in Nat
          BY <3>6
        <5> HIDE DEF g
        <5>4. ~(j < g) /\ ~(i < j) /\ j # g /\ j # i
          BY <4>2, <5>3
        <5> QED
          BY <3>1, <4>1, <5>1, <5>2, <5>4 DEF g
      <4>4. k \in Nat /\ l \in Nat
        BY <1>3, <4>2
      <4> QED
        BY <4>3, <4>4
    <3>8. g \in 1..(i - 1) /\ args[g].form = "flag" /\ MayTake(args[g].name, args[i])
      <4>1. g \in 1..(i - 1)
        BY <3>5, <3>6
      <4> QED
        BY <3>2, <3>4, <3>5, <4>1
    <3> HIDE DEF g, still
    <3> QED
      BY <3>7, <3>8 DEF WasTaken
  <2> QED
    BY <2>1, <2>2
<1> HIDE DEF still, again
<1>9. Leaves(args, still, done \cup {name})
  BY <1>7, <1>8 DEF Leaves
<1>10. still \in SUBSET DOMAIN args
  BY <1>5
<1> QED
  BY <1>6, <1>9, <1>10 DEF Survives, again

\* Extract is such an extraction, whatever it is told that the flag may take.
LEMMA ExtractLeaves ==
    ASSUME NEW args \in Seq(Token), NEW rest, NEW done, Survives(args, rest, done),
           NEW name \in {"tier", "select", "report", "video", "retries"},
           NEW values, \A t \in values : MayTake(name, t)
    PROVE  Survives(args, Extract(rest, name, values).rest, done \cup {name})
<1> DEFINE taken == Taken(rest, name, values)
           own == {k \in DOMAIN rest \ taken : IsOption(rest[k], name)}
<1>1. rest \in Seq(Token)
  BY PickedIs DEF Survives
<1>2. taken \in SUBSET DOMAIN rest /\ \A k \in DOMAIN rest : TakenAt(rest, name, values, taken, k)
  BY <1>1, TakenIs
<1>3. Extract(rest, name, values).rest = Picked(rest, DOMAIN rest \ (taken \cup own))
  BY DEF Extract
<1> HIDE DEF taken
<1>4. ASSUME NEW k \in taken
      PROVE  /\ k - 1 \in DOMAIN rest /\ rest[k - 1].form = "flag"
             /\ MayTake(rest[k - 1].name, rest[k])
  BY <1>2 DEF TakenAt, IsFlag
<1>5. ASSUME NEW k \in own PROVE IsOwn(rest[k])
  BY DEF IsOwn, IsOption, OwnNames
<1>6. ASSUME NEW k \in DOMAIN rest \ (taken \cup own), IsOwn(rest[k])
      PROVE  rest[k].name # name
  <2>1. rest[k] \in Token /\ rest[k].name \in OwnNames /\ ~IsOption(rest[k], name)
    BY <1>1, <1>6 DEF IsOwn
  <2>2. rest[k].form # "word"
    <3>1. Blank \notin OwnNames
      BY Zenon DEF Blank, OwnNames
    <3> QED
      BY <2>1, <3>1 DEF Token
  <2> QED
    BY <2>1, <2>2 DEF IsOption
<1>7. own \in SUBSET DOMAIN rest
  OBVIOUS
<1> HIDE DEF own
<1>8. taken \in SUBSET DOMAIN rest
  BY <1>2
<1>9. Survives(args, Picked(rest, DOMAIN rest \ (taken \cup own)), done \cup {name})
  BY <1>4, <1>5, <1>6, <1>7, <1>8, SurvivesMore
<1> QED
  BY <1>3, <1>9 DEF own

LEMMA StrictLeaves ==
    ASSUME NEW args \in Seq(Token), NEW rest, NEW done, Survives(args, rest, done)
    PROVE  Survives(args,
                    Picked(rest, {k \in DOMAIN rest : rest[k] # Flag("fail-on-report-error")}),
                    done \cup {"fail-on-report-error"})
<1> DEFINE flag == Flag("fail-on-report-error")
           own == {k \in DOMAIN rest : rest[k] = flag}
<1>1. rest \in Seq(Token)
  BY PickedIs DEF Survives
<1>2. flag = [form |-> "flag", name |-> "fail-on-report-error", text |-> "--"]
  BY DEF Flag
<1> HIDE DEF flag
<1>3. \A k \in own : IsOwn(rest[k])
  BY <1>2 DEF IsOwn, OwnNames
<1>4. ASSUME NEW k \in DOMAIN rest \ ({} \cup own), IsOwn(rest[k])
      PROVE  rest[k].name # "fail-on-report-error"
  <2> SUFFICES ASSUME rest[k].name = "fail-on-report-error" PROVE rest[k] = flag
    OBVIOUS
  <2>1. rest[k] \in Token /\ rest[k].form = "flag"
    BY <1>1, <1>4 DEF IsOwn
  <2>2. rest[k] = [form |-> rest[k].form, name |-> rest[k].name, text |-> rest[k].text]
        /\ rest[k].text = "--"
    BY <2>1 DEF Token
  <2> QED
    BY <1>2, <2>1, <2>2
<1>5. DOMAIN rest \ ({} \cup own) = {k \in DOMAIN rest : rest[k] # flag}
  OBVIOUS
<1>6. own \in SUBSET DOMAIN rest /\ {} \in SUBSET DOMAIN rest
  OBVIOUS
<1> HIDE DEF own
<1>7. Survives(args, Picked(rest, DOMAIN rest \ ({} \cup own)), done \cup {"fail-on-report-error"})
  BY <1>3, <1>4, <1>6, SurvivesMore
<1> QED
  BY <1>5, <1>7 DEF flag

-----------------------------------------------------------------------------
(***************************************************************************)
(* What has been extracted when testCommand is at a phase, and what bun is *)
(* given in the end.                                                       *)
(***************************************************************************)
Extracted ==
    CASE phase = "tier" -> {}
      [] phase = "strict" -> {"tier"}
      [] phase = "select" -> {"tier", "fail-on-report-error"}
      [] phase = "report" -> {"tier", "fail-on-report-error", "select"}
      [] phase = "video" -> {"tier", "fail-on-report-error", "select", "report"}
      [] OTHER -> {"tier", "fail-on-report-error", "select", "report", "video"}

Handed == \E rest : /\ left = BunArgs(rest, got.retries)
                    /\ Survives(input.args, rest, OwnNames)

TokensOK ==
    /\ got.retries \in STRING \cup {Unset}
    /\ IF phase \in {"configure", "register"} THEN Handed
       ELSE Survives(input.args, left, Extracted)

\* A picked text is one of the texts that were picked from.
LEMMA LastIsPicked ==
    ASSUME NEW n \in Nat, NEW s, NEW at \in SUBSET (1..n)
    PROVE  LastOf(Picked(s, at)) = Unset \/ \E i \in at : LastOf(Picked(s, at)) = s[i]
<1> DEFINE c == Cardinality(at)
           f == InOrder(at)
           p == [k \in 1..c |-> s[f[k]]]
<1>1. c \in Nat /\ f \in [1..c -> at]
  BY InOrderIs
<1> HIDE DEF c, f
<1>2. Picked(s, at) = p
  BY DEF Picked, c, f
<1>3. p \in Seq({s[i] : i \in at}) /\ Len(p) = c
  <2>1. p \in [1..c -> {s[i] : i \in at}]
    BY <1>1
  <2> QED
    BY <1>1, <2>1, SeqDef, LenProperties
<1>4. CASE c = 0
  <2>1. p = <<>>
    BY <1>3, <1>4
  <2> QED
    BY <1>2, <2>1 DEF LastOf
<1>5. CASE c # 0
  <2>1. c \in 1..c
    BY <1>1, <1>5
  <2>2. p # <<>> /\ Last(p) = s[f[c]] /\ f[c] \in at
    BY <1>1, <1>3, <1>5, <2>1 DEF Last
  <2> QED
    BY <1>2, <2>2 DEF LastOf
<1> QED
  BY <1>4, <1>5

LEMMA InitTokensOK == LInit => TokensOK
<1> SUFFICES ASSUME LInit PROVE TokensOK
  OBVIOUS
<1>1. input.args \in Seq(Token) /\ left = input.args
  BY LaunchAssumption DEF LInit
<1>2. Survives(input.args, left, {})
  BY <1>1, NothingExtracted
<1>3. got.retries = Unset
  BY DEF LInit
<1> QED
  BY <1>2, <1>3 DEF LInit, TokensOK, Extracted

LEMMA NextTokensOK == LaunchInv /\ TokensOK /\ [LNext]_lVars => TokensOK'
<1> SUFFICES ASSUME LaunchInv, TokensOK, [LNext]_lVars PROVE TokensOK'
  OBVIOUS
<1> DEFINE args == input.args
<1>1. /\ input \in Input /\ phase \in Phase /\ Fields
      /\ args \in Seq(Token) /\ input.conf["RETRIES"] \in STRING
  BY LaunchAssumption DEF LaunchInv, ToldOK, GateOK
<1>2. CASE ExtractTier
  <2> DEFINE values == AnyToken(left)
  <2>1. /\ phase = "tier" /\ phase' = "strict" /\ UNCHANGED input
        /\ left' = Extract(left, "tier", values).rest /\ got'.retries = got.retries
    BY <1>1, <1>2 DEF ExtractTier, Takes, Fields
  <2>2. Survives(args, left, {}) /\ \A t \in values : MayTake("tier", t)
    BY <2>1 DEF TokensOK, Extracted, MayTake
  <2> HIDE DEF values, args
  <2>3. Survives(args, Extract(left, "tier", values).rest, {} \cup {"tier"})
    BY <1>1, <2>2, ExtractLeaves
  <2>4. {} \cup {"tier"} = Extracted'
    BY <2>1 DEF Extracted
  <2> QED
    BY <2>1, <2>3, <2>4 DEF TokensOK, args
<1>3. CASE ExtractStrict
  <2> DEFINE still == Picked(left, {i \in DOMAIN left : left[i] # Flag("fail-on-report-error")})
             done == {"tier"}
  <2>1. /\ phase = "strict" /\ phase' = "select" /\ UNCHANGED input
        /\ left' = still /\ got'.retries = got.retries
    BY <1>1, <1>3 DEF ExtractStrict, Fields
  <2>2. Survives(args, left, done)
    BY <2>1 DEF TokensOK, Extracted
  <2>3. Survives(args, still, done \cup {"fail-on-report-error"})
    BY <1>1, <2>2, StrictLeaves
  <2>4. done \cup {"fail-on-report-error"} = Extracted'
    BY <2>1 DEF Extracted
  <2> HIDE DEF still
  <2> QED
    BY <2>1, <2>3, <2>4 DEF TokensOK
<1>4. CASE ExtractSelect
  <2> DEFINE values == NoDash(left)
             done == {"tier", "fail-on-report-error"}
  <2>1. /\ phase = "select" /\ phase' = "report" /\ UNCHANGED input
        /\ left' = Extract(left, "select", values).rest /\ got'.retries = got.retries
    BY <1>1, <1>4 DEF ExtractSelect, Takes, Fields
  <2>2. Survives(args, left, done) /\ \A t \in values : MayTake("select", t)
    BY <2>1 DEF TokensOK, Extracted, MayTake, NoDash
  <2> HIDE DEF values, args
  <2>3. Survives(args, Extract(left, "select", values).rest, done \cup {"select"})
    BY <1>1, <2>2, ExtractLeaves
  <2>4. done \cup {"select"} = Extracted'
    BY <2>1 DEF Extracted
  <2> QED
    BY <2>1, <2>3, <2>4 DEF TokensOK, args
<1>5. CASE ExtractReport
  <2> DEFINE values == HtmlWord(left)
             done == {"tier", "fail-on-report-error", "select"}
  <2>1. /\ phase = "report" /\ phase' = "video" /\ UNCHANGED input
        /\ left' = Extract(left, "report", values).rest /\ got'.retries = got.retries
    BY <1>1, <1>5 DEF ExtractReport, Takes, Fields
  <2>2. Survives(args, left, done) /\ \A t \in values : MayTake("report", t)
    BY <2>1 DEF TokensOK, Extracted, MayTake, NoDash, HtmlWord
  <2> HIDE DEF values, args
  <2>3. Survives(args, Extract(left, "report", values).rest, done \cup {"report"})
    BY <1>1, <2>2, ExtractLeaves
  <2>4. done \cup {"report"} = Extracted'
    BY <2>1 DEF Extracted
  <2> QED
    BY <2>1, <2>3, <2>4 DEF TokensOK, args
<1>6. CASE ExtractVideo
  <2> DEFINE values == NoToken(left)
             done == {"tier", "fail-on-report-error", "select", "report"}
  <2>1. /\ phase = "video" /\ phase' = "spawn" /\ UNCHANGED input
        /\ left' = Extract(left, "video", values).rest /\ got'.retries = got.retries
    BY <1>1, <1>6 DEF ExtractVideo, Takes, Fields
  <2>2. Survives(args, left, done) /\ \A t \in values : MayTake("video", t)
    BY <2>1 DEF TokensOK, Extracted, NoToken
  <2> HIDE DEF values, args
  <2>3. Survives(args, Extract(left, "video", values).rest, done \cup {"video"})
    BY <1>1, <2>2, ExtractLeaves
  <2>4. done \cup {"video"} = Extracted'
    BY <2>1 DEF Extracted
  <2> QED
    BY <2>1, <2>3, <2>4 DEF TokensOK, args
<1>7. CASE BuildEnv
  <2>1. phase = "spawn" /\ phase' = "retries" /\ UNCHANGED <<input, left, got>>
    BY <1>7 DEF BuildEnv
  <2>2. Extracted' = Extracted
    BY <2>1 DEF Extracted
  <2> QED
    BY <2>1, <2>2 DEF TokensOK
<1>8. CASE ExtractRetries
  <2> DEFINE x == Extract(left, "retries", NumberWord(left))
             numbers == {i \in DOMAIN x.vals : x.vals[i] \in DOMAIN Number}
             n == LastOf(Picked(x.vals, numbers))
             retries == IF n = Unset THEN input.conf["RETRIES"] ELSE Number[n]
             values == NumberWord(left)
             done == {"tier", "fail-on-report-error", "select", "report", "video"}
  <2>1. /\ phase = "retries" /\ phase' = "configure" /\ UNCHANGED input
        /\ left' = BunArgs(x.rest, retries) /\ got'.retries = retries
    BY <1>1, <1>8 DEF ExtractRetries, Fields
  <2>2. retries \in STRING \cup {Unset}
    <3> DEFINE taken == Taken(left, "retries", values)
               own == {i \in DOMAIN left \ taken : IsOption(left[i], "retries")}
               said == taken \cup {i \in own : left[i].form = "pair"}
               texts == [i \in DOMAIN left |->
                            IF i \in taken /\ left[i].form # "word" THEN "--" ELSE left[i].text]
    <3>1. left \in Seq(Token)
      BY <1>1, <2>1, PickedIs DEF TokensOK, Survives
    <3>2. taken \in SUBSET DOMAIN left
      BY <3>1, TakenIs
    <3>3. Len(left) \in Nat /\ said \in SUBSET (1..Len(left))
      BY <3>1, <3>2
    <3>4. x.vals = Picked(texts, said)
      BY DEF Extract
    <3> HIDE DEF said, texts, x
    <3>5. Cardinality(said) \in Nat /\ DOMAIN x.vals = 1..Cardinality(said)
      BY <3>3, <3>4, InOrderIs DEF Picked
    <3>6. numbers \in SUBSET (1..Cardinality(said))
      BY <3>5
    <3>7. n = Unset \/ \E i \in numbers : n = x.vals[i]
      <4> HIDE DEF numbers
      <4> QED
        BY <3>5, <3>6, LastIsPicked
    <3>8. n = Unset \/ n \in DOMAIN Number
      BY <3>7
    <3> HIDE DEF n
    <3> QED
      BY <1>1, <3>8, LaunchAssumption
  <2>3. Survives(args, left, done) /\ \A t \in values : MayTake("retries", t)
    BY <2>1 DEF TokensOK, Extracted, MayTake, NoDash, NumberWord
  <2>4. x.rest = Extract(left, "retries", values).rest
    OBVIOUS
  <2> HIDE DEF values, args, x, retries
  <2>5. Survives(args, Extract(left, "retries", values).rest, done \cup {"retries"})
    BY <1>1, <2>3, ExtractLeaves
  <2>6. done \cup {"retries"} = OwnNames
    BY DEF OwnNames
  <2>7. Survives(args, x.rest, OwnNames)
    BY <2>4, <2>5, <2>6
  <2> QED
    BY <2>1, <2>2, <2>7 DEF TokensOK, Handed, args
<1>9. CASE Configure
  BY <1>9 DEF Configure, TokensOK, Handed
<1>10. ASSUME NEW s \in DOMAIN Scenario, BrowserTest(s) PROVE TokensOK'
  BY <1>10 DEF BrowserTest, TokensOK, Handed, Extracted
<1>11. CASE UNCHANGED lVars
  BY <1>11 DEF lVars, TokensOK, Handed, Extracted
<1> QED
  BY <1>2, <1>3, <1>4, <1>5, <1>6, <1>7, <1>8, <1>9, <1>10, <1>11 DEF LNext, Launched

LEMMA TokensKept == LSpec => [](LaunchInv /\ TokensOK)
<1>1. LInit => LaunchInv /\ TokensOK
  BY InitLaunchInv, InitTokensOK
<1>2. LaunchInv /\ TokensOK /\ [LNext]_lVars => (LaunchInv /\ TokensOK)'
  BY NextLaunchInv, NextTokensOK
<1> QED
  BY <1>1, <1>2, PTL DEF LSpec

\* Bun gets every token that is not opice's, in order, but for what opice's flags took
\* right behind them: for command lines of any length, and whatever counts as a number
\* or as a path of a report.
THEOREM BunsTokensAreKept == LSpec => []BunsTokensSurvive
<1>1. LaunchInv /\ TokensOK => BunsTokensSurvive
  <2> SUFFICES ASSUME LaunchInv, TokensOK, phase = "configure" PROVE BunsTokensSurvive
    BY DEF BunsTokensSurvive
  <2> DEFINE args == input.args
  <2>1. args \in Seq(Token)
    BY LaunchAssumption DEF LaunchInv, GateOK
  <2>2. PICK rest : left = BunArgs(rest, got.retries) /\ Survives(args, rest, OwnNames)
    BY DEF TokensOK, Handed
  <2>3. PICK kept \in SUBSET DOMAIN args : rest = Picked(args, kept) /\ Leaves(args, kept, OwnNames)
    BY <2>2 DEF Survives
  <2>4. Len(args) \in Nat /\ kept \in SUBSET (1..Len(args))
    BY <2>1
  <2>5. \/ left = rest
        \/ /\ left = Append(rest, Pair("retry", got.retries))
           /\ \A i \in DOMAIN rest : rest[i].name # "retry"
    BY <2>2 DEF BunArgs
  <2>6. ASSUME NEW i \in kept PROVE \E k \in DOMAIN rest : rest[k] = args[i]
    <3>1. PICK k \in 1..Cardinality(kept) : InOrder(kept)[k] = i
      BY <2>4, InOrderIs
    <3> QED
      BY <2>1, <2>3, <3>1, PickedIs
  <2>7. \/ left = rest
        \/ /\ left = Append(rest, Pair("retry", got.retries))
           /\ \A i \in kept : args[i].name # "retry"
    BY <2>5, <2>6
  <2>8. \A i \in kept : ~IsOwn(args[i])
    BY <2>3 DEF Leaves, IsOwn
  <2>9. \A i \in DOMAIN args \ kept : ~IsOwn(args[i]) => WasTaken(args, kept, i)
    BY <2>3 DEF Leaves
  <2> QED
    BY <2>3, <2>7, <2>8, <2>9 DEF BunsTokensSurvive, WasTaken
<1> QED
  BY <1>1, TokensKept, PTL

\* The types of a launch, for any set of things to start from.
THEOREM LaunchTypeCorrect == LSpec => []LTypeOK
<1> DEFINE Types == /\ DOMAIN child = Var
                    /\ harness.reporter \in {"none", "noop", "file", "http"}
                    /\ harness.strict \in BOOLEAN
                    /\ DOMAIN verdict = DOMAIN Scenario
                    /\ \A s \in DOMAIN Scenario :
                           verdict[s] \in {"none", "tier", "selected", "skipped"}
<1>1. LInit => Types
  BY LaunchAssumption DEF LInit, NoHarness
<1>2. Types /\ [LNext]_lVars => Types'
  <2> SUFFICES ASSUME Types, [LNext]_lVars PROVE Types'
    OBVIOUS
  <2>1. CASE ExtractTier \/ ExtractStrict \/ ExtractSelect \/ ExtractReport \/ ExtractVideo
             \/ ExtractRetries
    <3>1. UNCHANGED <<child, harness, verdict>>
      BY <2>1 DEF ExtractTier, ExtractStrict, ExtractSelect, ExtractReport, ExtractVideo,
                  ExtractRetries
    <3> QED
      BY <3>1
  <2>2. CASE BuildEnv
    BY <2>2 DEF BuildEnv, ChildEnv
  <2>3. CASE Configure
    <3>1. ReporterFor(child, input.dsn) \in {"none", "noop", "file", "http"}
      BY DEF ReporterFor
    <3>2. IsTruthy(child["REPORT_STRICT"]) \in BOOLEAN
      BY DEF IsTruthy
    <3> QED
      BY <2>3, <3>1, <3>2 DEF Configure
  <2>4. ASSUME NEW s \in DOMAIN Scenario, BrowserTest(s) PROVE Types'
    <3>1. /\ UNCHANGED <<child, harness>>
          /\ \E v \in {"tier", "selected", "skipped"} : verdict' = [verdict EXCEPT ![s] = v]
      BY <2>4 DEF BrowserTest, DecideScenarioRun
    <3> QED
      BY <3>1
  <2>5. CASE UNCHANGED lVars
    BY <2>5 DEF lVars
  <2> QED
    BY <2>1, <2>2, <2>3, <2>4, <2>5 DEF LNext, Launched
<1>3. ASSUME LaunchInv, TokensOK, Types PROVE LTypeOK
  <2> DEFINE args == input.args
             Elem == Range(args)
  <2>1. args \in Seq(Token)
    BY <1>3, LaunchAssumption DEF LaunchInv, GateOK
  <2>2. ASSUME NEW s, NEW done, Survives(args, s, done) PROVE s \in Seq(Elem)
    <3>1. PICK kept \in SUBSET DOMAIN args : s = Picked(args, kept)
      BY <2>2 DEF Survives
    <3>2. /\ Cardinality(kept) \in Nat /\ DOMAIN s = 1..Cardinality(kept) /\ s \in Seq(Token)
          /\ \A k \in 1..Cardinality(kept) : s[k] \in Elem
      BY <2>1, <3>1, PickedIs DEF Range
    <3> HIDE DEF Elem
    <3>3. Len(s) = Cardinality(kept) /\ s \in [1..Len(s) -> Elem] /\ Len(s) \in Nat
      BY <3>2
    <3> QED
      BY <3>3, SeqDef
  <2>3. \A i \in DOMAIN left : left[i] \in Elem \cup {Pair("retry", got.retries)}
    <3>1. CASE phase \in {"configure", "register"}
      <4>1. PICK s : left = BunArgs(s, got.retries) /\ Survives(args, s, OwnNames)
        BY <1>3, <3>1 DEF TokensOK, Handed
      <4>2. s \in Seq(Elem)
        BY <2>2, <4>1
      <4>3. CASE left = s
        BY <4>2, <4>3
      <4>4. CASE left = Append(s, Pair("retry", got.retries))
        <5> DEFINE one == Pair("retry", got.retries)
        <5> HIDE DEF Elem, one
        <5>1. \A i \in DOMAIN Append(s, one) : Append(s, one)[i] \in Elem \cup {one}
          BY <4>2
        <5> QED
          BY <4>4, <5>1 DEF one
      <4> QED
        BY <4>1, <4>3, <4>4 DEF BunArgs
    <3>2. CASE phase \notin {"configure", "register"}
      <4>1. left \in Seq(Elem)
        BY <1>3, <2>2, <3>2 DEF TokensOK
      <4> HIDE DEF Elem
      <4> QED
        BY <4>1
    <3> QED
      BY <3>1, <3>2
  <2>4. ToSet(left) \subseteq ToSet(args) \cup {Pair("retry", got.retries)}
    BY <2>3 DEF ToSet, Range
  <2> QED
    BY <1>3, <2>4 DEF LTypeOK, LaunchInv, ToldOK, TokensOK
<1> HIDE DEF Types
<1> QED
  BY <1>1, <1>2, <1>3, TokensKept, PTL DEF LSpec

==============================================================================
