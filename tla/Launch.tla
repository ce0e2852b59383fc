------------------------------- MODULE Launch --------------------------------
(***************************************************************************)
(* From the command line of `opice test` to the scenarios that run: the    *)
(* six extractors of the CLI one after the other, each on what the one     *)
(* before left, the environment of the child, the reporter the harness     *)
(* configures from it on import, and the gate of every browserTest call.   *)
(* (OpiceRun_proofs extends this module and OpiceRun, hence the L before   *)
(* the names both would have.)                                             *)
(***************************************************************************)
EXTENDS Options

CONSTANTS
    Input,      \* what a launch starts from
    Scenario,   \* function: the tier each scenario declares
    FileOf,     \* function: its file, as an absolute path
    Root        \* the root of the repository

\* Paths are sequences of segments, command lines of tokens.  A test file is known
\* by the absolute path its module was loaded from: no . in it, and a name at its
\* end.
ASSUME LaunchAssumption ==
    /\ Root \in Seq(STRING)
    /\ \A i \in Input : /\ i.args \in Seq(Token) /\ i.cwd \in Seq(STRING)
                       /\ DOMAIN i.env = Var /\ i.conf["RETRIES"] \in STRING
    /\ \A text \in DOMAIN Number : Number[text] \in STRING
    /\ \A s \in DOMAIN Scenario :
           LET f == FileOf[s] IN
           /\ f \in Seq(STRING) \ {NoFile}
           /\ \A k \in DOMAIN f : f[k] # "."
           /\ f[Len(f)] # Blank

VARIABLES
    input,      \* args, env, conf, dsn, cwd, marked, explicit, holders
    phase,      \* the step testCommand is at, then the harness
    left,       \* the command line, less what was extracted
    got,        \* what was extracted
    child,      \* the environment of `bun test`
    harness,    \* reporter, strict, and the user's browser-setup
    verdict     \* of the gate, for each scenario

lVars == <<input, phase, left, got, child, harness, verdict>>

Phase == {"tier", "strict", "select", "report", "video", "spawn", "retries",
          "configure", "register"}
NoHarness == [reporter |-> "none", strict |-> FALSE, setup |-> NoFile]

LTypeOK ==
    /\ phase \in Phase
    /\ ToSet(left) \subseteq ToSet(input.args) \cup {Pair("retry", got.retries)}
    /\ got.retries \in STRING \cup {Unset} /\ got.strict \in BOOLEAN
    /\ DOMAIN child = Var
    /\ harness.reporter \in {"none", "noop", "file", "http"}
    /\ harness.strict \in BOOLEAN
    /\ \A s \in DOMAIN Scenario : verdict[s] \in {"none", "tier", "selected", "skipped"}

LInit ==
    /\ input \in Input
    /\ phase = "tier"
    /\ left = input.args
    /\ got = [tier |-> Unset, strict |-> FALSE, select |-> {}, report |-> Unset,
              video |-> FALSE, dir |-> Unset, retries |-> Unset]
    /\ child = input.env
    /\ harness = NoHarness
    /\ verdict = [s \in DOMAIN Scenario |-> "none"]

LastOf(vals) == IF vals = <<>> THEN Unset ELSE Last(vals)

-----------------------------------------------------------------------------
(***************************************************************************)
(* The extractors, in the order testCommand calls them, each with the      *)
(* resolution that follows it: flag, then environment, then config.        *)
(***************************************************************************)
Takes(at, x) == phase = at /\ left' = x.rest

ExtractTier ==
    LET x == Extract(left, "tier", AnyToken(left)) IN
    /\ Takes("tier", x) /\ phase' = "strict"
    /\ got' = [got EXCEPT !.tier = Or(LastOf(x.vals), Or(input.env["TIER"], input.conf["TIER"]))]
    /\ UNCHANGED <<input, child, harness, verdict>>

\* Only the flag by itself.
ExtractStrict ==
    LET flag == Flag("fail-on-report-error") IN
    /\ phase = "strict" /\ phase' = "select"
    /\ left' = Picked(left, {i \in DOMAIN left : left[i] # flag})
    /\ got' = [got EXCEPT !.strict = \/ Contains(left, flag)
                                     \/ IsTruthy(input.env["REPORT_STRICT"])
                                     \/ input.conf["REPORT_STRICT"] = "1"]
    /\ UNCHANGED <<input, child, harness, verdict>>

\* The flag may be repeated; all the entries count.
ExtractSelect ==
    LET x == Extract(left, "select", NoDash(left))
        entries == UNION {Entries[v] : v \in ToSet(x.vals)} IN
    /\ Takes("select", x) /\ phase' = "report"
    /\ got' = [got EXCEPT !.select = IF entries # {} \/ Falsy(input.env["SELECT"])
                                     THEN entries ELSE Entries[input.env["SELECT"]]]
    /\ UNCHANGED <<input, child, harness, verdict>>

ExtractReport ==
    LET x == Extract(left, "report", HtmlWord(left))
        file == OrElse(LastOf(x.vals), "default.html") IN
    /\ Takes("report", x) /\ phase' = "video"
    /\ got' = [got EXCEPT !.report = IF x.there THEN file ELSE input.env["REPORT_FILE"]]
    /\ UNCHANGED <<input, child, harness, verdict>>

ExtractVideo ==
    LET x == Extract(left, "video", NoToken(left)) IN
    /\ Takes("video", x) /\ phase' = "spawn"
    /\ got' = [got EXCEPT !.video = x.there \/ IsTruthy(input.env["VIDEO"]),
                          !.dir = Or(OrElse(LastOf(x.vals), Unset), input.env["VIDEO_DIR"])]
    /\ UNCHANGED <<input, child, harness, verdict>>

\* A mutant: the child is not told of strictness the config asked for.
ChildUnstrict ==
    [v \in Var |->
        CASE v \in Cred -> OrElse(CliCred(input.env, input.conf, input.dsn, v), input.env[v])
          [] v = "TIER" -> OrElse(got.tier, input.env[v])
          [] v = "REPORT_FILE" -> OrElse(got.report, input.env[v])
          [] v = "VIDEO" -> IF got.video THEN "1" ELSE input.env[v]
          [] v = "VIDEO_DIR" -> OrElse(got.dir, input.env[v])
          [] OTHER -> input.env[v]]

\* What was resolved to something is spread over the environment of the CLI.
ChildEnv ==
    [v \in Var |->
        CASE v \in Cred -> OrElse(CliCred(input.env, input.conf, input.dsn, v), input.env[v])
          [] v = "TIER" -> OrElse(got.tier, input.env[v])
          [] v = "REPORT_STRICT" -> IF got.strict THEN "1" ELSE input.env[v]
          [] v = "REPORT_FILE" -> OrElse(got.report, input.env[v])
          [] v = "VIDEO" -> IF got.video THEN "1" ELSE input.env[v]
          [] v = "VIDEO_DIR" -> OrElse(got.dir, input.env[v])
          [] OTHER -> input.env[v]]

BuildEnv ==
    /\ phase = "spawn" /\ phase' = "retries"
    /\ child' = ChildEnv
    /\ UNCHANGED <<input, left, got, harness, verdict>>

\* bun's --retry, unless the caller passed one.
BunArgs(args, n) ==
    IF n = Unset \/ \E i \in DOMAIN args : args[i].name = "retry" THEN args
    ELSE Append(args, Pair("retry", n))

\* A value that is no number leaves the budget as it was; the flag before it is gone.
ExtractRetries ==
    LET x == Extract(left, "retries", NumberWord(left))
        numbers == {i \in DOMAIN x.vals : x.vals[i] \in DOMAIN Number}
        n == LastOf(Picked(x.vals, numbers))
        retries == IF n = Unset THEN input.conf["RETRIES"] ELSE Number[n] IN
    /\ phase = "retries" /\ phase' = "configure"
    /\ got' = [got EXCEPT !.retries = retries]
    /\ left' = BunArgs(x.rest, retries)
    /\ UNCHANGED <<input, child, harness, verdict>>

-----------------------------------------------------------------------------
(***************************************************************************)
(* The harness, in the child.                                              *)
(***************************************************************************)
Configure ==
    /\ phase = "configure" /\ phase' = "register"
    /\ harness' = [reporter |-> ReporterFor(child, input.dsn),
                   strict |-> IsTruthy(child["REPORT_STRICT"]),
                   setup |-> FindUserFile(input.cwd, input.marked, input.explicit,
                                          input.holders)]
    /\ UNCHANGED <<input, left, got, child, verdict>>

\* One browserTest call.  got.select is what OPICE_SELECT of the child says.
BrowserTest(s) ==
    /\ phase = "register" /\ verdict[s] = "none"
    /\ verdict' = [verdict EXCEPT ![s] =
           DecideScenarioRun(NormalizeTier(Scenario[s]), SelectedTier(child["TIER"]),
                             CaptureTestFile(FileOf[s], input.cwd), got.select)]
    /\ UNCHANGED <<input, phase, left, got, child, harness>>

Launched ==
    /\ \A s \in DOMAIN Scenario : verdict[s] # "none"
    /\ UNCHANGED lVars

LNext ==
    \/ ExtractTier \/ ExtractStrict \/ ExtractSelect \/ ExtractReport \/ ExtractVideo
    \/ BuildEnv \/ ExtractRetries
    \/ Configure
    \/ \E s \in DOMAIN Scenario : BrowserTest(s)
    \/ Launched

LSpec == LInit /\ [][LNext]_lVars

-----------------------------------------------------------------------------
(***************************************************************************)
(* Properties.                                                             *)
(***************************************************************************)
\* --fail-on-report-error=... is no option of opice's: bun gets it.
IsOwn(t) ==
    t.name \in OwnNames /\ (t.name = "fail-on-report-error" => t.form = "flag")

\* What a flag of opice may take.
MayTake(name, t) ==
    CASE name = "tier" -> TRUE
      [] name = "select" -> t.form = "word"
      [] name = "report" -> t.form = "word" /\ t.text \in ReportPath
      [] name = "retries" -> t.form = "word" /\ t.text \in DOMAIN Number
      [] OTHER -> FALSE

\* Bun gets every token that is not opice's, in order, but for the values opice's
\* flags took: between such a value and the flag it went to there is nothing of
\* bun's, however many extractors ran in between.  One --retry may follow, if the
\* caller gave none.
BunsTokensSurvive ==
    phase = "configure" =>
        \E kept \in SUBSET DOMAIN input.args :
            LET mine == Picked(input.args, kept) IN
            /\ \/ left = mine
               \/ /\ left = Append(mine, Pair("retry", got.retries))
                  /\ \A i \in kept : input.args[i].name # "retry"
            /\ \A i \in kept : ~IsOwn(input.args[i])
            /\ \A i \in DOMAIN input.args \ kept :
                  ~IsOwn(input.args[i]) =>
                      \E f \in 1..(i - 1) :
                          /\ input.args[f].form = "flag"
                          /\ MayTake(input.args[f].name, input.args[i])
                          /\ \A j \in (f + 1)..(i - 1) : j \notin kept

\* The CLI and its child agree on what to report: on strictness, which the CLI
\* applies to the finish and the child to the rest; on the credentials, the CLI's
\* for its warnings; and on the report file, whose parts the CLI provides for.
\* One exception: an empty text in the config, which opice init never writes, hides
\* the DSN from the CLI, and not from the child.
CliAndChildAgree ==
    phase = "register" =>
        /\ harness.strict = got.strict
        /\ \A c \in Cred : LET mine == CliCred(input.env, input.conf, input.dsn, c)
                               its == HarnessCred(child, input.dsn, c)
                           IN \/ mine = its \/ (Falsy(mine) /\ Falsy(its))
                              \/ c \in {"PROJECT", "ENDPOINT"} /\ input.conf[c] = Blank
        /\ (harness.reporter = "file") = ~Falsy(got.report)

\* A file of a list of changed files, absolute or relative to the root of the
\* repository, has its scenarios run, whatever directory the tests run in and
\* whatever the tier: if there is nothing odd in its path, see CaptureTestFile.
ChangedFilesRun ==
    \A s \in DOMAIN Scenario : \A e \in got.select :
        /\ \A k \in DOMAIN FileOf[s] : FileOf[s][k] \notin Odd
        /\ NormalPath(e) \in {FileOf[s], Relative(FileOf[s], Root)}
        => verdict[s] # "skipped"

\* The search for the user's modules never passes the root of a project on its way
\* up, unless OPICE_PROJECT_ROOT names a project around it; outside any project it
\* stays where it starts.
UserFilesAreOfTheProject ==
    LET d == harness.setup IN
    d # NoFile =>
        /\ d \in Upward(input.cwd) \cap input.holders
        /\ \/ d = input.cwd
           \/ \A m \in Upward(input.cwd) \cap input.marked :
                 Len(d) < Len(m) => input.explicit \in input.marked \cap Upward(d)
        /\ d # input.cwd => \E m \in Upward(d) : m \in input.marked

=============================================================================
