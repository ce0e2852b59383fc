------------------------------- MODULE MCLaunch -------------------------------
(***************************************************************************)
(* Small instances of Launch for TLC: every command line of up to four     *)
(* tokens in one environment, every environment with the single flags, and *)
(* every layout of project markers around one working directory.           *)
(***************************************************************************)
EXTENDS Launch

\* Number("") is 0.
MCNumber     == [t \in {"", "2"} |-> IF t = "2" THEN "2" ELSE "0"]
MCReportPath == {"out.html", "default.html"}

Repo == <<"", "repo">>
MCRoot == Repo
\* A directory with a space, and a file without .test.
MCOdd == {"my dir", "helper"}
MCFileOf == [core |-> Repo \o <<"helper">>, plain |-> Repo \o <<"pkg", "plain.test">>,
             slow |-> Repo \o <<"slow.test">>, spaced |-> Repo \o <<"my dir", "late.test">>]
MCScenario == [core |-> "critical", plain |-> "typo", slow |-> "extended",
               spaced |-> "standard"]

\* Entries as git prints them, with a leading ./, a bare name, and ./ alone.
MCEntries ==
    [t \in {"", "changed", "plain.test", "critical", "2", "out.html"} |->
        CASE t = "" -> {}
          [] t = "changed" -> {<<"pkg", "plain.test">>, <<".", ".", "slow.test">>,
                               <<".", "">>, <<"my dir", "late.test">>, <<"helper">>}
          [] OTHER -> {<<t>>}]

Tokens == {Word("plain.test"), Word("critical"), Word("2"), Word("out.html"),
           Flag("bail"), Pair("retry", "1"),
           Flag("tier"), Flag("fail-on-report-error"), Flag("select"), Flag("report"),
           Flag("video"), Flag("retries"), Pair("retries", "")}
Pairs  == {Pair("tier", "critical"), Pair("tier", ""), Pair("tier", "typo"),
           Pair("select", "changed"), Pair("select", ""), Pair("report", ""),
           Pair("retries", "2"), Pair("retries", "typo"), Pair("video", "dir"),
           Pair("fail-on-report-error", "1")}

Lines(set, n) == UNION {[1..k -> set] : k \in 0..n}

BareEnv  == [v \in Var |-> Unset]
BareConf == [v \in {"PROJECT", "ENDPOINT", "TIER", "REPORT_STRICT", "RETRIES"} |-> Unset]

\* Where a launch takes place if the input does not say otherwise.
Launching(args, env, conf) ==
    [args |-> args, env |-> env, conf |-> conf, dsn |-> FALSE, cwd |-> Repo,
     marked |-> {Repo}, explicit |-> NoFile, holders |-> {Repo}]

Few == {Word("plain.test"), Word("2"), Flag("bail"), Flag("tier"), Flag("select"),
        Flag("fail-on-report-error"), Flag("retries")}

ByLine == {Launching(a, BareEnv, BareConf) : a \in Lines(Tokens, 3) \cup [1..4 -> Few]}

\* The credentials, together or torn between the sources, and leave to report.
Envs == {[BareEnv EXCEPT !["CLIENT_SECRET"] = secret, !["ENDPOINT"] = endpoint,
                         !["REPORT_FILE"] = file, !["CI"] = ci, !["REPORT"] = mode] :
            secret, endpoint \in {Unset, "", "env"}, file \in {Unset, "out.html"},
            ci \in {Unset, "1"}, mode \in {Unset, "never", "always"}}
Confs == {BareConf, [BareConf EXCEPT !["PROJECT"] = "conf"],
          [BareConf EXCEPT !["PROJECT"] = ""],
          [BareConf EXCEPT !["PROJECT"] = "conf", !["ENDPOINT"] = "conf"]}
ByCredential == {[Launching(<<>>, e, c) EXCEPT !.dsn = dsn] :
                     e \in Envs, c \in Confs, dsn \in BOOLEAN}

\* What flags, environment and config say of the same setting.
Settings == {[BareEnv EXCEPT !["TIER"] = tier, !["REPORT_STRICT"] = strict, !["SELECT"] = select] :
                tier \in {Unset, "", "standard"}, strict \in {Unset, "0", "1"},
                select \in {Unset, "changed"}}
BySetting == {[Launching(a, e, c) EXCEPT !.cwd = Repo \o <<"pkg">>] :
                  a \in Lines(Pairs \cup {Flag("report"), Flag("fail-on-report-error")}, 1),
                  e \in Settings,
                  c \in {BareConf, [BareConf EXCEPT !["TIER"] = "critical",
                                        !["REPORT_STRICT"] = "1", !["RETRIES"] = "1"]}}

Dirs == Upward(Repo \o <<"pkg", "deep">>)
ByPlace == {[Launching(<<Pair("tier", "critical"), Pair("select", "changed")>>, BareEnv, BareConf)
                EXCEPT !.cwd = cwd, !.marked = marked, !.explicit = explicit,
                       !.holders = holders] :
                cwd \in Dirs \cup {Repo \o <<"other">>},
                marked \in SUBSET Dirs, holders \in SUBSET Dirs,
                explicit \in {NoFile} \cup Dirs}

MCInput == ByLine \cup ByCredential \cup BySetting \cup ByPlace

=============================================================================
