------------------------------- MODULE Options --------------------------------
(***************************************************************************)
(* How `opice test` takes its own options out of the command line before   *)
(* bun sees the rest, and how the CLI and the harness read settings from   *)
(* flags, the environment, opice.config.json and the DSN.                  *)
(***************************************************************************)
EXTENDS Selection, SequencesExt, FiniteSets

CONSTANTS
    Number,       \* function: the numeral of each text that Number() reads as one
    ReportPath,   \* the texts that end in .html
    Entries       \* function: the paths a text lists, separated by commas

(***************************************************************************)
(* A token of the command line: a word, a flag --name or a pair            *)
(* --name=text.                                                            *)
(***************************************************************************)
Word(text)       == [form |-> "word", name |-> Blank, text |-> text]
Flag(name)       == [form |-> "flag", name |-> name, text |-> "--"]
Pair(name, text) == [form |-> "pair", name |-> name, text |-> text]

Token ==
    {t \in [form : {"word", "flag", "pair"}, name : STRING, text : STRING] :
        (t.form = "word" => t.name = Blank) /\ (t.form = "flag" => t.text = "--")}

OwnNames == {"tier", "fail-on-report-error", "select", "report", "video", "retries"}

\* A set of positions in their order, and the elements of s there.
InOrder(at) ==
    CHOOSE f \in [1..Cardinality(at) -> at] : \A i, j \in DOMAIN f : i < j => f[i] < f[j]
Picked(s, at) == [i \in 1..Cardinality(at) |-> s[InOrder(at)[i]]]

IsFlag(t, name)     == t.form = "flag" /\ t.name = name
IsOption(t, name)   == t.form # "word" /\ t.name = name

\* Where the values of --name are: a flag takes the next token if it is among
\* `values`, unless the flag is itself a value.
Taken(args, name, values) ==
    CHOOSE at \in SUBSET DOMAIN args :
        \A i \in DOMAIN args :
            i \in at <=> /\ i - 1 \in DOMAIN args \ at
                         /\ IsFlag(args[i - 1], name) /\ args[i] \in values

\* One extractor: the values of --name and the tokens that are neither.
Extract(args, name, values) ==
    LET taken == Taken(args, name, values)
        own == {i \in DOMAIN args \ taken : IsOption(args[i], name)}
        said == taken \cup {i \in own : args[i].form = "pair"}
        texts == [i \in DOMAIN args |->
                     IF i \in taken /\ args[i].form # "word" THEN "--" ELSE args[i].text]
    IN [there |-> own # {}, vals |-> Picked(texts, said),
        rest |-> Picked(args, DOMAIN args \ (taken \cup own))]

\* What each flag takes for its value, of the tokens that are left.
AnyToken(args)   == ToSet(args)
NoToken(args)    == {}
NoDash(args)     == {t \in ToSet(args) : t.form = "word"}
\* NoDash in its place is a mutant: --report would take a test file.
HtmlWord(args)   == {t \in NoDash(args) : t.text \in ReportPath}
NumberWord(args) == {t \in NoDash(args) : t.text \in DOMAIN Number}

-----------------------------------------------------------------------------
Cred == {"PROJECT", "ENDPOINT", "CLIENT_ID", "CLIENT_SECRET"}
Var  == Cred \cup {"TIER", "REPORT_STRICT", "SELECT", "REPORT_FILE", "VIDEO",
                   "VIDEO_DIR", "REPORT", "CI"}

Falsy(v)   == v \in {Unset, Blank}
IsTruthy(v) == v = "1"
Or(a, b)   == IF a = Unset THEN b ELSE a      \* a ?? b
OrElse(a, b) == IF Falsy(a) THEN b ELSE a     \* a || b, or a spread over b when it is truthy

\* A DSN that parses gives all four credentials, any other none.
Dsn(dsn, c) == IF dsn THEN "dsn" ELSE Unset

\* The CLI's credentials: the environment, then the config, then the DSN.
CliCred(env, conf, dsn, c) ==
    Or(env[c], Or(IF c \in {"PROJECT", "ENDPOINT"} THEN conf[c] ELSE Unset, Dsn(dsn, c)))

\* The harness reads the environment alone.
HarnessCred(env, dsn, c) == Or(env[c], Dsn(dsn, c))

\* configureFromEnv: a report file wins; then all credentials and leave to report.
ReporterFor(env, dsn) ==
    LET mode == Or(env["REPORT"], "auto") IN
    IF ~Falsy(env["REPORT_FILE"]) THEN "file"
    ELSE IF \E c \in Cred : Falsy(HarnessCred(env, dsn, c)) THEN "noop"
    ELSE IF mode = "never" \/ (mode # "always" /\ Falsy(env["CI"])) THEN "noop"
    ELSE "http"

=============================================================================
