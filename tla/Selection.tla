------------------------------ MODULE Selection ------------------------------
(***************************************************************************)
(* Which scenarios run, and which files of the user's project are loaded:  *)
(* tier.ts, select.ts, find-file.ts and the gate of scenario.ts, as        *)
(* operators.  A path is the sequence of its segments, "" before a leading *)
(* and after a trailing slash, so /a/b is <<"", "a", "b">> and ./a/ is     *)
(* <<".", "a", "">>.                                                       *)
(***************************************************************************)
EXTENDS Naturals, Sequences

CONSTANT Odd    \* segments the pattern of captureTestFile does not match: with white
                \* space, a parenthesis or a colon, and names of files without .test.

Unset  == "(unset)"   \* an environment variable, or a setting, that is not there
NoFile == <<>>        \* no path
Blank  == ""          \* no text, and the segment beside a leading or a trailing slash

Tier      == {"critical", "standard", "extended"}
TierOrder == [critical |-> 0, standard |-> 1, extended |-> 2]

NormalizeTier(t) == IF t \in Tier THEN t ELSE "standard"

\* Unset, empty, `all`, `full` and every unknown word run everything.
SelectedTier(raw) == IF raw \in Tier THEN raw ELSE "extended"

IsTierSkipped(tier, selected) == TierOrder[tier] > TierOrder[selected]

\* Leading "./"s and one trailing slash or more are dropped.
NormalPath(p) ==
    LET Plain(k) == k = Len(p) \/ p[k] # "."
        Full(k)  == k = 1 \/ p[k] # Blank
        from == CHOOSE k \in 1..Len(p) : Plain(k) /\ \A j \in 1..(k - 1) : ~Plain(j)
        to   == CHOOSE k \in 1..Len(p) : Full(k) /\ \A j \in (k + 1)..Len(p) : ~Full(j)
    IN SubSeq(p, from, to)

EndsWith(p, q) == Len(q) < Len(p) /\ SubSeq(p, Len(p) - Len(q) + 1, Len(p)) = q

\* A mutant: an entry names a file by a path the file's path ends with, only.
OneWaySelected(file, entries) ==
    file # NoFile
    /\ \E e \in {NormalPath(x) : x \in entries} \ {NoFile} :
           e = NormalPath(file) \/ EndsWith(NormalPath(file), e)

\* The same path, either one the end of the other, or a bare name.  What normalises
\* to nothing, like ./ alone, selects nothing.
IsScenarioSelected(file, entries) ==
    LET f == NormalPath(file) IN
    /\ file # NoFile /\ f # NoFile
    /\ \E e \in {NormalPath(x) : x \in entries} \ {NoFile} :
           \/ e = f \/ EndsWith(f, e) \/ EndsWith(e, f)
           \/ Len(e) = 1 /\ e[1] = f[Len(f)]

\* Why a scenario runs, or that it is skipped: one verdict.
DecideScenarioRun(tier, selected, file, entries) ==
    IF ~IsTierSkipped(tier, selected) THEN "tier"
    ELSE IF IsScenarioSelected(file, entries) THEN "selected" ELSE "skipped"

Relative(file, cwd) ==
    IF Len(cwd) < Len(file) /\ SubSeq(file, 1, Len(cwd)) = cwd
    THEN SubSeq(file, Len(cwd) + 1, Len(file)) ELSE file

\* The path a scenario reports: relative to the working directory if below it.  The
\* pattern finds no path in a file name that is odd, and takes what follows an odd
\* directory for the whole path.
CaptureTestFile(file, cwd) ==
    LET odd == {k \in DOMAIN file : file[k] \in Odd} IN
    IF odd = {} THEN Relative(file, cwd)
    ELSE IF Len(file) \in odd THEN NoFile
    ELSE LET last == CHOOSE k \in odd : \A j \in odd : j <= k
         IN Relative(<<Blank>> \o SubSeq(file, last + 1, Len(file)), cwd)

-----------------------------------------------------------------------------
(***************************************************************************)
(* The upward search for browser-auth.ts, browser-setup.ts and the like.   *)
(* A directory is an absolute path.                                        *)
(***************************************************************************)
Upward(dir) == {SubSeq(dir, 1, k) : k \in 1..Len(dir)}

IsAncestorOrSelf(a, dir) == a \in Upward(dir)

Deepest(dirs) == CHOOSE d \in dirs : \A e \in dirs : Len(e) <= Len(d)

\* A mutant: OPICE_PROJECT_ROOT is taken at its word.
AnyRoot(start, marked, explicit) ==
    LET roots == Upward(start) \cap marked
    IN IF explicit # NoFile /\ IsAncestorOrSelf(explicit, start) THEN explicit
       ELSE IF roots = {} THEN start ELSE Deepest(roots)

\* The directory the search does not climb above.  `marked` hold a .git or a
\* package.json; `explicit` is OPICE_PROJECT_ROOT.
ProjectCeiling(start, marked, explicit) ==
    LET roots == Upward(start) \cap marked
    IN IF explicit \in roots THEN explicit
       ELSE IF roots = {} THEN start ELSE Deepest(roots)

\* The nearest of the directories that hold the file, up to the ceiling.
FindUserFile(start, marked, explicit, holders) ==
    LET ceiling == ProjectCeiling(start, marked, explicit)
        found == {d \in Upward(start) \cap holders : Len(ceiling) <= Len(d)}
    IN IF found = {} THEN NoFile ELSE Deepest(found)

=============================================================================
