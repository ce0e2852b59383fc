----------------------------- MODULE RunLifecycle -----------------------------
(***************************************************************************)
(* What the platform promises about a run, to the CLI that finishes it and *)
(* to the reader of the dashboard: it is opened once, fed any number of    *)
(* scenarios, and ends by a verdict or by being given up.  A verdict may   *)
(* be taken again, on a repeated finish; giving up is for ever; and a run  *)
(* that never had a scenario never passes.                                 *)
(***************************************************************************)
CONSTANT Run

VARIABLES
    life,     \* where each run is
    peopled   \* whether it ever had a scenario

Verdict == {"passed", "failed"}
Life    == {"none", "open", "given up"} \cup Verdict

Init ==
    /\ life = [r \in Run |-> "none"]
    /\ peopled = [r \in Run |-> FALSE]

Open(r) ==
    /\ life[r] = "none"
    /\ life' = [life EXCEPT ![r] = "open"]
    /\ UNCHANGED peopled

Feed(r) ==
    /\ life[r] # "none"
    /\ peopled' = [peopled EXCEPT ![r] = TRUE]
    /\ UNCHANGED life

Close(r, v) ==
    /\ life[r] \in {"open"} \cup Verdict
    /\ v = "passed" => peopled[r]
    /\ life' = [life EXCEPT ![r] = v]
    /\ UNCHANGED peopled

\* The reaper's round takes any number of runs at once.
GiveUp(gone) ==
    /\ \A r \in gone : life[r] = "open"
    /\ life' = [r \in Run |-> IF r \in gone THEN "given up" ELSE life[r]]
    /\ UNCHANGED peopled

Next ==
    \/ \E r \in Run : Open(r) \/ Feed(r)
    \/ \E r \in Run, v \in Verdict : Close(r, v)
    \/ \E gone \in SUBSET Run : GiveUp(gone)

Spec == Init /\ [][Next]_<<life, peopled>>

=============================================================================
