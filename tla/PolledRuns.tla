----------------------------- MODULE PolledRuns -----------------------------
(***************************************************************************)
(* What the panels of the frontend take a run to be (SupplyChainExplorer,  *)
(* ResearchCyclePanel): they ask for its status until it is a decided one, *)
(* show that one and never ask again.  So a run waits, runs and is         *)
(* decided, and stays as it was decided.                                   *)
(***************************************************************************)
CONSTANT Polled   \* runs

VARIABLE shown    \* the status a panel would be told

Waiting == {"created", "queued"}
Decided == {"completed", "needs_review", "failed"}

PollInit == shown = [r \in Polled |-> "none"]

Show(r, status) == shown' = [shown EXCEPT ![r] = status]

\* A run is there as soon as it is accepted; one of the command line runs at once.
Submit(r) ==
    /\ shown[r] = "none"
    /\ \E status \in Waiting \cup {"running"} : Show(r, status)

Begin(r) ==
    /\ shown[r] \in Waiting
    /\ Show(r, "running")

\* The answer on which polling stops.
Decide(r) ==
    /\ shown[r] \in Waiting \cup {"running"}
    /\ \E status \in Decided : Show(r, status)

PollNext == \E r \in Polled : Submit(r) \/ Begin(r) \/ Decide(r)

PollSpec == PollInit /\ [][PollNext]_shown
=============================================================================
