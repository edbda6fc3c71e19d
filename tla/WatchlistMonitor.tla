------------------------- MODULE WatchlistMonitor -------------------------
(***************************************************************************)
(* The watchlist scan of one company (research/monitor.py) with the stores *)
(* it writes: snapshots, changes, alerts and the monitor cursor.  Every    *)
(* durable write of a scan is a SQLite transaction of its own, so a scan   *)
(* is a process with a step per transaction; scans overlap each other (the *)
(* HTTP route, the CLI timer), the runs a user starts, and the analyst.    *)
(* All tables are keyed by ticker: companies do not interact, and one      *)
(* stands for each.                                                        *)
(***************************************************************************)
EXTENDS Integers, FiniteSets

CONSTANTS
    Scanners,            \* the _scan_ticker calls that may be in flight
    Facts,               \* what a provider may say of one component
    NoRisks,             \* the fact "the risk list is empty"
    Missing,             \* a component that was not loaded
    Undated,             \* a source whose provider gives no date
    NoSnapshot,          \* None
    Now,                 \* as_of left out of a request
    MaxTime,             \* bound: the horizon of the clock
    Histories,           \* the provider histories an instance considers
    Requests,            \* the scan requests an instance considers
    Loaders,             \* components with a loader in the shared orchestrator
    WatchComponents,     \* WatchlistItem.research_components
    Severity,            \* materiality of a change of value, per component
    MinimumMateriality,
    NoThreshold,         \* source_stale_after_days left out
    StaleAfter,          \* source_stale_after_days
    MaxRetries,
    ProvidersFail,       \* may a provider raise?
    MayAbort,            \* may a scan raise or its process die between steps?
    UserRequests,        \* the POST /research/runs requests an instance considers
    UsersCompare         \* may GET /research/changes be called?

Components == {"financials", "management", "risks"}
Materialities == {"low", "medium", "high", "unknown"}
Time == 0..MaxTime

\* A fact as a provider gives it, with the date of the filing or transcript it
\* comes from, if that has one.
Dates == Time \cup {Undated}
Observations == [fact: Facts, filed: Dates]

SnapshotRecords ==
    [asOf: Time,
     requested: SUBSET Components,
     facts: [Components -> Observations \cup {Missing}],
     workflow: BOOLEAN]

\* The identity of a source: its component and its filing.
SourceRecords == [of: Components, filed: Dates]

ChangeRecords ==
    [kind: {"value"}, of: Components, was: Observations, is: Observations]
    \cup [kind: {"coverage"}, before: SUBSET SourceRecords,
                             after: SUBSET SourceRecords]
    \cup [kind: {"stale"}, source: SourceRecords, age: Int, was: SUBSET Int]

AlertRecords == [change: ChangeRecords, snapshot: SnapshotRecords,
                 status: {"new", "acknowledged", "ignored"}]

CursorRecords == [snapshot: SnapshotRecords, lastSuccessAt: Time]

ASSUME MonitorAssumption ==
    /\ MaxTime \in Nat \ {0}
    /\ NoRisks \in Facts
    /\ Missing \notin Observations
    /\ Undated \notin Time
    /\ NoSnapshot \notin SnapshotRecords
    /\ Now \notin Time
    /\ Histories \subseteq [Components -> [Time -> Observations]]
    /\ Requests \subseteq [asOf: Time \cup {Now}, dry: BOOLEAN]
    /\ Loaders \subseteq Components
    /\ WatchComponents \subseteq Components
    /\ Severity \in [Components -> Materialities]
    /\ MinimumMateriality \in {"low", "medium", "high"}
    /\ NoThreshold \notin Nat
    /\ StaleAfter \in (Nat \ {0}) \cup {NoThreshold}
    /\ MaxRetries \in Nat
    /\ {ProvidersFail, MayAbort, UsersCompare} \subseteq BOOLEAN
    /\ UserRequests \subseteq [asOf: Time \cup {Now}, optional: SUBSET Components,
                              linked: BOOLEAN]

VARIABLES
    history,    \* what each provider says of each component at each time
    clock,      \* the latest instant any run has taken as its cutoff
    snapshots,  \* research_snapshots
    changes,    \* research_changes
    alerts,     \* research_alerts
    cursor,     \* the company's row of research_monitor_cursors
    scan        \* local state of each _scan_ticker call

stores == <<snapshots, changes, alerts, cursor>>
vars == <<history, clock, snapshots, changes, alerts, cursor, scan>>

-----------------------------------------------------------------------------
(* Snapshots and what the monitor derives from them *)

Loaded(snap) == {c \in Components : snap.facts[c] # Missing}

\* The run state of the manifest: failed when nothing was loaded.
RunState(snap) ==
    IF Loaded(snap) = {}                  THEN "failed"
    ELSE IF Loaded(snap) = snap.requested THEN "completed"
    ELSE "partial"

\* The source manifest.  Risks have a source only when a workflow run is linked,
\* and that source is the run, dated by its cutoff.
Sources(snap) ==
    LET filed  == Loaded(snap) \ {"risks"}
        linked == {c \in Loaded(snap) \ filed :
                     snap.workflow /\ snap.facts[c].fact # NoRisks}
    IN  {[of |-> c, filed |-> snap.facts[c].filed] : c \in filed}
            \cup {[of |-> c, filed |-> snap.asOf] : c \in linked}

\* A source without a date of its own gets the cutoff of the run.
SourceDate(snap, source) ==
    IF source.filed = Undated THEN snap.asOf ELSE source.filed

\* A failed risk loader and an empty risk list have the same fingerprint; the
\* dates of the sources are part of it, also those that are only the cutoff.
Fingerprint(snap) ==
    [risks   |-> IF snap.facts["risks"] = Missing
                 THEN NoRisks ELSE snap.facts["risks"].fact,
     others  |-> [c \in Components \ {"risks"} |-> snap.facts[c]],
     sources |-> {[source |-> src, date |-> SourceDate(snap, src)] :
                    src \in Sources(snap)}]

SameKey(a, b) == a.asOf = b.asOf /\ Fingerprint(a) = Fingerprint(b)

\* The evidence that is part of a change's identity: filings and transcripts
\* are dated, the evidence of a risk is the same whenever the risk appears.
Evidence(c, observation) ==
    IF c = "risks" THEN [observation EXCEPT !.filed = 0] ELSE observation

ValueChanges(prev, cur) ==
    {[kind |-> "value", of |-> c, was |-> Evidence(c, prev.facts[c]),
                                  is  |-> Evidence(c, cur.facts[c])] :
       c \in {d \in Loaded(prev) \cap Loaded(cur) :
                prev.facts[d].fact # cur.facts[d].fact}}

\* Silent as soon as any component of the current run failed or has no loader.
CoverageChanges(prev, cur) ==
    IF /\ cur.requested = Loaded(cur)
       /\ Sources(prev) \ Sources(cur) # {}
       /\ Cardinality(Sources(cur)) < Cardinality(Sources(prev))
    THEN {[kind |-> "coverage", before |-> Sources(prev), after |-> Sources(cur)]}
    ELSE {}

Age(snap, source) == snap.asOf - SourceDate(snap, source)

\* Sources over the threshold in cur that were not over it in prev.
CrossingSources(prev, cur, threshold) ==
    IF threshold = NoThreshold THEN {}
    ELSE {src \in Sources(cur) :
            /\ Age(cur, src) > threshold
            /\ src \in Sources(prev) => Age(prev, src) <= threshold}

StaleChanges(prev, cur, threshold) ==
    {[kind |-> "stale", source |-> src, age |-> Age(cur, src),
      was |-> IF src \in Sources(prev) THEN {Age(prev, src)} ELSE {}] :
       src \in CrossingSources(prev, cur, threshold)}

\* Mutant: the two snapshots swapped.
DetectChangesSwapped(prev, cur, threshold) ==
    ValueChanges(cur, prev) \cup CoverageChanges(prev, cur)
        \cup StaleChanges(prev, cur, threshold)

DetectChanges(prev, cur, threshold) ==
    ValueChanges(prev, cur) \cup CoverageChanges(prev, cur)
        \cup StaleChanges(prev, cur, threshold)

Materiality(change) ==
    IF change.kind = "value" THEN Severity[change.of] ELSE "unknown"

Rank == [low |-> 0, medium |-> 1, high |-> 2]

MeetsThreshold(change) ==
    LET m == Materiality(change)
    IN  m = "unknown" \/ Rank[m] >= Rank[MinimumMateriality]

\* list_snapshots: the snapshots that may come first, as_of ties in any order.
Latest(S) == {a \in S : \A b \in S : b.asOf <= a.asOf}

-----------------------------------------------------------------------------
(* The orchestrator *)

\* What loading the components of got yields to a run with cutoff t: the filings
\* up to the cutoff, or to the present when the cutoff is the end of a day not
\* over; the transcript and the risks as they are now, whatever the cutoff.
Observe(got, t, present) ==
    LET seen(c) == IF c = "financials" /\ t < present THEN t ELSE present
    IN  [c \in Components |-> IF c \in got THEN history[c][seen(c)] ELSE Missing]

\* The instant of a run: a fresh one when it takes the present as its cutoff.
Instant(asOf) == IF asOf = Now THEN clock + 1 ELSE clock

\* The snapshots a run may end with, given the components it has loaders for:
\* a loader that raises costs its own component only, and the risks of a linked
\* workflow run are already in hand.
RunOutcomes(asOf, requested, wired, workflow) ==
    LET cutoff == IF asOf = Now THEN clock + 1 ELSE asOf
        up     == requested \cap wired
        mayFail == IF ProvidersFail THEN up ELSE {}
        safe == IF workflow THEN {"risks"} ELSE {}
    IN  {[asOf |-> cutoff, requested |-> requested, workflow |-> workflow,
          facts |-> Observe(up \ lost, cutoff, Instant(asOf))] :
            lost \in SUBSET (mayFail \ safe)}

-----------------------------------------------------------------------------
(* The scan of one company: _scan_ticker *)

\* The steps of a scan; one that has returned, or failed, keeps no local state.
Steps == {"run", "compare", "select_snapshot", "insert_snapshot", "detect",
          "alerts", "insert_alert", "cursor"}
ScanRecords ==
    [pc: Steps \cup {"idle"},
     request: [asOf: Time \cup {Now}, dry: BOOLEAN],
     previous: SnapshotRecords \cup {NoSnapshot},
     current: SnapshotRecords \cup {NoSnapshot},
     attempt: Nat,
     pending: SUBSET ChangeRecords,
     inserting: SUBSET ChangeRecords,
     unchanged: BOOLEAN]

Idle == [pc |-> "idle", request |-> [asOf |-> Now, dry |-> FALSE],
         previous |-> NoSnapshot, current |-> NoSnapshot, attempt |-> 0,
         pending |-> {}, inserting |-> {}, unchanged |-> FALSE]

Init ==
    /\ history \in Histories
    /\ clock = 0
    /\ snapshots = {}
    /\ changes = {}
    /\ alerts = {}
    /\ cursor = {}
    /\ scan = [s \in Scanners |-> Idle]

\* The scan starts: the latest stored snapshot is its baseline.
ReadBaseline(s) ==
    /\ scan[s].pc = "idle"
    /\ \E r \in Requests,
          prev \in IF snapshots = {} THEN {NoSnapshot} ELSE Latest(snapshots) :
         scan' = [scan EXCEPT ![s] = [Idle EXCEPT !.pc = "run", !.request = r,
                                                  !.previous = prev]]
    /\ UNCHANGED <<history, clock, stores>>

\* Mutant: the loop makes one attempt too many.
RunOrchestratorOneMore(s) ==
    LET asOf == scan[s].request.asOf IN
    /\ scan[s].pc = "run"
    /\ Instant(asOf) \in Time
    /\ clock' = Instant(asOf)
    /\ \E snap \in RunOutcomes(asOf, {"financials"} \cup WatchComponents,
                               Loaders, FALSE) :
         IF RunState(snap) = "failed" /\ scan[s].attempt <= MaxRetries
         THEN scan' = [scan EXCEPT ![s].attempt = @ + 1]
         ELSE scan' = [scan EXCEPT ![s].pc = "compare", ![s].current = snap]
    /\ UNCHANGED <<history, stores>>

\* Mutant: the count starts over when the attempts are used up.
RunOrchestratorStartsOver(s) ==
    LET asOf == scan[s].request.asOf IN
    /\ scan[s].pc = "run"
    /\ Instant(asOf) \in Time
    /\ clock' = Instant(asOf)
    /\ \E snap \in RunOutcomes(asOf, {"financials"} \cup WatchComponents,
                               Loaders, FALSE) :
         IF RunState(snap) = "failed"
         THEN scan' = [scan EXCEPT ![s].attempt = IF @ < MaxRetries THEN @ + 1 ELSE 0]
         ELSE scan' = [scan EXCEPT ![s].pc = "compare", ![s].current = snap]
    /\ UNCHANGED <<history, stores>>

\* One attempt of the retry loop: only a run that loaded nothing is retried, and
\* what the last attempt loaded, be it nothing, is the snapshot of the scan.
RunOrchestrator(s) ==
    LET asOf == scan[s].request.asOf IN
    /\ scan[s].pc = "run"
    /\ Instant(asOf) \in Time
    /\ clock' = Instant(asOf)
    /\ \E snap \in RunOutcomes(asOf, {"financials"} \cup WatchComponents,
                               Loaders, FALSE) :
         IF RunState(snap) = "failed" /\ scan[s].attempt < MaxRetries
         THEN scan' = [scan EXCEPT ![s].attempt = @ + 1]
         ELSE scan' = [scan EXCEPT ![s].pc = "compare", ![s].current = snap]
    /\ UNCHANGED <<history, stores>>

Unchanged(s) ==
    /\ scan[s].previous # NoSnapshot
    /\ Fingerprint(scan[s].previous) = Fingerprint(scan[s].current)

\* Same sources as the baseline: nothing to store but the cursor.
CompareUnchanged(s) ==
    /\ scan[s].pc = "compare"
    /\ Unchanged(s)
    /\ scan' = [scan EXCEPT
                  ![s] = IF @.request.dry THEN Idle
                         ELSE [@ EXCEPT !.pc = "cursor", !.unchanged = TRUE]]
    /\ UNCHANGED <<history, clock, stores>>

\* A dry run computes its changes for the answer and writes nothing.
CompareChanged(s) ==
    /\ scan[s].pc = "compare"
    /\ ~Unchanged(s)
    /\ scan' = [scan EXCEPT
                  ![s] = IF @.request.dry THEN Idle
                         ELSE [@ EXCEPT !.pc = "select_snapshot"]]
    /\ UNCHANGED <<history, clock, stores>>

\* Mutant: detection starts before the snapshot is stored.
SelectSnapshotUnstored(s) ==
    LET same == {snap \in snapshots : SameKey(snap, scan[s].current)} IN
    /\ scan[s].pc = "select_snapshot"
    /\ \/ /\ same = {}
          /\ scan' = [scan EXCEPT ![s].pc = "detect"]
       \/ \E snap \in same :
             scan' = [scan EXCEPT ![s].pc = "detect", ![s].current = snap]
    /\ UNCHANGED <<history, clock, stores>>

\* save_snapshot reads first: a stored row with the same key is used instead.
SelectSnapshot(s) ==
    LET same == {snap \in snapshots : SameKey(snap, scan[s].current)} IN
    /\ scan[s].pc = "select_snapshot"
    /\ \/ /\ same = {}
          /\ scan' = [scan EXCEPT ![s].pc = "insert_snapshot"]
       \/ \E snap \in same :
             scan' = [scan EXCEPT ![s].pc = "detect", ![s].current = snap]
    /\ UNCHANGED <<history, clock, stores>>

\* The INSERT fails on the UNIQUE key when another run stored it meanwhile.
InsertSnapshot(s) ==
    /\ scan[s].pc = "insert_snapshot"
    /\ IF \E snap \in snapshots : SameKey(snap, scan[s].current)
       THEN /\ scan' = [scan EXCEPT ![s] = Idle]
            /\ UNCHANGED snapshots
       ELSE /\ snapshots' = snapshots \cup {scan[s].current}
            /\ scan' = [scan EXCEPT ![s].pc = "detect"]
    /\ UNCHANGED <<history, clock, changes, alerts, cursor>>

\* Changes are looked for only against an older baseline.
Comparable(s) ==
    /\ scan[s].previous # NoSnapshot
    /\ scan[s].previous.asOf < scan[s].current.asOf

SkipDetection(s) ==
    /\ scan[s].pc = "detect"
    /\ ~Comparable(s)
    /\ scan' = [scan EXCEPT ![s].pc = "cursor"]
    /\ UNCHANGED <<history, clock, stores>>

\* Mutant: the change set is not committed before its alerts.
SaveChangeSetUncommitted(s) ==
    /\ scan[s].pc = "detect"
    /\ Comparable(s)
    /\ LET found == DetectChanges(scan[s].previous, scan[s].current, StaleAfter)
       IN  scan' = [scan EXCEPT
                      ![s].pc = "alerts",
                      ![s].pending = {ch \in found : MeetsThreshold(ch)}]
    /\ UNCHANGED <<history, clock, stores>>

\* save_change_set: one transaction, changes already stored are left alone.
SaveChangeSet(s) ==
    /\ scan[s].pc = "detect"
    /\ Comparable(s)
    /\ LET found == DetectChanges(scan[s].previous, scan[s].current, StaleAfter)
       IN  /\ changes' = changes \cup found
           /\ scan' = [scan EXCEPT
                         ![s].pc = "alerts",
                         ![s].pending = {ch \in found : MeetsThreshold(ch)}]
    /\ UNCHANGED <<history, clock, snapshots, alerts, cursor>>

\* create_for_change reads first: one alert per change, whatever its status.
SelectAlert(s) ==
    /\ scan[s].pc = "alerts"
    /\ \E ch \in scan[s].pending :
         scan' = IF \E a \in alerts : a.change = ch
                 THEN [scan EXCEPT ![s].pending = @ \ {ch}]
                 ELSE [scan EXCEPT ![s].pc = "insert_alert",
                                   ![s].pending = @ \ {ch}, ![s].inserting = {ch}]
    /\ UNCHANGED <<history, clock, stores>>

\* Mutant: change_id is not UNIQUE.
InsertAlertTwice(s) ==
    /\ scan[s].pc = "insert_alert"
    /\ \E ch \in scan[s].inserting :
         /\ alerts' = alerts \cup {[change |-> ch, status |-> "new",
                                    snapshot |-> scan[s].current]}
         /\ scan' = [scan EXCEPT ![s].pc = "alerts", ![s].inserting = {}]
    /\ UNCHANGED <<history, clock, snapshots, changes, cursor>>

\* Mutant: INSERT OR REPLACE, which also replaces the analyst's decision.
InsertAlertOrReplace(s) ==
    /\ scan[s].pc = "insert_alert"
    /\ \E ch \in scan[s].inserting :
         /\ alerts' = {a \in alerts : a.change # ch}
                         \cup {[change |-> ch, status |-> "new",
                                snapshot |-> scan[s].current]}
         /\ scan' = [scan EXCEPT ![s].pc = "alerts", ![s].inserting = {}]
    /\ UNCHANGED <<history, clock, snapshots, changes, cursor>>

\* Mutant: the loop over the changes does not advance past an inserted alert.
InsertAlertStuck(s) ==
    /\ scan[s].pc = "insert_alert"
    /\ \E ch \in scan[s].inserting :
         /\ alerts' = alerts \cup {[change |-> ch, status |-> "new",
                                    snapshot |-> scan[s].current]}
         /\ scan' = [scan EXCEPT ![s].inserting = {}]
    /\ UNCHANGED <<history, clock, snapshots, changes, cursor>>

\* The INSERT fails on the UNIQUE change_id when another scan alerted meanwhile.
InsertAlert(s) ==
    /\ scan[s].pc = "insert_alert"
    /\ \E ch \in scan[s].inserting :
         IF \E a \in alerts : a.change = ch
         THEN /\ scan' = [scan EXCEPT ![s] = Idle]
              /\ UNCHANGED alerts
         ELSE /\ alerts' = alerts \cup {[change |-> ch, status |-> "new",
                                          snapshot |-> scan[s].current]}
              /\ scan' = [scan EXCEPT ![s].pc = "alerts", ![s].inserting = {}]
    /\ UNCHANGED <<history, clock, snapshots, changes, cursor>>

\* Mutant: the loop over the changes is left early.
AlertsDoneEarly(s) ==
    /\ scan[s].pc = "alerts"
    /\ scan' = [scan EXCEPT ![s].pc = "cursor"]
    /\ UNCHANGED <<history, clock, stores>>

AlertsDone(s) ==
    /\ scan[s].pc = "alerts"
    /\ scan[s].pending = {}
    /\ scan' = [scan EXCEPT ![s].pc = "cursor"]
    /\ UNCHANGED <<history, clock, stores>>

\* Mutant: an unchanged scan names the snapshot it did not store.
TargetCurrent(s) == scan[s].current

\* Mutant: the cursor always names the baseline, also when there is none.
TargetPrevious(s) == scan[s].previous

\* The cursor names the snapshot the scan ended on, and now as a success.
Target(s) ==
    IF scan[s].unchanged THEN scan[s].previous ELSE scan[s].current

SaveCursor(s) ==
    /\ scan[s].pc = "cursor"
    /\ cursor' = {[snapshot |-> Target(s), lastSuccessAt |-> clock]}
    /\ scan' = [scan EXCEPT ![s] = Idle]
    /\ UNCHANGED <<history, clock, snapshots, changes, alerts>>

\* A statement of the scan raises, or its process dies: local state is gone.
Abort(s) ==
    /\ MayAbort
    /\ scan[s].pc \in Steps
    /\ scan' = [scan EXCEPT ![s] = Idle]
    /\ UNCHANGED <<history, clock, stores>>

-----------------------------------------------------------------------------
(* What else writes the same tables: api/research.py *)

\* POST /research/runs and the workflow hook: a snapshot, no detection.  Risks
\* are loaded from the linked workflow run or not at all.
PersistRun ==
    /\ \E r \in UserRequests :
         /\ Instant(r.asOf) \in Time
         /\ clock' = Instant(r.asOf)
         /\ \E snap \in RunOutcomes(r.asOf, {"financials"} \cup r.optional,
                    IF r.linked THEN Loaders \cup {"risks"} ELSE Loaders, r.linked) :
              snapshots' = IF \E old \in snapshots : SameKey(old, snap)
                           THEN snapshots ELSE snapshots \cup {snap}
    /\ UNCHANGED <<history, changes, alerts, cursor, scan>>

\* GET /research/changes: two stored snapshots, the latest two or those the
\* caller names, are compared and the change set is stored.
ViewChanges ==
    /\ UsersCompare
    /\ \E prev, cur \in snapshots :
         /\ prev.asOf < cur.asOf
         /\ changes' = changes \cup DetectChanges(prev, cur, NoThreshold)
    /\ UNCHANGED <<history, clock, snapshots, alerts, cursor, scan>>

\* POST /research/alerts/{id}/action, at any time and from any status.
ActOnAlert ==
    /\ \E a \in alerts, status \in {"acknowledged", "ignored"} :
         alerts' = (alerts \ {a}) \cup {[a EXCEPT !.status = status]}
    /\ UNCHANGED <<history, clock, snapshots, changes, cursor, scan>>

\* Time passes.
Tick ==
    /\ clock < MaxTime
    /\ clock' = clock + 1
    /\ UNCHANGED <<history, stores, scan>>

-----------------------------------------------------------------------------
ScanStep(s) ==
    \/ RunOrchestrator(s) \/ CompareUnchanged(s) \/ CompareChanged(s)
    \/ SelectSnapshot(s) \/ InsertSnapshot(s) \/ SkipDetection(s)
    \/ SaveChangeSet(s) \/ SelectAlert(s) \/ InsertAlert(s) \/ AlertsDone(s)
    \/ SaveCursor(s)

Next ==
    \/ \E s \in Scanners : ReadBaseline(s) \/ ScanStep(s) \/ Abort(s)
    \/ PersistRun \/ ViewChanges \/ ActOnAlert \/ Tick

Spec == Init /\ [][Next]_vars

\* A thread of the pool keeps running until its scan returns.
FairSpec == Spec /\ \A s \in Scanners : WF_vars(ScanStep(s))
-----------------------------------------------------------------------------
(* Properties *)

Returned(s) == scan[s] = Idle

\* Shapes of the rows of each table and of each scan's local state.
TypeOK ==
    /\ history \in [Components -> [Time -> Observations]]
    /\ clock \in Time
    /\ snapshots \subseteq SnapshotRecords
    /\ changes \subseteq ChangeRecords
    /\ alerts \subseteq AlertRecords
    /\ cursor \subseteq CursorRecords
    /\ scan \in [Scanners -> ScanRecords]

\* Every stored change is one the detector finds between two stored snapshots,
\* the older one first, however scans, user runs and reviews interleave.
ChangesExplained ==
    \A ch \in changes : \E p, q \in snapshots :
        /\ p.asOf < q.asOf
        /\ ch \in DetectChanges(p, q, StaleAfter)

\* A stored change of value has the direction of the world: the company's facts
\* did go from "was" to "is".  Also what the detector asserts of its arguments,
\* "current snapshot must be newer than previous snapshot" (change_detection.py:69).
ChangesFollowHistory ==
    \A ch \in changes :
        ch.kind = "value" =>
            \E t, u \in Time : /\ t < u
                              /\ history[ch.of][t].fact = ch.was.fact
                              /\ history[ch.of][u].fact = ch.is.fact

\* An alert never outruns what it reports: its change and its snapshot are
\* already stored, also when the scan dies between any two of its writes.
AlertsBacked ==
    \A a \in alerts : /\ a.change \in changes
                      /\ a.snapshot \in snapshots
                      /\ MeetsThreshold(a.change)

\* What a scan carries from step to step agrees with the tables it will write,
\* whatever others wrote meanwhile: its baseline is stored; its snapshot is, once
\* it detects changes; so are the changes it still has to alert, and the
\* snapshot its cursor is going to name.
Consistent(r, snaps, chs) ==
    /\ r.previous # NoSnapshot => r.previous \in snaps
    /\ r.pc \in Steps \ {"run"} => r.current # NoSnapshot
    /\ r.pc \in {"detect", "alerts", "insert_alert"} => r.current \in snaps
    /\ r.pc = "cursor" => IF r.unchanged THEN r.previous \in snaps
                                        ELSE r.current \in snaps
    /\ r.unchanged => r.pc = "cursor"
    /\ r.pending \cup r.inserting \subseteq {ch \in chs : MeetsThreshold(ch)}

ScansConsistent ==
    \A s \in Scanners : Consistent(scan[s], snapshots, changes)

\* Overlapping scans that detect one change alert it once.
OneAlertPerChange ==
    \A a, b \in alerts : a.change = b.change => a = b

\* The cursor always names a snapshot that can be fetched.
CursorOnStoredSnapshot ==
    \A c \in cursor : c.snapshot \in snapshots

\* A scan that compared two snapshots moves the cursor, and with it the company's
\* last success, only when all that the two differ in is stored and the material
\* part of it alerted, by itself or by an overlapping scan, whatever the analyst
\* did to those alerts meanwhile.  What is lost is lost by scans that end before.
CursorAfterAlerts ==
    \A s \in Scanners :
        scan[s].pc = "cursor" /\ ~scan[s].unchanged /\ Comparable(s) =>
            \A ch \in DetectChanges(scan[s].previous, scan[s].current, StaleAfter) :
                /\ ch \in changes
                /\ MeetsThreshold(ch) => \E a \in alerts : a.change = ch

CursorHolds == CursorOnStoredSnapshot /\ CursorAfterAlerts

\* Every alert is still there after, and none that was decided is new again.
DecisionsKept(before, after) ==
    \A a \in before : \E b \in after :
        /\ b.change = a.change
        /\ a.status # "new" => b.status # "new"

\* An alert the analyst has dealt with never comes back as new, nor goes away.
DecisionsStand == [][DecisionsKept(alerts, alerts')]_alerts

\* p and q are stored snapshots with none between them.
Successive(p, q) ==
    /\ p.asOf < q.asOf
    /\ ~ \E m \in snapshots : p.asOf < m.asOf /\ m.asOf < q.asOf

\* When one scan at a time runs and is not cut short, no material change of fact
\* between successive stored snapshots goes without an alert, whichever of the
\* providers fail and are retried.  A component that failed to load is in
\* neither of the comparisons its snapshot takes part in.
NoLostChange ==
    (\A s \in Scanners : Returned(s)) =>
        \A p, q \in snapshots :
            Successive(p, q) =>
                \A ch \in ValueChanges(p, q) :
                    MeetsThreshold(ch) => \E a \in alerts : a.change = ch

\* A scan that has started returns, whatever loaders, retries and the analyst
\* do, unless the instance has no instant left for its cutoff.
ScansReturn ==
    \A s \in Scanners :
        scan[s].pc \in Steps ~>
            \/ Returned(s)
            \/ scan[s].pc = "run" /\ Instant(scan[s].request.asOf) \notin Time

\* How far a scan is from its end: the steps before it, and at one that repeats
\* the attempts, or the changes to alert, it still has.
Stage == [run |-> 7, compare |-> 6, select_snapshot |-> 5, insert_snapshot |-> 4,
          detect |-> 3, alerts |-> 2, insert_alert |-> 2, cursor |-> 1, idle |-> 0]

Left(r) ==
    IF r.pc = "run" THEN MaxRetries - r.attempt
                    ELSE 2 * Cardinality(r.pending) + Cardinality(r.inserting)

Nearer(r, q) ==
    \/ Stage[r.pc] < Stage[q.pc]
    \/ Stage[r.pc] = Stage[q.pc] /\ Left(r) \in 0..(Left(q) - 1)

\* Every step of a scan that has started takes it nearer to its end, whatever
\* providers, overlapping scans and the analyst do: none of its loops can turn
\* for ever, nor make an attempt more than it was given.
ScansGetNearer ==
    [][\A s \in Scanners :
         scan[s].pc \in Steps /\ scan'[s] # scan[s] => Nearer(scan'[s], scan[s])]_scan

\* docs/guides/research-cycle.md:126, "a source that first crosses the threshold
\* produces an evidence change": so for every scan that is about to return.
StaleCrossingRecorded ==
    \A s \in Scanners :
        scan[s].pc = "cursor" /\ scan[s].previous # NoSnapshot =>
            \A src \in CrossingSources(scan[s].previous, scan[s].current, StaleAfter) :
                \E ch \in changes : ch.kind = "stale" /\ ch.source = src

\* docs/guides/research-cycle.md:130, "while the source fingerprint does not
\* change a repeated scan produces no new snapshot".
RepeatScanAddsNoSnapshot ==
    \A p, q \in snapshots :
        p.asOf < q.asOf /\ Fingerprint(p) = Fingerprint(q) =>
            \E m \in snapshots : /\ p.asOf < m.asOf
                                 /\ m.asOf < q.asOf
                                 /\ Fingerprint(m) # Fingerprint(p)

=============================================================================
