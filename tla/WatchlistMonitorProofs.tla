----------------------- MODULE WatchlistMonitorProofs -----------------------
(***************************************************************************)
(* What holds of the monitor for every set of overlapping scans, every     *)
(* history of the providers, every horizon, and with scans that may die    *)
(* between any two of their writes.                                        *)
(***************************************************************************)
EXTENDS WatchlistMonitor, DataInduction

-----------------------------------------------------------------------------
(* Typing of what a scan derives from snapshots *)

LEMMA LoadedType ==
    ASSUME NEW snap \in SnapshotRecords, NEW c \in Loaded(snap)
    PROVE  c \in Components /\ snap.facts[c] \in Observations
BY DEF Loaded, SnapshotRecords

LEMMA SourcesType ==
    ASSUME NEW snap \in SnapshotRecords
    PROVE  Sources(snap) \subseteq SourceRecords
<1>1. snap.asOf \in Time
  BY DEF SnapshotRecords
<1>2. \A c \in Loaded(snap) : c \in Components /\ snap.facts[c].filed \in Dates
  BY LoadedType DEF Observations
<1>3. QED
  BY <1>1, <1>2 DEF Sources, SourceRecords, Dates

LEMMA AgeType ==
    ASSUME NEW snap \in SnapshotRecords, NEW src \in SourceRecords
    PROVE  Age(snap, src) \in Int
BY MonitorAssumption DEF Age, SourceDate, SnapshotRecords, SourceRecords, Dates, Time

\* The detector returns change records: whatever the two snapshots hold.
LEMMA DetectChangesType ==
    ASSUME NEW p \in SnapshotRecords, NEW q \in SnapshotRecords, NEW h
    PROVE  DetectChanges(p, q, h) \subseteq ChangeRecords
<1>1. ValueChanges(p, q) \subseteq ChangeRecords
  <2> SUFFICES ASSUME NEW c \in Loaded(p) \cap Loaded(q)
      PROVE  [kind |-> "value", of |-> c, was |-> Evidence(c, p.facts[c]),
              is |-> Evidence(c, q.facts[c])] \in ChangeRecords
    BY DEF ValueChanges
  <2>1. c \in Components /\ p.facts[c] \in Observations /\ q.facts[c] \in Observations
    BY LoadedType
  <2>2. 0 \in Time
    BY MonitorAssumption DEF Time
  <2>3. Evidence(c, p.facts[c]) \in Observations /\ Evidence(c, q.facts[c]) \in Observations
    BY <2>1, <2>2 DEF Evidence, Observations, Dates
  <2>4. QED
    BY <2>1, <2>3 DEF ChangeRecords
<1>2. CoverageChanges(p, q) \subseteq ChangeRecords
  BY SourcesType DEF CoverageChanges, ChangeRecords
<1>3. StaleChanges(p, q, h) \subseteq ChangeRecords
  <2> SUFFICES ASSUME NEW src \in Sources(q)
      PROVE  [kind |-> "stale", source |-> src, age |-> Age(q, src),
              was |-> IF src \in Sources(p) THEN {Age(p, src)} ELSE {}]
                 \in ChangeRecords
    BY DEF StaleChanges, CrossingSources
  <2>1. src \in SourceRecords
    BY SourcesType
  <2>2. Age(q, src) \in Int /\ Age(p, src) \in Int
    BY <2>1, AgeType
  <2>3. QED
    BY <2>1, <2>2 DEF ChangeRecords
<1>4. QED
  BY <1>1, <1>2, <1>3 DEF DetectChanges

\* Without a threshold the detector finds no more than with one.
LEMMA DetectWithoutThreshold ==
    ASSUME NEW p, NEW q
    PROVE  DetectChanges(p, q, NoThreshold) \subseteq DetectChanges(p, q, StaleAfter)
BY DEF DetectChanges, StaleChanges, CrossingSources

LEMMA RunOutcomesType ==
    ASSUME TypeOK, NEW asOf \in Time \cup {Now}, Instant(asOf) \in Time,
           NEW requested \in SUBSET Components, NEW wired, NEW workflow \in BOOLEAN
    PROVE  RunOutcomes(asOf, requested, wired, workflow) \subseteq SnapshotRecords
<1> DEFINE cutoff == IF asOf = Now THEN clock + 1 ELSE asOf
<1>1. cutoff \in Time /\ Instant(asOf) \in Time
  BY DEF Instant
<1>2. ASSUME NEW got
      PROVE  Observe(got, cutoff, Instant(asOf))
                \in [Components -> Observations \cup {Missing}]
  BY <1>1 DEF Observe, TypeOK
<1>3. ASSUME NEW snap \in RunOutcomes(asOf, requested, wired, workflow)
      PROVE  snap \in SnapshotRecords
  <2>1. PICK got : snap = [asOf |-> cutoff, requested |-> requested,
                           workflow |-> workflow,
                           facts |-> Observe(got, cutoff, Instant(asOf))]
    BY <1>3 DEF RunOutcomes
  <2>2. Observe(got, cutoff, Instant(asOf))
           \in [Components -> Observations \cup {Missing}]
    BY <1>2
  <2> HIDE DEF cutoff
  <2>3. QED
    BY <1>1, <2>1, <2>2 DEF SnapshotRecords
<1>4. QED
  BY <1>3

-----------------------------------------------------------------------------
(* Types *)

LEMMA IdleType == Idle \in ScanRecords
BY DEF Idle, ScanRecords, Steps

LEMMA InitType == Init => TypeOK
BY IdleType, MonitorAssumption DEF Init, TypeOK, Time

-----------------------------------------------------------------------------
(* The inductive invariant *)

IInv ==
    /\ TypeOK
    /\ ScansConsistent
    /\ ChangesExplained
    /\ AlertsBacked
    /\ OneAlertPerChange
    /\ CursorOnStoredSnapshot

\* Snapshots and changes are only ever added: what a scan relied on stays.
LEMMA ConsistentMonotone ==
    ASSUME NEW r, NEW S, NEW T, NEW C, NEW D,
           Consistent(r, S, C), S \subseteq T, C \subseteq D
    PROVE  Consistent(r, T, D)
BY DEF Consistent

\* A step that changes the local state of one scan and no table.
LEMMA LocalStep ==
    ASSUME IInv, NEW s \in Scanners, NEW r \in ScanRecords,
           Consistent(r, snapshots, changes),
           scan' = [scan EXCEPT ![s] = r],
           clock' \in Time, history' = history, UNCHANGED stores
    PROVE  IInv'
<1> USE DEF IInv, stores
<1>1. TypeOK'
  BY DEF TypeOK
<1>2. ScansConsistent'
  BY DEF ScansConsistent, TypeOK
<1>3. ChangesExplained' /\ AlertsBacked' /\ OneAlertPerChange' /\ CursorOnStoredSnapshot'
  BY DEF ChangesExplained, AlertsBacked, OneAlertPerChange, CursorOnStoredSnapshot
<1>4. QED
  BY <1>1, <1>2, <1>3

LEMMA InitInv == Init => IInv
<1> SUFFICES ASSUME Init PROVE IInv
  OBVIOUS
<1>1. TypeOK
  BY InitType
<1>2. Consistent(Idle, snapshots, changes)
  BY DEF Consistent, Idle, Steps
<1>3. QED
  BY <1>1, <1>2 DEF Init, IInv, ScansConsistent, ChangesExplained, AlertsBacked,
                    OneAlertPerChange, CursorOnStoredSnapshot

LEMMA BackToIdle ==
    ASSUME IInv, NEW s \in Scanners, scan' = [scan EXCEPT ![s] = Idle],
           UNCHANGED <<history, clock, stores>>
    PROVE  IInv'
<1>1. Consistent(Idle, snapshots, changes)
  BY DEF Consistent, Idle, Steps
<1>2. clock' \in Time
  BY DEF IInv, TypeOK
<1>3. QED
  BY <1>1, <1>2, IdleType, LocalStep

LEMMA ReadBaselineInv ==
    ASSUME IInv, NEW s \in Scanners, ReadBaseline(s)
    PROVE  IInv'
<1>1. PICK r \in Requests,
           prev \in IF snapshots = {} THEN {NoSnapshot} ELSE Latest(snapshots) :
        scan' = [scan EXCEPT ![s] = [Idle EXCEPT !.pc = "run", !.request = r,
                                                 !.previous = prev]]
  BY DEF ReadBaseline
<1> DEFINE row == [Idle EXCEPT !.pc = "run", !.request = r, !.previous = prev]
<1>2. prev = NoSnapshot \/ prev \in snapshots
  BY DEF Latest
<1>3. row \in ScanRecords
  BY <1>2, MonitorAssumption, IdleType DEF ScanRecords, Steps, IInv, TypeOK
<1>4. Consistent(row, snapshots, changes)
  BY <1>2 DEF Consistent, Idle, Steps
<1>5. clock' \in Time /\ history' = history /\ UNCHANGED stores
  BY DEF ReadBaseline, IInv, TypeOK
<1>6. QED
  BY <1>1, <1>3, <1>4, <1>5, LocalStep

LEMMA RunOrchestratorInv ==
    ASSUME IInv, NEW s \in Scanners, RunOrchestrator(s)
    PROVE  IInv'
<1> DEFINE asOf == scan[s].request.asOf
<1>1. scan[s] \in ScanRecords /\ asOf \in Time \cup {Now}
  BY DEF IInv, TypeOK, ScanRecords
<1>2. PICK snap \in RunOutcomes(asOf, {"financials"} \cup WatchComponents,
                               Loaders, FALSE) :
         IF RunState(snap) = "failed" /\ scan[s].attempt < MaxRetries
         THEN scan' = [scan EXCEPT ![s].attempt = @ + 1]
         ELSE scan' = [scan EXCEPT ![s].pc = "compare", ![s].current = snap]
  BY DEF RunOrchestrator
<1>3. Instant(asOf) \in Time /\ clock' = Instant(asOf) /\ history' = history
      /\ UNCHANGED stores /\ scan[s].pc = "run"
  BY DEF RunOrchestrator
<1>4. {"financials"} \cup WatchComponents \in SUBSET Components
  BY MonitorAssumption DEF Components
<1>5. TypeOK
  BY DEF IInv
<1>6. snap \in SnapshotRecords
  <2> HIDE DEF asOf
  <2>1. QED
    BY <1>1, <1>2, <1>3, <1>4, <1>5, RunOutcomesType
<1>7. Consistent(scan[s], snapshots, changes)
  BY DEF IInv, ScansConsistent
<1>8. CASE RunState(snap) = "failed" /\ scan[s].attempt < MaxRetries
  <2> DEFINE row == [scan[s] EXCEPT !.attempt = @ + 1]
  <2>1. scan' = [scan EXCEPT ![s] = row]
    BY <1>2, <1>8
  <2>2. row \in ScanRecords
    BY <1>1 DEF ScanRecords
  <2>3. Consistent(row, snapshots, changes)
    BY <1>1, <1>7 DEF Consistent, ScanRecords
  <2> HIDE DEF row
  <2>4. QED
    BY <1>3, <2>1, <2>2, <2>3, LocalStep
<1>9. CASE ~(RunState(snap) = "failed" /\ scan[s].attempt < MaxRetries)
  <2> DEFINE row == [scan[s] EXCEPT !.pc = "compare", !.current = snap]
  <2>1. scan' = [scan EXCEPT ![s] = row]
    BY <1>2, <1>9
  <2>2. row \in ScanRecords
    BY <1>1, <1>6 DEF ScanRecords, Steps
  <2>3. Consistent(row, snapshots, changes)
    BY <1>1, <1>3, <1>6, <1>7, MonitorAssumption DEF Consistent, ScanRecords, Steps
  <2> HIDE DEF row
  <2>4. QED
    BY <1>3, <2>1, <2>2, <2>3, LocalStep
<1>10. QED
  BY <1>8, <1>9

\* The steps that only move one scan on: each goes to Idle or to a row that is
\* still consistent with the tables.
LEMMA CompareInv ==
    ASSUME IInv, NEW s \in Scanners, CompareUnchanged(s) \/ CompareChanged(s)
    PROVE  IInv'
<1>1. scan[s] \in ScanRecords /\ Consistent(scan[s], snapshots, changes)
      /\ scan[s].pc = "compare"
  BY DEF IInv, TypeOK, ScansConsistent, CompareUnchanged, CompareChanged
<1>2. clock' \in Time /\ history' = history /\ UNCHANGED stores
  BY DEF IInv, TypeOK, CompareUnchanged, CompareChanged
<1>3. CASE scan[s].request.dry
  <2>1. scan' = [scan EXCEPT ![s] = Idle]
    BY <1>3 DEF CompareUnchanged, CompareChanged
  <2>2. Consistent(Idle, snapshots, changes)
    BY DEF Consistent, Idle, Steps
  <2>3. QED
    BY <1>2, <2>1, <2>2, IdleType, LocalStep
<1>4. CASE CompareUnchanged(s) /\ ~scan[s].request.dry
  <2> DEFINE row == [scan[s] EXCEPT !.pc = "cursor", !.unchanged = TRUE]
  <2>1. scan' = [scan EXCEPT ![s] = row] /\ scan[s].previous # NoSnapshot
    BY <1>4 DEF CompareUnchanged, Unchanged
  <2>2. row \in ScanRecords /\ Consistent(row, snapshots, changes)
    BY <1>1, <2>1 DEF ScanRecords, Consistent, Steps
  <2> HIDE DEF row
  <2>3. QED
    BY <1>2, <2>1, <2>2, LocalStep
<1>5. CASE CompareChanged(s) /\ ~scan[s].request.dry
  <2> DEFINE row == [scan[s] EXCEPT !.pc = "select_snapshot"]
  <2>1. scan' = [scan EXCEPT ![s] = row]
    BY <1>5 DEF CompareChanged
  <2>2. row \in ScanRecords /\ Consistent(row, snapshots, changes)
    BY <1>1 DEF ScanRecords, Consistent, Steps
  <2> HIDE DEF row
  <2>3. QED
    BY <1>2, <2>1, <2>2, LocalStep
<1>6. QED
  BY <1>3, <1>4, <1>5

LEMMA SelectSnapshotInv ==
    ASSUME IInv, NEW s \in Scanners, SelectSnapshot(s)
    PROVE  IInv'
<1>1. scan[s] \in ScanRecords /\ Consistent(scan[s], snapshots, changes)
      /\ scan[s].pc = "select_snapshot"
  BY DEF IInv, TypeOK, ScansConsistent, SelectSnapshot
<1>2. clock' \in Time /\ history' = history /\ UNCHANGED stores
  BY DEF IInv, TypeOK, SelectSnapshot
<1>3. CASE scan' = [scan EXCEPT ![s].pc = "insert_snapshot"]
  <2> DEFINE row == [scan[s] EXCEPT !.pc = "insert_snapshot"]
  <2>1. scan' = [scan EXCEPT ![s] = row]
    BY <1>3
  <2>2. row \in ScanRecords /\ Consistent(row, snapshots, changes)
    BY <1>1 DEF ScanRecords, Consistent, Steps
  <2> HIDE DEF row
  <2>3. QED
    BY <1>2, <2>1, <2>2, LocalStep
<1>4. CASE \E snap \in snapshots :
             scan' = [scan EXCEPT ![s].pc = "detect", ![s].current = snap]
  <2>1. PICK snap \in snapshots :
             scan' = [scan EXCEPT ![s].pc = "detect", ![s].current = snap]
    BY <1>4
  <2> DEFINE row == [scan[s] EXCEPT !.pc = "detect", !.current = snap]
  <2>2. scan' = [scan EXCEPT ![s] = row]
    BY <2>1
  <2>3. snap \in SnapshotRecords
    BY DEF IInv, TypeOK
  <2>4. row \in ScanRecords /\ Consistent(row, snapshots, changes)
    BY <1>1, <2>3, MonitorAssumption DEF ScanRecords, Consistent, Steps
  <2> HIDE DEF row
  <2>5. QED
    BY <1>2, <2>2, <2>4, LocalStep
<1>5. QED
  BY <1>3, <1>4 DEF SelectSnapshot

LEMMA SkipDetectionInv ==
    ASSUME IInv, NEW s \in Scanners, SkipDetection(s) \/ AlertsDone(s)
    PROVE  IInv'
<1>1. scan[s] \in ScanRecords /\ Consistent(scan[s], snapshots, changes)
      /\ scan[s].pc \in {"detect", "alerts"}
  BY DEF IInv, TypeOK, ScansConsistent, SkipDetection, AlertsDone
<1>2. clock' \in Time /\ history' = history /\ UNCHANGED stores
  BY DEF IInv, TypeOK, SkipDetection, AlertsDone
<1> DEFINE row == [scan[s] EXCEPT !.pc = "cursor"]
<1>3. scan' = [scan EXCEPT ![s] = row]
  BY DEF SkipDetection, AlertsDone
<1>4. row \in ScanRecords /\ Consistent(row, snapshots, changes)
  BY <1>1 DEF ScanRecords, Consistent, Steps
<1> HIDE DEF row
<1>5. QED
  BY <1>2, <1>3, <1>4, LocalStep

LEMMA SelectAlertInv ==
    ASSUME IInv, NEW s \in Scanners, SelectAlert(s)
    PROVE  IInv'
<1>1. scan[s] \in ScanRecords /\ Consistent(scan[s], snapshots, changes)
      /\ scan[s].pc = "alerts"
  BY DEF IInv, TypeOK, ScansConsistent, SelectAlert
<1>2. clock' \in Time /\ history' = history /\ UNCHANGED stores
  BY DEF IInv, TypeOK, SelectAlert
<1>3. PICK ch \in scan[s].pending :
         scan' = IF \E a \in alerts : a.change = ch
                 THEN [scan EXCEPT ![s].pending = @ \ {ch}]
                 ELSE [scan EXCEPT ![s].pc = "insert_alert",
                                   ![s].pending = @ \ {ch}, ![s].inserting = {ch}]
  BY DEF SelectAlert
<1> DEFINE known == [scan[s] EXCEPT !.pending = @ \ {ch}]
           fresh == [scan[s] EXCEPT !.pc = "insert_alert",
                                    !.pending = @ \ {ch}, !.inserting = {ch}]
<1>4. scan' = [scan EXCEPT ![s] = known] \/ scan' = [scan EXCEPT ![s] = fresh]
  BY <1>3
<1>5. ch \in ChangeRecords /\ scan[s].pending \in SUBSET ChangeRecords
  BY <1>1 DEF ScanRecords
<1>6. known \in ScanRecords /\ fresh \in ScanRecords
  BY <1>1, <1>5 DEF ScanRecords, Steps
<1>7. Consistent(known, snapshots, changes) /\ Consistent(fresh, snapshots, changes)
  BY <1>1 DEF ScanRecords, Consistent, Steps
<1> HIDE DEF known, fresh
<1>8. QED
  BY <1>2, <1>4, <1>6, <1>7, LocalStep

\* A step that adds snapshots and explained changes and moves one scan at most
\* to a row consistent with the tables after it.
LEMMA GrowingStep ==
    ASSUME IInv,
           snapshots \subseteq snapshots', snapshots' \subseteq SnapshotRecords,
           changes \subseteq changes',
           \A ch \in changes' \ changes :
               /\ ch \in ChangeRecords
               /\ \E p, q \in snapshots' : /\ p.asOf < q.asOf
                                           /\ ch \in DetectChanges(p, q, StaleAfter),
           clock' \in Time, UNCHANGED <<history, alerts, cursor>>,
           \/ UNCHANGED scan
           \/ \E s \in Scanners, r \in ScanRecords :
                 /\ scan' = [scan EXCEPT ![s] = r]
                 /\ Consistent(r, snapshots', changes')
    PROVE  IInv'
<1>1. TypeOK'
  BY DEF IInv, TypeOK
<1>2. ScansConsistent'
  <2>1. ASSUME NEW t \in Scanners
        PROVE  Consistent(scan[t], snapshots', changes')
    BY ConsistentMonotone DEF IInv, ScansConsistent
  <2>2. QED
    BY <2>1 DEF ScansConsistent, IInv, TypeOK
<1>3. ChangesExplained'
  BY DEF IInv, ChangesExplained
<1>4. AlertsBacked' /\ OneAlertPerChange' /\ CursorOnStoredSnapshot'
  BY DEF IInv, AlertsBacked, OneAlertPerChange, CursorOnStoredSnapshot
<1>5. QED
  BY <1>1, <1>2, <1>3, <1>4 DEF IInv

LEMMA InsertSnapshotInv ==
    ASSUME IInv, NEW s \in Scanners, InsertSnapshot(s)
    PROVE  IInv'
<1>1. scan[s] \in ScanRecords /\ Consistent(scan[s], snapshots, changes)
      /\ scan[s].pc = "insert_snapshot"
  BY DEF IInv, TypeOK, ScansConsistent, InsertSnapshot
<1>2. CASE \E snap \in snapshots : SameKey(snap, scan[s].current)
  BY <1>2, BackToIdle DEF InsertSnapshot, stores
<1>3. CASE ~ \E snap \in snapshots : SameKey(snap, scan[s].current)
  <2> DEFINE row == [scan[s] EXCEPT !.pc = "detect"]
  <2>1. scan[s].current \in SnapshotRecords
    BY <1>1 DEF Consistent, ScanRecords, Steps
  <2>2. /\ snapshots' = snapshots \cup {scan[s].current}
        /\ scan' = [scan EXCEPT ![s] = row]
        /\ UNCHANGED <<history, clock, changes, alerts, cursor>>
    BY <1>3 DEF InsertSnapshot
  <2>3. row \in ScanRecords /\ Consistent(row, snapshots', changes')
    BY <1>1, <2>1, <2>2 DEF ScanRecords, Consistent, Steps
  <2>4. snapshots' \subseteq SnapshotRecords /\ clock' \in Time
    BY <2>1, <2>2 DEF IInv, TypeOK
  <2> HIDE DEF row
  <2>5. QED
    BY <2>2, <2>3, <2>4, GrowingStep
<1>4. QED
  BY <1>2, <1>3

LEMMA SaveChangeSetInv ==
    ASSUME IInv, NEW s \in Scanners, SaveChangeSet(s)
    PROVE  IInv'
<1> DEFINE found == DetectChanges(scan[s].previous, scan[s].current, StaleAfter)
           row == [scan[s] EXCEPT !.pc = "alerts",
                                  !.pending = {ch \in found : MeetsThreshold(ch)}]
<1>1. scan[s] \in ScanRecords /\ Consistent(scan[s], snapshots, changes)
      /\ scan[s].pc = "detect" /\ Comparable(s)
  BY DEF IInv, TypeOK, ScansConsistent, SaveChangeSet
<1>2. /\ changes' = changes \cup found
      /\ scan' = [scan EXCEPT ![s] = row]
      /\ UNCHANGED <<history, clock, snapshots, alerts, cursor>>
  BY DEF SaveChangeSet
<1>3. /\ scan[s].previous \in snapshots
      /\ scan[s].current \in snapshots
      /\ scan[s].previous.asOf < scan[s].current.asOf
  BY <1>1 DEF Consistent, Comparable
<1>4. found \subseteq ChangeRecords
  <2>1. scan[s].previous \in SnapshotRecords /\ scan[s].current \in SnapshotRecords
    BY <1>3 DEF IInv, TypeOK
  <2>2. QED
    BY <2>1, DetectChangesType
<1>5. \A ch \in changes' \ changes :
         /\ ch \in ChangeRecords
         /\ \E p, q \in snapshots' : /\ p.asOf < q.asOf
                                     /\ ch \in DetectChanges(p, q, StaleAfter)
  BY <1>2, <1>3, <1>4
<1> HIDE DEF found
<1>6. row \in ScanRecords
  BY <1>1, <1>4 DEF ScanRecords, Steps
<1>7. Consistent(row, snapshots', changes')
  BY <1>1, <1>2 DEF ScanRecords, Consistent, Steps
<1>8. snapshots' \subseteq SnapshotRecords /\ clock' \in Time
  BY <1>2 DEF IInv, TypeOK
<1> HIDE DEF row
<1>9. QED
  BY <1>2, <1>5, <1>6, <1>7, <1>8, GrowingStep

LEMMA InsertAlertInv ==
    ASSUME IInv, NEW s \in Scanners, InsertAlert(s)
    PROVE  IInv'
<1>1. scan[s] \in ScanRecords /\ Consistent(scan[s], snapshots, changes)
      /\ scan[s].pc = "insert_alert"
  BY DEF IInv, TypeOK, ScansConsistent, InsertAlert
<1>2. PICK ch \in scan[s].inserting :
         IF \E a \in alerts : a.change = ch
         THEN /\ scan' = [scan EXCEPT ![s] = Idle]
              /\ UNCHANGED alerts
         ELSE /\ alerts' = alerts \cup {[change |-> ch, status |-> "new",
                                          snapshot |-> scan[s].current]}
              /\ scan' = [scan EXCEPT ![s].pc = "alerts", ![s].inserting = {}]
  BY DEF InsertAlert
<1>3. UNCHANGED <<history, clock, snapshots, changes, cursor>>
  BY DEF InsertAlert
<1>4. CASE \E a \in alerts : a.change = ch
  BY <1>2, <1>3, <1>4, BackToIdle DEF stores
<1>5. CASE ~ \E a \in alerts : a.change = ch
  <2> DEFINE row == [scan[s] EXCEPT !.pc = "alerts", !.inserting = {}]
             new == [change |-> ch, status |-> "new", snapshot |-> scan[s].current]
  <2>1. scan' = [scan EXCEPT ![s] = row] /\ alerts' = alerts \cup {new}
    BY <1>2, <1>5
  <2>2. scan[s].current \in snapshots /\ ch \in changes /\ MeetsThreshold(ch)
    BY <1>1, <1>2 DEF Consistent
  <2>3. row \in ScanRecords /\ Consistent(row, snapshots, changes)
    BY <1>1 DEF ScanRecords, Consistent, Steps
  <2>4. new \in AlertRecords
    BY <2>2 DEF AlertRecords, IInv, TypeOK
  <2>5. TypeOK'
    <3> HIDE DEF row, new
    <3>1. QED
      BY <1>3, <2>1, <2>3, <2>4 DEF IInv, TypeOK
  <2>6. ScansConsistent'
    <3> HIDE DEF row, new
    <3>1. QED
      BY <1>3, <2>1, <2>3 DEF IInv, TypeOK, ScansConsistent
  <2>7. AlertsBacked' /\ OneAlertPerChange'
    BY <1>3, <1>5, <2>1, <2>2 DEF IInv, AlertsBacked, OneAlertPerChange
  <2>8. ChangesExplained' /\ CursorOnStoredSnapshot'
    BY <1>3 DEF IInv, ChangesExplained, CursorOnStoredSnapshot
  <2>9. QED
    BY <2>5, <2>6, <2>7, <2>8 DEF IInv
<1>6. QED
  BY <1>4, <1>5

LEMMA SaveCursorInv ==
    ASSUME IInv, NEW s \in Scanners, SaveCursor(s)
    PROVE  IInv'
<1>1. /\ scan[s].pc = "cursor"
      /\ cursor' = {[snapshot |-> Target(s), lastSuccessAt |-> clock]}
      /\ scan' = [scan EXCEPT ![s] = Idle]
      /\ UNCHANGED <<history, clock, snapshots, changes, alerts>>
  BY DEF SaveCursor
<1>2. Target(s) \in snapshots
  BY <1>1 DEF Target, IInv, ScansConsistent, Consistent
<1>3. TypeOK'
  BY <1>1, <1>2, IdleType DEF IInv, TypeOK, CursorRecords
<1>4. ScansConsistent'
  <2>1. Consistent(Idle, snapshots, changes)
    BY DEF Consistent, Idle, Steps
  <2>2. QED
    BY <1>1, <2>1 DEF IInv, TypeOK, ScansConsistent
<1>5. CursorOnStoredSnapshot'
  BY <1>1, <1>2 DEF CursorOnStoredSnapshot
<1>6. ChangesExplained' /\ AlertsBacked' /\ OneAlertPerChange'
  BY <1>1 DEF IInv, ChangesExplained, AlertsBacked, OneAlertPerChange
<1>7. QED
  BY <1>3, <1>4, <1>5, <1>6 DEF IInv

LEMMA PersistRunInv ==
    ASSUME IInv, PersistRun
    PROVE  IInv'
<1>1. PICK r \in UserRequests :
         /\ Instant(r.asOf) \in Time
         /\ clock' = Instant(r.asOf)
         /\ \E snap \in RunOutcomes(r.asOf, {"financials"} \cup r.optional,
                    IF r.linked THEN Loaders \cup {"risks"} ELSE Loaders, r.linked) :
              snapshots' = IF \E old \in snapshots : SameKey(old, snap)
                           THEN snapshots ELSE snapshots \cup {snap}
  BY DEF PersistRun
<1> DEFINE wired == IF r.linked THEN Loaders \cup {"risks"} ELSE Loaders
<1>2. /\ r.asOf \in Time \cup {Now}
      /\ {"financials"} \cup r.optional \in SUBSET Components
      /\ r.linked \in BOOLEAN
  BY MonitorAssumption DEF Components
<1>3. TypeOK
  BY DEF IInv
<1>4. RunOutcomes(r.asOf, {"financials"} \cup r.optional, wired, r.linked)
         \subseteq SnapshotRecords
  <2> HIDE DEF wired
  <2>1. QED
    BY <1>1, <1>2, <1>3, RunOutcomesType
<1>5. snapshots \subseteq snapshots' /\ snapshots' \subseteq SnapshotRecords
  BY <1>1, <1>4 DEF IInv, TypeOK
<1>6. UNCHANGED <<history, changes, alerts, cursor, scan>>
  BY DEF PersistRun
<1>7. QED
  BY <1>1, <1>5, <1>6, GrowingStep

LEMMA ViewChangesInv ==
    ASSUME IInv, ViewChanges
    PROVE  IInv'
<1>1. PICK prev \in snapshots, cur \in snapshots :
         /\ prev.asOf < cur.asOf
         /\ changes' = changes \cup DetectChanges(prev, cur, NoThreshold)
  BY DEF ViewChanges
<1>2. UNCHANGED <<history, clock, snapshots, alerts, cursor, scan>>
  BY DEF ViewChanges
<1>3. prev \in SnapshotRecords /\ cur \in SnapshotRecords
  BY DEF IInv, TypeOK
<1>4. DetectChanges(prev, cur, NoThreshold) \subseteq ChangeRecords
  BY <1>3, DetectChangesType
<1>5. \A ch \in changes' \ changes :
         /\ ch \in ChangeRecords
         /\ \E p, q \in snapshots' : /\ p.asOf < q.asOf
                                     /\ ch \in DetectChanges(p, q, StaleAfter)
  BY <1>1, <1>2, <1>4, DetectWithoutThreshold
<1>6. snapshots' \subseteq SnapshotRecords /\ clock' \in Time
  BY <1>2 DEF IInv, TypeOK
<1>7. QED
  BY <1>1, <1>2, <1>5, <1>6, GrowingStep

LEMMA ActOnAlertInv ==
    ASSUME IInv, ActOnAlert
    PROVE  IInv'
<1>1. PICK a \in alerts, status \in {"acknowledged", "ignored"} :
         alerts' = (alerts \ {a}) \cup {[a EXCEPT !.status = status]}
  BY DEF ActOnAlert
<1>2. UNCHANGED <<history, clock, snapshots, changes, cursor, scan>>
  BY DEF ActOnAlert
<1>3. a \in AlertRecords
  BY DEF IInv, TypeOK
<1>4. TypeOK'
  BY <1>1, <1>2, <1>3 DEF IInv, TypeOK, AlertRecords
<1>5. AlertsBacked' /\ OneAlertPerChange'
  BY <1>1, <1>2, <1>3 DEF IInv, AlertsBacked, OneAlertPerChange, AlertRecords
<1>6. ScansConsistent' /\ ChangesExplained' /\ CursorOnStoredSnapshot'
  BY <1>2 DEF IInv, ScansConsistent, ChangesExplained, CursorOnStoredSnapshot
<1>7. QED
  BY <1>4, <1>5, <1>6 DEF IInv

LEMMA StutterOrTickInv ==
    ASSUME IInv, Tick \/ UNCHANGED vars
    PROVE  IInv'
<1>1. clock' \in Time /\ UNCHANGED <<history, stores, scan>>
  BY MonitorAssumption DEF Tick, vars, stores, IInv, TypeOK, Time
<1>2. QED
  BY <1>1 DEF stores, IInv, TypeOK, ScansConsistent, ChangesExplained, AlertsBacked,
              OneAlertPerChange, CursorOnStoredSnapshot

LEMMA NextInv == IInv /\ [Next]_vars => IInv'
<1> SUFFICES ASSUME IInv, [Next]_vars PROVE IInv'
  OBVIOUS
<1>1. ASSUME NEW s \in Scanners, ReadBaseline(s) PROVE IInv'
  BY <1>1, ReadBaselineInv
<1>2. ASSUME NEW s \in Scanners, ScanStep(s) PROVE IInv'
  BY <1>2, RunOrchestratorInv, CompareInv, SelectSnapshotInv, InsertSnapshotInv,
     SkipDetectionInv, SaveChangeSetInv, SelectAlertInv, InsertAlertInv,
     SaveCursorInv DEF ScanStep
<1>3. ASSUME NEW s \in Scanners, Abort(s) PROVE IInv'
  BY <1>3, BackToIdle DEF Abort
<1>4. QED
  BY <1>1, <1>2, <1>3, PersistRunInv, ViewChangesInv, ActOnAlertInv,
     StutterOrTickInv DEF Next

-----------------------------------------------------------------------------
(* The theorems *)

\* The inductive invariant of the monitor.
THEOREM InvariantHolds == Spec => []IInv
<1>1. QED
  BY InitInv, NextInv, PTL DEF Spec

\* Rows and local state keep their shapes (models.py, alert_store.py).
THEOREM TypeCorrect == Spec => []TypeOK
<1>1. IInv => TypeOK
  BY DEF IInv
<1>2. QED
  BY <1>1, InvariantHolds, PTL

\* What a scan carries between its transactions agrees with the tables
\* (monitor.py:120-199), however many scans overlap.
THEOREM LocalStateConsistent == Spec => []ScansConsistent
<1>1. IInv => ScansConsistent
  BY DEF IInv
<1>2. QED
  BY <1>1, InvariantHolds, PTL

\* A stored change is a difference between two stored snapshots, the older one
\* first (change_detection.py:59-98, change_store.py:55-76).
THEOREM EveryChangeExplained == Spec => []ChangesExplained
<1>1. IInv => ChangesExplained
  BY DEF IInv
<1>2. QED
  BY <1>1, InvariantHolds, PTL

\* Also with crashes between any two writes, an alert has its change and its
\* snapshot in the database (monitor.py:160-198).
THEOREM EveryAlertBacked == Spec => []AlertsBacked
<1>1. IInv => AlertsBacked
  BY DEF IInv
<1>2. QED
  BY <1>1, InvariantHolds, PTL

\* Overlapping scans never alert one change twice (alert_store.py:90-137).
THEOREM AlertsDeduplicated == Spec => []OneAlertPerChange
<1>1. IInv => OneAlertPerChange
  BY DEF IInv
<1>2. QED
  BY <1>1, InvariantHolds, PTL

\* An alert stays, and the analyst's decision on it is never undone by a scan
\* (alert_store.py:90-137, 160-180).
THEOREM DecisionsAreFinal == Spec => DecisionsStand
<1>1. ASSUME IInv, [Next]_vars PROVE DecisionsKept(alerts, alerts') \/ UNCHANGED alerts
  <2>1. ASSUME NEW s \in Scanners, InsertAlert(s) PROVE alerts \subseteq alerts'
    BY <2>1 DEF InsertAlert
  <2>2. ASSUME ActOnAlert PROVE DecisionsKept(alerts, alerts')
    <3>1. PICK x \in alerts, status \in {"acknowledged", "ignored"} :
             alerts' = (alerts \ {x}) \cup {[x EXCEPT !.status = status]}
      BY <2>2 DEF ActOnAlert
    <3>2. x \in AlertRecords
      BY <1>1 DEF IInv, TypeOK
    <3>3. ASSUME NEW a \in alerts
          PROVE  \E b \in alerts' :
                     /\ b.change = a.change
                     /\ a.status # "new" => b.status # "new"
      <4>1. CASE a # x
        BY <4>1, <3>1, <3>3
      <4>2. CASE a = x
        <5>1. [x EXCEPT !.status = status].change = x.change
          BY <3>2 DEF AlertRecords
        <5>2. [x EXCEPT !.status = status].status = status
          BY <3>2 DEF AlertRecords
        <5>3. QED
          BY <4>2, <5>1, <5>2, <3>1
      <4>3. QED
        BY <4>1, <4>2
    <3>4. QED
      BY <3>3 DEF DecisionsKept
  <2>3. ASSUME NEW s \in Scanners, ReadBaseline(s) \/ ScanStep(s) \/ Abort(s),
               ~InsertAlert(s)
        PROVE  UNCHANGED alerts
    BY <2>3 DEF ReadBaseline, ScanStep, Abort, RunOrchestrator, CompareUnchanged,
       CompareChanged, SelectSnapshot, InsertSnapshot, SkipDetection, SaveChangeSet,
       SelectAlert, AlertsDone, SaveCursor, stores
  <2>4. ASSUME PersistRun \/ ViewChanges \/ Tick \/ UNCHANGED vars
        PROVE  UNCHANGED alerts
    BY <2>4 DEF PersistRun, ViewChanges, Tick, vars, stores
  <2>5. QED
    BY <1>1, <2>1, <2>2, <2>3, <2>4 DEF Next, DecisionsKept
<1>2. IInv /\ [Next]_vars => [DecisionsKept(alerts, alerts')]_alerts
  BY <1>1
<1>3. QED
  BY <1>2, InvariantHolds, PTL DEF Spec, DecisionsStand

-----------------------------------------------------------------------------
(* What holds under conditions on the instance, which the counterexamples   *)
(* MonitorBackwards and MonitorOverlap show are needed: changes of value    *)
(* have the direction of the world when every run that stores something     *)
(* takes the present as its cutoff, and none is lost when, besides, one     *)
(* scan at a time runs, it is not cut short, and no user starts runs.       *)

PresentCutoffs ==
    /\ \A r \in Requests : r.dry \/ r.asOf = Now
    /\ \A r \in UserRequests : r.asOf = Now

\* A run of the present: what it loaded, and when (orchestrator.py).
LEMMA PresentRun ==
    ASSUME TypeOK, NEW requested, NEW wired, NEW workflow,
           NEW snap \in RunOutcomes(Now, requested, wired, workflow)
    PROVE  /\ snap.asOf = clock + 1
           /\ \A c \in Components : snap.facts[c] = Missing \/ snap.facts[c] = history[c][clock + 1]
<1>0. clock \in Nat /\ clock + 1 \in Nat BY MonitorAssumption DEF TypeOK, Time
<1> DEFINE up == requested \cap wired
           mayFail == IF ProvidersFail THEN up ELSE {}
           safe == IF workflow THEN {"risks"} ELSE {}
<1>1. PICK lost \in SUBSET (mayFail \ safe) :
         snap = [asOf |-> clock + 1, requested |-> requested, workflow |-> workflow,
                 facts |-> Observe(up \ lost, clock + 1, clock + 1)]
  BY DEF RunOutcomes, Instant
<1>2. Observe(up \ lost, clock + 1, clock + 1)
        = [c \in Components |-> IF c \in up \ lost THEN history[c][clock + 1] ELSE Missing]
  BY DEF Observe
<1> QED BY <1>1, <1>2
-----------------------------------------------------------------------------
(* The direction of changes *)

AsOfHistory(snap) ==
    \A c \in Loaded(snap) : snap.facts[c].fact = history[c][snap.asOf].fact

\* A dry scan stores nothing; any other has a snapshot of the present, if any.
OfThePresent(r) ==
    IF r.request.dry
    THEN r.pc \in {"idle", "run", "compare"}
    ELSE /\ r.request.asOf = Now
         /\ r.current # NoSnapshot => AsOfHistory(r.current)

Presents ==
    /\ \A p \in snapshots : AsOfHistory(p)
    /\ \A s \in Scanners : OfThePresent(scan[s])

LEMMA PresentRunOfHistory ==
    ASSUME TypeOK, NEW requested, NEW wired, NEW workflow,
           NEW snap \in RunOutcomes(Now, requested, wired, workflow)
    PROVE  AsOfHistory(snap)
  BY PresentRun DEF AsOfHistory, Loaded

\* A step that leaves scans with snapshots they or the table had keeps it.
LEMMA KnownSnapshots ==
    ASSUME Presents, UNCHANGED history,
           \A p \in snapshots' : p \in snapshots \/ AsOfHistory(p),
           \A s \in Scanners : OfThePresent(scan'[s])
    PROVE  Presents'
  BY DEF Presents, OfThePresent, AsOfHistory

LEMMA PresentsStep ==
    ASSUME PresentCutoffs, TypeOK, Presents, ScansConsistent, [Next]_vars
    PROVE  Presents'
<1>h. UNCHANGED history
  BY DEF Next, ScanStep, ReadBaseline, RunOrchestrator, CompareUnchanged, CompareChanged,
     SelectSnapshot, InsertSnapshot, SkipDetection, SaveChangeSet, SelectAlert, InsertAlert,
     AlertsDone, SaveCursor, Abort, PersistRun, ViewChanges, ActOnAlert, Tick, vars
<1>t. scan \in [Scanners -> ScanRecords] BY DEF TypeOK
<1>i. OfThePresent(Idle) BY DEF Idle, OfThePresent
<1>1. ASSUME NEW s \in Scanners, ReadBaseline(s) PROVE Presents'
  <2>1. PICK r \in Requests, prev \in IF snapshots = {} THEN {NoSnapshot} ELSE Latest(snapshots) :
          scan' = [scan EXCEPT ![s] = [Idle EXCEPT !.pc = "run", !.request = r, !.previous = prev]]
    BY <1>1 DEF ReadBaseline
  <2>2. r.dry \/ r.asOf = Now BY DEF PresentCutoffs
  <2>3. scan'[s].request = r /\ scan'[s].current = NoSnapshot /\ scan'[s].pc = "run"
    BY <2>1, <1>t DEF Idle
  <2>4. \A q \in Scanners : q # s => scan'[q] = scan[q] BY <2>1, <1>t
  <2>5. UNCHANGED snapshots BY <1>1 DEF ReadBaseline, stores
  <2>6. OfThePresent(scan'[s]) BY <2>2, <2>3 DEF OfThePresent
  <2> QED BY <1>h, <2>4, <2>5, <2>6, KnownSnapshots DEF Presents
<1>2. ASSUME NEW s \in Scanners, RunOrchestrator(s) PROVE Presents'
  <2>1. PICK snap \in RunOutcomes(scan[s].request.asOf, {"financials"} \cup WatchComponents,
                                  Loaders, FALSE) :
         IF RunState(snap) = "failed" /\ scan[s].attempt < MaxRetries
         THEN scan' = [scan EXCEPT ![s].attempt = @ + 1]
         ELSE scan' = [scan EXCEPT ![s].pc = "compare", ![s].current = snap]
    BY <1>2 DEF RunOrchestrator
  <2>2. scan[s].request.asOf = Now => AsOfHistory(snap) BY <2>1, PresentRunOfHistory
  <2>3. /\ scan'[s].request = scan[s].request
        /\ scan'[s].current = snap \/ scan'[s].current = scan[s].current
        /\ scan'[s].pc \in {"run", "compare"}
    BY <1>2, <2>1, <1>t DEF ScanRecords, RunOrchestrator
  <2>4. \A q \in Scanners : q # s => scan'[q] = scan[q] BY <2>1, <1>t
  <2>5. UNCHANGED snapshots BY <1>2 DEF RunOrchestrator, stores
  <2>6. OfThePresent(scan'[s]) BY <2>2, <2>3 DEF Presents, OfThePresent
  <2> QED BY <1>h, <2>4, <2>5, <2>6, KnownSnapshots DEF Presents
<1>3. ASSUME NEW s \in Scanners, SelectSnapshot(s) PROVE Presents'
  <2>1. /\ scan'[s].request = scan[s].request
        /\ scan'[s].current = scan[s].current \/ scan'[s].current \in snapshots
    BY <1>3, <1>t DEF SelectSnapshot, ScanRecords
  <2>2. UNCHANGED snapshots BY <1>3 DEF SelectSnapshot, stores
  <2>3. \A q \in Scanners : q # s => scan'[q] = scan[q] BY <1>3, <1>t DEF SelectSnapshot
  <2>4. ~scan[s].request.dry BY <1>3 DEF SelectSnapshot, Presents, OfThePresent
  <2>5. OfThePresent(scan'[s]) BY <2>1, <2>4 DEF Presents, OfThePresent
  <2> QED BY <1>h, <2>2, <2>3, <2>5, KnownSnapshots DEF Presents
<1>4. ASSUME NEW s \in Scanners, InsertSnapshot(s) PROVE Presents'
  <2>0. scan[s].current # NoSnapshot
    BY <1>4 DEF InsertSnapshot, ScansConsistent, Consistent, Steps
  <2>1. scan'[s] = Idle \/ (scan'[s].request = scan[s].request
                             /\ scan'[s].current = scan[s].current)
    BY <1>4, <1>t DEF InsertSnapshot, ScanRecords
  <2>2. snapshots' \subseteq snapshots \cup {scan[s].current} BY <1>4 DEF InsertSnapshot
  <2>3. \A q \in Scanners : q # s => scan'[q] = scan[q] BY <1>4, <1>t DEF InsertSnapshot
  <2>4. ~scan[s].request.dry BY <1>4 DEF InsertSnapshot, Presents, OfThePresent
  <2>5. OfThePresent(scan'[s]) BY <1>i, <2>1, <2>4 DEF Presents, OfThePresent
  <2>6. AsOfHistory(scan[s].current) BY <2>0, <2>4 DEF Presents, OfThePresent
  <2> QED BY <1>h, <2>2, <2>3, <2>5, <2>6, KnownSnapshots DEF Presents
<1>5. ASSUME NEW s \in Scanners,
             \/ CompareUnchanged(s) \/ CompareChanged(s) \/ SkipDetection(s) \/ SaveChangeSet(s)
             \/ SelectAlert(s) \/ InsertAlert(s) \/ AlertsDone(s) \/ SaveCursor(s) \/ Abort(s)
      PROVE  Presents'
  <2> DEFINE Kept == \A q \in Scanners :
                       \/ scan'[q] = Idle \/ scan'[q] = scan[q]
                       \/ /\ scan'[q].request = scan[q].request
                          /\ scan'[q].current = scan[q].current
                          /\ ~scan[q].request.dry
  <2>1. CompareUnchanged(s) => Kept BY <1>t DEF CompareUnchanged, ScanRecords
  <2>2. CompareChanged(s) => Kept BY <1>t DEF CompareChanged, ScanRecords
  <2>3. SkipDetection(s) => Kept
    BY <1>t DEF SkipDetection, Presents, OfThePresent, ScanRecords
  <2>4. SaveChangeSet(s) => Kept
    <3>1. SUFFICES ASSUME SaveChangeSet(s) PROVE Kept OBVIOUS
    <3>2. PICK pending : scan' = [scan EXCEPT ![s].pc = "alerts", ![s].pending = pending]
      BY <3>1 DEF SaveChangeSet
    <3>3. ~scan[s].request.dry BY <3>1 DEF SaveChangeSet, Presents, OfThePresent
    <3> QED BY <1>t, <3>2, <3>3 DEF ScanRecords
  <2>5. SelectAlert(s) => Kept
    BY <1>t DEF SelectAlert, Presents, OfThePresent, ScanRecords
  <2>6. InsertAlert(s) => Kept
    <3>1. SUFFICES ASSUME InsertAlert(s) PROVE Kept OBVIOUS
    <3>2. scan' = [scan EXCEPT ![s] = Idle]
          \/ scan' = [scan EXCEPT ![s].pc = "alerts", ![s].inserting = {}]
      BY <3>1 DEF InsertAlert
    <3>3. ~scan[s].request.dry BY <3>1 DEF InsertAlert, Presents, OfThePresent
    <3> QED BY <1>t, <3>2, <3>3 DEF ScanRecords
  <2>7. AlertsDone(s) => Kept
    BY <1>t DEF AlertsDone, Presents, OfThePresent, ScanRecords
  <2>8. SaveCursor(s) \/ Abort(s) => Kept BY <1>t DEF SaveCursor, Abort
  <2>9. UNCHANGED snapshots
    BY <1>5 DEF CompareUnchanged, CompareChanged, SkipDetection, SaveChangeSet, SelectAlert,
       InsertAlert, AlertsDone, SaveCursor, Abort, stores
  <2>10. Kept BY <1>5, <2>1, <2>2, <2>3, <2>4, <2>5, <2>6, <2>7, <2>8
  <2>11. \A q \in Scanners : OfThePresent(scan'[q])
    BY <1>i, <2>10 DEF Presents, OfThePresent
  <2> QED BY <1>h, <2>9, <2>11, KnownSnapshots DEF Presents
<1>6. CASE PersistRun
  <2>1. PICK r \in UserRequests :
          \E snap \in RunOutcomes(r.asOf, {"financials"} \cup r.optional,
                    IF r.linked THEN Loaders \cup {"risks"} ELSE Loaders, r.linked) :
              snapshots' = IF \E old \in snapshots : SameKey(old, snap)
                           THEN snapshots ELSE snapshots \cup {snap}
    BY <1>6 DEF PersistRun
  <2>2. r.asOf = Now BY DEF PresentCutoffs
  <2>3. \A p \in snapshots' : p \in snapshots \/ AsOfHistory(p)
    BY <2>1, <2>2, PresentRunOfHistory
  <2>4. UNCHANGED scan BY <1>6 DEF PersistRun
  <2> QED BY <1>h, <2>3, <2>4, KnownSnapshots DEF Presents
<1>7. CASE ViewChanges \/ ActOnAlert \/ Tick \/ UNCHANGED vars
  <2>1. UNCHANGED <<snapshots, scan>> BY <1>7 DEF ViewChanges, ActOnAlert, Tick, vars, stores
  <2> QED BY <1>h, <2>1, KnownSnapshots DEF Presents
<1> QED BY <1>1, <1>2, <1>3, <1>4, <1>5, <1>6, <1>7 DEF Next, ScanStep

LEMMA FollowsFromPresents ==
    ASSUME TypeOK, ChangesExplained, Presents
    PROVE  ChangesFollowHistory
<1> SUFFICES ASSUME NEW ch \in changes, ch.kind = "value"
             PROVE  \E t, u \in Time : /\ t < u
                                       /\ history[ch.of][t].fact = ch.was.fact
                                       /\ history[ch.of][u].fact = ch.is.fact
  BY DEF ChangesFollowHistory
<1>1. PICK p, q \in snapshots : p.asOf < q.asOf /\ ch \in DetectChanges(p, q, StaleAfter)
  BY DEF ChangesExplained
<1>2. ch \in ValueChanges(p, q)
  BY <1>1 DEF DetectChanges, CoverageChanges, StaleChanges
<1>3. PICK c \in Loaded(p) \cap Loaded(q) :
        ch = [kind |-> "value", of |-> c, was |-> Evidence(c, p.facts[c]),
                                          is  |-> Evidence(c, q.facts[c])]
  BY <1>2 DEF ValueChanges
<1>4. p \in SnapshotRecords /\ q \in SnapshotRecords BY DEF TypeOK
<1>5. p.asOf \in Time /\ q.asOf \in Time BY <1>4 DEF SnapshotRecords
<1>6. p.facts[c] \in Observations /\ q.facts[c] \in Observations BY <1>3, <1>4, LoadedType
<1>7. ch.was.fact = p.facts[c].fact /\ ch.is.fact = q.facts[c].fact
  BY <1>3, <1>6 DEF Evidence, Observations
<1>8. /\ p.facts[c].fact = history[c][p.asOf].fact
      /\ q.facts[c].fact = history[c][q.asOf].fact
  BY <1>3 DEF Presents, AsOfHistory
<1> QED BY <1>1, <1>3, <1>5, <1>7, <1>8

\* However scans, user runs and reviews overlap and fail: when every run takes
\* the present as its cutoff, a stored change of value has the direction of
\* the world (change_detection.py:59-98).
THEOREM ChangesHaveDirection ==
    ASSUME PresentCutoffs
    PROVE  Spec => []ChangesFollowHistory
<1>1. Init => Presents BY DEF Init, Presents, OfThePresent, Idle
<1>2. IInv /\ Presents /\ [Next]_vars => Presents' BY PresentsStep DEF IInv
<1>3. IInv /\ Presents => ChangesFollowHistory BY FollowsFromPresents DEF IInv
<1> QED BY <1>1, <1>2, <1>3, InvariantHolds, PTL DEF Spec
-----------------------------------------------------------------------------
(* No change is lost *)

\* One scan at a time that is never cut short, and no runs but its own.
OneScanner(s) == Scanners = {s} /\ ~MayAbort /\ UserRequests = {}

\* What a scan that reads the table S has as its baseline.
Base(prev, S) == IF S = {} THEN prev = NoSnapshot ELSE prev \in Latest(S)

Alerted(ch, A) == \E a \in A : a.change = ch

Material(p, q) == {ch \in ValueChanges(p, q) : MeetsThreshold(ch)}

Neighbours(p, q, S) ==
    /\ p \in S /\ q \in S /\ p.asOf < q.asOf
    /\ ~ \E m \in S : p.asOf < m.asOf /\ m.asOf < q.asOf

Holding == {"compare", "select_snapshot", "insert_snapshot"}
Detecting == {"detect", "alerts", "insert_alert"}

\* What the scan with local state r still owes, given snapshots, alerts, clock.
Carries(r, S, A, t) ==
    /\ r.pc = "run" => Base(r.previous, S)
    /\ r.pc \in Holding /\ ~r.request.dry =>
         /\ Base(r.previous, S)
         /\ r.current.asOf <= t
         /\ \A p \in S : p.asOf < r.current.asOf
    /\ r.pc \in Detecting => r.current \in Latest(S) /\ Base(r.previous, S \ {r.current})
    /\ r.pc \in {"alerts", "insert_alert"} =>
         \A ch \in Material(r.previous, r.current) :
             Alerted(ch, A) \/ ch \in r.pending \cup r.inserting
    /\ r.pc # "insert_alert" => r.inserting = {}
    /\ \A ch, other \in r.inserting : ch = other /\ ~Alerted(ch, A)

\* Of every two successive snapshots the changes are alerted, but for those
\* that the scan is about to alert.
PairsDone(r, S, A) ==
    \A p, q \in S :
        Neighbours(p, q, S) =>
            \/ \A ch \in Material(p, q) : Alerted(ch, A)
            \/ r.pc \in Detecting /\ p = r.previous /\ q = r.current

\* The table in one line of time.
Timeline(S, t) ==
    /\ \A p \in S : p.asOf <= t
    /\ \A p, q \in S : p.asOf = q.asOf => p = q

Owed(s) ==
    /\ Timeline(snapshots, clock)
    /\ Carries(scan[s], snapshots, alerts, clock)
    /\ PairsDone(scan[s], snapshots, alerts)

\* A scan that is at rest, or at its cursor, owes nothing.
LEMMA NothingOwed ==
    ASSUME NEW r, NEW x, NEW S, NEW A, NEW t, NEW u,
           r.pc \in {"idle", "cursor"}, r.inserting = {},
           PairsDone(x, S, A), x.pc \notin Detecting
    PROVE  Carries(r, S, A, u) /\ PairsDone(r, S, A)
  BY DEF Carries, PairsDone, Holding, Detecting

\* A step of the scan to r that leaves snapshots and alerts as they are.
LEMMA OwedLocally ==
    ASSUME NEW s \in Scanners, TypeOK, Owed(s), NEW r,
           scan' = [scan EXCEPT ![s] = r], UNCHANGED <<snapshots, alerts>>,
           clock' \in Time, clock <= clock',
           Carries(r, snapshots, alerts, clock'), PairsDone(r, snapshots, alerts)
    PROVE  Owed(s)'
<1>1. scan'[s] = r BY DEF TypeOK
<1>2. \A p \in snapshots : p.asOf <= clock'
  <2> SUFFICES ASSUME NEW p \in snapshots PROVE p.asOf <= clock' OBVIOUS
  <2>1. p.asOf \in Nat /\ clock \in Nat /\ clock' \in Nat
    BY DEF TypeOK, SnapshotRecords, Time
  <2>2. p.asOf <= clock BY DEF Owed, Timeline
  <2> QED BY <2>1, <2>2
<1> QED BY <1>1, <1>2 DEF Owed, Timeline
-----------------------------------------------------------------------------
LEMMA OwedBaseline ==
    ASSUME NEW s \in Scanners, TypeOK, Owed(s), ReadBaseline(s)
    PROVE  Owed(s)'
<1>1. PICK r \in Requests, prev \in IF snapshots = {} THEN {NoSnapshot} ELSE Latest(snapshots) :
        scan' = [scan EXCEPT ![s] = [Idle EXCEPT !.pc = "run", !.request = r,
                                                 !.previous = prev]]
  BY DEF ReadBaseline
<1> DEFINE row == [Idle EXCEPT !.pc = "run", !.request = r, !.previous = prev]
<1>2. row.pc = "run" /\ row.previous = prev /\ row.inserting = {} BY DEF Idle
<1>3. Base(prev, snapshots) BY DEF Base
<1>4. scan[s].pc = "idle" /\ UNCHANGED <<snapshots, alerts, clock>>
  BY DEF ReadBaseline, stores
<1>5. clock' \in Time /\ clock <= clock' BY <1>4 DEF TypeOK, Time
<1>6. scan' = [scan EXCEPT ![s] = row] BY <1>1
<1> HIDE DEF row
<1>7. Carries(row, snapshots, alerts, clock') BY <1>2, <1>3 DEF Carries, Holding, Detecting
<1>8. PairsDone(row, snapshots, alerts) BY <1>4 DEF Owed, PairsDone, Detecting
<1> QED BY <1>4, <1>5, <1>6, <1>7, <1>8, OwedLocally

LEMMA OwedRun ==
    ASSUME NEW s \in Scanners, OneScanner(s), TypeOK, Presents, Owed(s), RunOrchestrator(s)
    PROVE  Owed(s)'
<1> DEFINE asOf == scan[s].request.asOf
<1>0. scan[s].request.dry \/ asOf = Now BY DEF Presents, OfThePresent
<1>1. PICK snap \in RunOutcomes(asOf, {"financials"} \cup WatchComponents, Loaders, FALSE) :
         IF RunState(snap) = "failed" /\ scan[s].attempt < MaxRetries
         THEN scan' = [scan EXCEPT ![s].attempt = @ + 1]
         ELSE scan' = [scan EXCEPT ![s].pc = "compare", ![s].current = snap]
  BY DEF RunOrchestrator
<1>2. /\ scan[s].pc = "run" /\ clock' = Instant(asOf) /\ clock' \in Time
      /\ UNCHANGED <<snapshots, alerts>>
  BY DEF RunOrchestrator, stores
<1>3. scan[s] \in ScanRecords /\ clock \in Nat BY DEF TypeOK, Time
<1>4. clock <= clock' BY <1>2, <1>3 DEF Instant
<1>5. asOf = Now => snap.asOf = clock + 1 /\ clock' = clock + 1
  <2> DEFINE requested == {"financials"} \cup WatchComponents
             workflow == FALSE
  <2> SUFFICES ASSUME asOf = Now PROVE snap.asOf = clock + 1 /\ clock' = clock + 1
    OBVIOUS
  <2>1. snap \in RunOutcomes(Now, requested, Loaders, workflow) BY <1>1
  <2> HIDE DEF requested, workflow
  <2>2. snap.asOf = clock + 1 BY <2>1, PresentRun
  <2> QED BY <1>2, <2>2 DEF Instant
<1> HIDE DEF asOf
<1>7. Carries(scan[s], snapshots, alerts, clock) /\ PairsDone(scan[s], snapshots, alerts)
  BY DEF Owed
<1>8. CASE RunState(snap) = "failed" /\ scan[s].attempt < MaxRetries
  <2> DEFINE r == [scan[s] EXCEPT !.attempt = @ + 1]
  <2>1. scan' = [scan EXCEPT ![s] = r] BY <1>1, <1>8
  <2>2. r.pc = "run" /\ r.previous = scan[s].previous /\ r.inserting = scan[s].inserting
    BY <1>2, <1>3 DEF ScanRecords
  <2> HIDE DEF r
  <2>3. Carries(r, snapshots, alerts, clock') /\ PairsDone(r, snapshots, alerts)
    BY <1>2, <1>7, <2>2 DEF Carries, PairsDone, Holding, Detecting
  <2> QED BY <1>2, <1>4, <2>1, <2>3, OwedLocally
<1>9. CASE ~(RunState(snap) = "failed" /\ scan[s].attempt < MaxRetries)
  <2> DEFINE r == [scan[s] EXCEPT !.pc = "compare", !.current = snap]
  <2>1. scan' = [scan EXCEPT ![s] = r] BY <1>1, <1>9
  <2>2. /\ r.pc = "compare" /\ r.previous = scan[s].previous
        /\ r.inserting = scan[s].inserting /\ r.current = snap
        /\ r.request = scan[s].request
    BY <1>3 DEF ScanRecords
  <2>3. asOf = Now => \A p \in snapshots : p.asOf < snap.asOf
    <3> SUFFICES ASSUME asOf = Now, NEW p \in snapshots PROVE p.asOf < snap.asOf OBVIOUS
    <3>1. p.asOf \in Nat BY DEF TypeOK, SnapshotRecords, Time
    <3>2. p.asOf <= clock BY DEF Owed, Timeline
    <3> QED BY <1>3, <1>5, <3>1, <3>2
  <2>4. asOf = Now => snap.asOf <= clock' BY <1>2, <1>3, <1>5
  <2> HIDE DEF r
  <2>5. Carries(r, snapshots, alerts, clock')
    BY <1>0, <1>2, <1>7, <2>2, <2>3, <2>4 DEF Carries, Holding, Detecting
  <2>6. PairsDone(r, snapshots, alerts) BY <1>2, <1>7, <2>2 DEF PairsDone, Detecting
  <2> QED BY <1>2, <1>4, <2>1, <2>5, <2>6, OwedLocally
<1> QED BY <1>8, <1>9

\* To rest, to the cursor, or from one step of holding a snapshot to the next.
LEMMA OwedCompare ==
    ASSUME NEW s \in Scanners, TypeOK, Owed(s), CompareUnchanged(s) \/ CompareChanged(s)
    PROVE  Owed(s)'
<1>1. scan[s] \in ScanRecords /\ clock \in Time /\ clock \in Nat BY DEF TypeOK, Time
<1>2. /\ scan[s].pc = "compare" /\ UNCHANGED <<clock, snapshots, alerts>>
  BY DEF CompareUnchanged, CompareChanged, stores
<1>3. PICK r : /\ scan' = [scan EXCEPT ![s] = r]
               /\ \/ r = Idle
                  \/ r = [scan[s] EXCEPT !.pc = "cursor", !.unchanged = TRUE]
                  \/ r = [scan[s] EXCEPT !.pc = "select_snapshot"] /\ ~scan[s].request.dry
  BY DEF CompareUnchanged, CompareChanged
<1>4. Carries(scan[s], snapshots, alerts, clock) /\ PairsDone(scan[s], snapshots, alerts)
  BY DEF Owed
<1>5. scan[s].inserting = {} BY <1>2, <1>4 DEF Carries
<1>6. scan[s].pc \notin Detecting BY <1>2 DEF Detecting
<1>7. Carries(r, snapshots, alerts, clock) /\ PairsDone(r, snapshots, alerts)
  <2>1. CASE r = Idle
    <3>1. r.pc = "idle" /\ r.inserting = {} BY <2>1 DEF Idle
    <3> QED BY <3>1, <1>4, <1>6, NothingOwed
  <2>2. CASE r = [scan[s] EXCEPT !.pc = "cursor", !.unchanged = TRUE]
    <3>1. r.pc = "cursor" /\ r.inserting = {} BY <2>2, <1>1, <1>5 DEF ScanRecords
    <3> QED BY <3>1, <1>4, <1>6, NothingOwed
  <2>3. CASE r = [scan[s] EXCEPT !.pc = "select_snapshot"] /\ ~scan[s].request.dry
    <3>1. /\ r.pc = "select_snapshot" /\ r.previous = scan[s].previous
          /\ r.current = scan[s].current /\ r.inserting = {}
          /\ r.request = scan[s].request
      BY <2>3, <1>1, <1>5 DEF ScanRecords
    <3>2. Carries(r, snapshots, alerts, clock)
      BY <3>1, <1>2, <1>4 DEF Carries, Holding, Detecting
    <3>3. PairsDone(r, snapshots, alerts) BY <3>1, <1>4, <1>6 DEF PairsDone
    <3> QED BY <3>2, <3>3
  <2> QED BY <1>3, <2>1, <2>2, <2>3
<1>8. clock' \in Time /\ clock <= clock' /\ Carries(r, snapshots, alerts, clock')
  BY <1>1, <1>2, <1>7
<1> QED BY <1>2, <1>3, <1>7, <1>8, OwedLocally

\* The snapshot of a scan is the newest: no other has its key.
LEMMA OwedSelect ==
    ASSUME NEW s \in Scanners, TypeOK, Presents, Owed(s), SelectSnapshot(s)
    PROVE  Owed(s)'
<1>0. ~scan[s].request.dry BY DEF SelectSnapshot, Presents, OfThePresent
<1>1. scan[s] \in ScanRecords /\ clock \in Time /\ clock \in Nat BY DEF TypeOK, Time
<1>2. scan[s].pc = "select_snapshot" /\ UNCHANGED <<clock, snapshots, alerts>>
  BY DEF SelectSnapshot, stores
<1>3. Carries(scan[s], snapshots, alerts, clock) /\ PairsDone(scan[s], snapshots, alerts)
  BY DEF Owed
<1>4. {snap \in snapshots : SameKey(snap, scan[s].current)} = {}
  <2> SUFFICES ASSUME NEW p \in snapshots, p.asOf = scan[s].current.asOf PROVE FALSE
    BY DEF SameKey
  <2>1. p.asOf \in Nat BY DEF TypeOK, SnapshotRecords, Time
  <2>2. p.asOf < scan[s].current.asOf BY <1>0, <1>2, <1>3 DEF Carries, Holding
  <2> QED BY <2>1, <2>2
<1> DEFINE r == [scan[s] EXCEPT !.pc = "insert_snapshot"]
<1>5. scan' = [scan EXCEPT ![s] = r] BY <1>4 DEF SelectSnapshot
<1>6. /\ r.pc = "insert_snapshot" /\ r.previous = scan[s].previous
      /\ r.current = scan[s].current /\ r.inserting = scan[s].inserting
      /\ r.request = scan[s].request
  BY <1>1 DEF ScanRecords
<1> HIDE DEF r
<1>7. Carries(r, snapshots, alerts, clock) /\ PairsDone(r, snapshots, alerts)
  BY <1>2, <1>3, <1>6 DEF Carries, PairsDone, Holding, Detecting
<1>8. clock' \in Time /\ clock <= clock' /\ Carries(r, snapshots, alerts, clock')
  BY <1>1, <1>2, <1>7
<1> QED BY <1>2, <1>5, <1>7, <1>8, OwedLocally

\* The inserted snapshot is the newest, and its baseline the one before it.
LEMMA OwedInsert ==
    ASSUME NEW s \in Scanners, TypeOK, ScansConsistent, Presents, Owed(s), InsertSnapshot(s)
    PROVE  Owed(s)'
<1>0. ~scan[s].request.dry BY DEF InsertSnapshot, Presents, OfThePresent
<1>1. scan[s] \in ScanRecords /\ clock \in Time /\ clock \in Nat BY DEF TypeOK, Time
<1>2. scan[s].pc = "insert_snapshot" /\ UNCHANGED <<clock, alerts>> BY DEF InsertSnapshot
<1>3. Carries(scan[s], snapshots, alerts, clock) /\ PairsDone(scan[s], snapshots, alerts)
  BY DEF Owed
<1> DEFINE prev == scan[s].previous
           cur  == scan[s].current
<1>4. /\ Base(prev, snapshots) /\ cur.asOf <= clock
      /\ \A p \in snapshots : p.asOf < cur.asOf
      /\ scan[s].inserting = {}
  BY <1>0, <1>2, <1>3 DEF Carries, Holding
<1>5. \A p \in snapshots : p.asOf \in Nat BY DEF TypeOK, SnapshotRecords, Time
<1>6. ~ \E snap \in snapshots : SameKey(snap, cur)
  <2> SUFFICES ASSUME NEW p \in snapshots, p.asOf = cur.asOf PROVE FALSE BY DEF SameKey
  <2> QED BY <1>4, <1>5
<1> DEFINE r == [scan[s] EXCEPT !.pc = "detect"]
<1>7. scan' = [scan EXCEPT ![s] = r] /\ snapshots' = snapshots \cup {cur}
  BY <1>6 DEF InsertSnapshot
<1>8. r.pc = "detect" /\ r.previous = prev /\ r.current = cur /\ r.inserting = {}
  BY <1>1, <1>4 DEF ScanRecords
<1>9. scan'[s] = r BY <1>7 DEF TypeOK
<1>a. cur.asOf \in Nat
  <2>1. cur # NoSnapshot BY <1>2 DEF ScansConsistent, Consistent, Steps
  <2> QED BY <1>1, <2>1 DEF ScanRecords, SnapshotRecords, Time
<1> HIDE DEF r, prev, cur
<1>10. Timeline(snapshots', clock)
  <2>1. ASSUME NEW p \in snapshots', NEW q \in snapshots', p.asOf = q.asOf PROVE p = q
    <3>1. CASE p \in snapshots /\ q \in snapshots BY <2>1, <3>1 DEF Owed, Timeline
    <3>2. CASE p = cur /\ q = cur BY <3>2
    <3>3. CASE (p = cur /\ q \in snapshots) \/ (q = cur /\ p \in snapshots)
      BY <1>4, <1>5, <2>1, <3>3
    <3> QED BY <1>7, <3>1, <3>2, <3>3
  <2> QED BY <1>4, <1>7, <2>1 DEF Owed, Timeline
<1>11. Carries(r, snapshots', alerts, clock)
  <2>1. cur \notin snapshots BY <1>4, <1>5
  <2>2. snapshots' \ {cur} = snapshots BY <1>7, <2>1
  <2>3. cur \in Latest(snapshots')
    <3>1. \A p \in snapshots' : p.asOf <= cur.asOf
      <4>1. cur.asOf <= cur.asOf BY <1>a
      <4> QED BY <1>4, <1>5, <1>7, <1>a, <4>1
    <3> QED BY <1>7, <3>1 DEF Latest
  <2> QED BY <1>4, <1>8, <2>2, <2>3 DEF Carries, Holding, Detecting
<1>12. PairsDone(r, snapshots', alerts)
  <2> SUFFICES ASSUME NEW p \in snapshots', NEW q \in snapshots', Neighbours(p, q, snapshots')
               PROVE  \/ \A ch \in Material(p, q) : Alerted(ch, alerts)
                      \/ r.pc \in Detecting /\ p = r.previous /\ q = r.current
    BY DEF PairsDone
  <2>1. CASE q \in snapshots
    <3>1. p \in snapshots BY <1>4, <1>5, <1>7, <1>a, <2>1 DEF Neighbours
    <3>2. Neighbours(p, q, snapshots) BY <1>7, <2>1, <3>1 DEF Neighbours
    <3> QED BY <1>2, <1>3, <2>1, <3>1, <3>2 DEF PairsDone, Detecting
  <2>2. CASE q = cur
    <3>1. p \in snapshots BY <1>7, <1>a, <2>2 DEF Neighbours
    <3>2. prev \in snapshots /\ p.asOf <= prev.asOf BY <1>4, <3>1 DEF Base, Latest
    <3>3. ~(p.asOf < prev.asOf) BY <1>4, <1>7, <2>2, <3>2 DEF Neighbours
    <3>4. p.asOf = prev.asOf BY <1>5, <3>1, <3>2, <3>3
    <3>5. p = prev BY <3>1, <3>2, <3>4 DEF Owed, Timeline
    <3> QED BY <1>8, <2>2, <3>5 DEF Detecting
  <2> QED BY <1>7, <2>1, <2>2
<1> QED BY <1>2, <1>9, <1>10, <1>11, <1>12 DEF Owed
-----------------------------------------------------------------------------
\* What detection relies on: its baseline is the snapshot before its own.
LEMMA Detects ==
    ASSUME NEW s \in Scanners, TypeOK, Owed(s), scan[s].pc \in Detecting
    PROVE  \/ scan[s].previous = NoSnapshot /\ snapshots = {scan[s].current}
           \/ /\ scan[s].previous \in snapshots
              /\ scan[s].previous.asOf < scan[s].current.asOf
<1> DEFINE prev == scan[s].previous
           cur  == scan[s].current
<1>1. cur \in Latest(snapshots) /\ Base(prev, snapshots \ {cur}) BY DEF Owed, Carries
<1>2. CASE snapshots \ {cur} = {} BY <1>1, <1>2 DEF Base, Latest
<1>3. CASE snapshots \ {cur} # {}
  <2>1. prev \in snapshots /\ prev # cur BY <1>1, <1>3 DEF Base, Latest
  <2>2. cur \in snapshots /\ prev.asOf <= cur.asOf BY <1>1, <2>1 DEF Latest
  <2>3. prev.asOf # cur.asOf BY <2>1, <2>2 DEF Owed, Timeline
  <2>4. prev.asOf \in Nat /\ cur.asOf \in Nat
    BY <2>1, <2>2 DEF TypeOK, SnapshotRecords, Time
  <2> QED BY <2>1, <2>2, <2>3, <2>4
<1> QED BY <1>2, <1>3

LEMMA OwedSkip ==
    ASSUME NEW s \in Scanners, TypeOK, Owed(s), SkipDetection(s)
    PROVE  Owed(s)'
<1>1. scan[s] \in ScanRecords /\ clock \in Time /\ clock \in Nat BY DEF TypeOK, Time
<1>2. /\ scan[s].pc = "detect" /\ ~Comparable(s) /\ UNCHANGED <<clock, snapshots, alerts>>
      /\ scan' = [scan EXCEPT ![s].pc = "cursor"]
  BY DEF SkipDetection, stores
<1> DEFINE r == [scan[s] EXCEPT !.pc = "cursor"]
<1>3. scan' = [scan EXCEPT ![s] = r] BY <1>2
<1>4. Carries(scan[s], snapshots, alerts, clock) BY DEF Owed
<1>5. r.pc = "cursor" /\ r.inserting = {} BY <1>1, <1>2, <1>4 DEF ScanRecords, Carries
<1> HIDE DEF r
<1>6. Carries(r, snapshots, alerts, clock') BY <1>5 DEF Carries, Holding, Detecting
<1>7. PairsDone(r, snapshots, alerts)
  <2>1. scan[s].pc \in Detecting BY <1>2 DEF Detecting
  <2>2. CASE scan[s].previous = NoSnapshot /\ snapshots = {scan[s].current}
    <3>1. \A p, q \in snapshots : p = q /\ p.asOf \in Nat
      BY <2>2 DEF TypeOK, SnapshotRecords, Time
    <3>2. \A p, q \in snapshots : ~Neighbours(p, q, snapshots) BY <3>1 DEF Neighbours
    <3> QED BY <3>2 DEF PairsDone
  <2>3. CASE scan[s].previous \in snapshots
             /\ scan[s].previous.asOf < scan[s].current.asOf
    <3>1. scan[s].previous # NoSnapshot BY <2>3, MonitorAssumption DEF TypeOK
    <3> QED BY <1>2, <2>3, <3>1 DEF Comparable
  <2> QED BY <2>1, <2>2, <2>3, Detects
<1>8. clock' \in Time /\ clock <= clock' BY <1>1, <1>2
<1> QED BY <1>2, <1>3, <1>6, <1>7, <1>8, OwedLocally

LEMMA OwedDetect ==
    ASSUME NEW s \in Scanners, TypeOK, Owed(s), SaveChangeSet(s)
    PROVE  Owed(s)'
<1>1. scan[s] \in ScanRecords /\ clock \in Time /\ clock \in Nat BY DEF TypeOK, Time
<1> DEFINE found == DetectChanges(scan[s].previous, scan[s].current, StaleAfter)
           material == {ch \in found : MeetsThreshold(ch)}
           r == [scan[s] EXCEPT !.pc = "alerts", !.pending = material]
<1>2. /\ scan[s].pc = "detect" /\ UNCHANGED <<clock, snapshots, alerts>>
      /\ scan' = [scan EXCEPT ![s] = r]
  BY DEF SaveChangeSet
<1>3. Carries(scan[s], snapshots, alerts, clock) /\ PairsDone(scan[s], snapshots, alerts)
  BY DEF Owed
<1>4. Material(scan[s].previous, scan[s].current) \subseteq material
  BY DEF Material, DetectChanges
<1> HIDE DEF found, material
<1>5. /\ r.pc = "alerts" /\ r.previous = scan[s].previous /\ r.current = scan[s].current
      /\ r.pending = material /\ r.inserting = {}
  BY <1>1, <1>2, <1>3 DEF ScanRecords, Carries
<1> HIDE DEF r
<1>6. clock' \in Time /\ clock <= clock' BY <1>1, <1>2
<1>7. Carries(r, snapshots, alerts, clock')
  BY <1>2, <1>3, <1>4, <1>5 DEF Carries, Holding, Detecting
<1>8. PairsDone(r, snapshots, alerts) BY <1>3, <1>5 DEF PairsDone, Detecting
<1> QED BY <1>2, <1>6, <1>7, <1>8, OwedLocally

LEMMA OwedSelectAlert ==
    ASSUME NEW s \in Scanners, TypeOK, Owed(s), SelectAlert(s)
    PROVE  Owed(s)'
<1>1. scan[s] \in ScanRecords /\ clock \in Time /\ clock \in Nat BY DEF TypeOK, Time
<1>2. scan[s].pc = "alerts" /\ UNCHANGED <<clock, snapshots, alerts>>
  BY DEF SelectAlert, stores
<1>3. Carries(scan[s], snapshots, alerts, clock) /\ PairsDone(scan[s], snapshots, alerts)
  BY DEF Owed
<1>4. PICK ch \in scan[s].pending :
        scan' = IF Alerted(ch, alerts)
                THEN [scan EXCEPT ![s].pending = @ \ {ch}]
                ELSE [scan EXCEPT ![s].pc = "insert_alert",
                                  ![s].pending = @ \ {ch}, ![s].inserting = {ch}]
  BY DEF SelectAlert, Alerted
<1>5. clock' \in Time /\ clock <= clock' BY <1>1, <1>2
<1>6. CASE Alerted(ch, alerts)
  <2> DEFINE r == [scan[s] EXCEPT !.pending = @ \ {ch}]
  <2>1. scan' = [scan EXCEPT ![s] = r] BY <1>4, <1>6
  <2>2. /\ r.pc = "alerts" /\ r.previous = scan[s].previous /\ r.current = scan[s].current
        /\ r.pending = scan[s].pending \ {ch} /\ r.inserting = {}
    BY <1>1, <1>2, <1>3 DEF ScanRecords, Carries
  <2> HIDE DEF r
  <2>3. Carries(r, snapshots, alerts, clock')
    BY <1>2, <1>3, <1>6, <2>2 DEF Carries, Holding, Detecting
  <2>4. PairsDone(r, snapshots, alerts) BY <1>2, <1>3, <2>2 DEF PairsDone
  <2> QED BY <1>2, <1>5, <2>1, <2>3, <2>4, OwedLocally
<1>7. CASE ~Alerted(ch, alerts)
  <2> DEFINE r == [scan[s] EXCEPT !.pc = "insert_alert", !.pending = @ \ {ch}, !.inserting = {ch}]
  <2>1. scan' = [scan EXCEPT ![s] = r] BY <1>4, <1>7
  <2>2. /\ r.pc = "insert_alert" /\ r.previous = scan[s].previous
        /\ r.current = scan[s].current
        /\ r.pending = scan[s].pending \ {ch} /\ r.inserting = {ch}
    BY <1>1 DEF ScanRecords
  <2> HIDE DEF r
  <2>3. Carries(r, snapshots, alerts, clock')
    BY <1>2, <1>3, <1>7, <2>2 DEF Carries, Holding, Detecting
  <2>4. PairsDone(r, snapshots, alerts) BY <1>2, <1>3, <2>2 DEF PairsDone, Detecting
  <2> QED BY <1>2, <1>5, <2>1, <2>3, <2>4, OwedLocally
<1> QED BY <1>6, <1>7

LEMMA OwedInsertAlert ==
    ASSUME NEW s \in Scanners, TypeOK, Owed(s), InsertAlert(s)
    PROVE  Owed(s)'
<1>1. scan[s] \in ScanRecords /\ clock \in Time /\ clock \in Nat BY DEF TypeOK, Time
<1>2. scan[s].pc = "insert_alert" /\ UNCHANGED <<clock, snapshots>> BY DEF InsertAlert
<1>3. Carries(scan[s], snapshots, alerts, clock) /\ PairsDone(scan[s], snapshots, alerts)
  BY DEF Owed
<1>4. PICK ch \in scan[s].inserting :
         IF \E a \in alerts : a.change = ch
         THEN /\ scan' = [scan EXCEPT ![s] = Idle]
              /\ UNCHANGED alerts
         ELSE /\ alerts' = alerts \cup {[change |-> ch, status |-> "new",
                                          snapshot |-> scan[s].current]}
              /\ scan' = [scan EXCEPT ![s].pc = "alerts", ![s].inserting = {}]
  BY DEF InsertAlert
<1>5. scan[s].inserting = {ch} /\ ~Alerted(ch, alerts) BY <1>3, <1>4 DEF Carries
<1> DEFINE r == [scan[s] EXCEPT !.pc = "alerts", !.inserting = {}]
<1>6. /\ alerts' = alerts \cup {[change |-> ch, status |-> "new", snapshot |-> scan[s].current]}
      /\ scan' = [scan EXCEPT ![s] = r]
  BY <1>4, <1>5 DEF Alerted
<1>7. /\ r.pc = "alerts" /\ r.previous = scan[s].previous /\ r.current = scan[s].current
      /\ r.pending = scan[s].pending /\ r.inserting = {}
  BY <1>1 DEF ScanRecords
<1>8. scan'[s] = r BY <1>6 DEF TypeOK
<1> HIDE DEF r
<1>9. Alerted(ch, alerts') /\ \A x : Alerted(x, alerts) => Alerted(x, alerts')
  <2> DEFINE alert == [change |-> ch, status |-> "new", snapshot |-> scan[s].current]
  <2>1. alert.change = ch OBVIOUS
  <2> HIDE DEF alert
  <2>2. alerts' = alerts \cup {alert} BY <1>6 DEF alert
  <2> QED BY <2>1, <2>2 DEF Alerted
<1>10. Carries(r, snapshots, alerts', clock)
  BY <1>2, <1>3, <1>5, <1>7, <1>9 DEF Carries, Holding, Detecting
<1>11. PairsDone(r, snapshots, alerts') BY <1>2, <1>3, <1>7, <1>9 DEF PairsDone, Detecting
<1> QED BY <1>2, <1>8, <1>10, <1>11 DEF Owed

LEMMA OwedDone ==
    ASSUME NEW s \in Scanners, TypeOK, Owed(s), AlertsDone(s)
    PROVE  Owed(s)'
<1>1. scan[s] \in ScanRecords /\ clock \in Time /\ clock \in Nat BY DEF TypeOK, Time
<1> DEFINE r == [scan[s] EXCEPT !.pc = "cursor"]
<1>2. /\ scan[s].pc = "alerts" /\ scan[s].pending = {} /\ UNCHANGED <<clock, snapshots, alerts>>
      /\ scan' = [scan EXCEPT ![s] = r]
  BY DEF AlertsDone, stores
<1>3. Carries(scan[s], snapshots, alerts, clock) /\ PairsDone(scan[s], snapshots, alerts)
  BY DEF Owed
<1>4. scan[s].inserting = {} BY <1>2, <1>3 DEF Carries
<1>5. r.pc = "cursor" /\ r.inserting = {} BY <1>1, <1>4 DEF ScanRecords
<1> HIDE DEF r
<1>6. \A ch \in Material(scan[s].previous, scan[s].current) : Alerted(ch, alerts)
  BY <1>2, <1>3, <1>4 DEF Carries
<1>7. Carries(r, snapshots, alerts, clock') BY <1>5 DEF Carries, Holding, Detecting
<1>8. PairsDone(r, snapshots, alerts) BY <1>3, <1>6 DEF PairsDone
<1>9. clock' \in Time /\ clock <= clock' BY <1>1, <1>2
<1> QED BY <1>2, <1>7, <1>8, <1>9, OwedLocally

LEMMA OwedCursor ==
    ASSUME NEW s \in Scanners, TypeOK, Owed(s), SaveCursor(s)
    PROVE  Owed(s)'
<1>1. clock \in Time /\ clock \in Nat BY DEF TypeOK, Time
<1>2. scan[s].pc = "cursor" /\ UNCHANGED <<clock, snapshots, alerts>>
      /\ scan' = [scan EXCEPT ![s] = Idle]
  BY DEF SaveCursor
<1>3. PairsDone(scan[s], snapshots, alerts) /\ scan[s].pc \notin Detecting
  BY <1>2 DEF Owed, Detecting
<1>4. Idle.pc = "idle" /\ Idle.inserting = {} BY DEF Idle
<1>5. Carries(Idle, snapshots, alerts, clock') /\ PairsDone(Idle, snapshots, alerts)
  BY <1>3, <1>4, NothingOwed
<1>6. clock' \in Time /\ clock <= clock' BY <1>1, <1>2
<1> QED BY <1>2, <1>5, <1>6, OwedLocally

\* Others: the reader who compares, the analyst, and time.
LEMMA OwedOthers ==
    ASSUME NEW s \in Scanners, TypeOK, ScansConsistent, Owed(s),
           ViewChanges \/ ActOnAlert \/ Tick \/ UNCHANGED vars
    PROVE  Owed(s)'
<1>1. UNCHANGED <<snapshots, scan>> BY DEF ViewChanges, ActOnAlert, Tick, vars, stores
<1>2. clock \in Nat /\ clock' \in Nat /\ clock <= clock'
  BY DEF TypeOK, Time, ViewChanges, ActOnAlert, Tick, vars, stores
<1>3. \A ch : Alerted(ch, alerts') <=> Alerted(ch, alerts)
  <2>1. CASE ActOnAlert
    <3>1. PICK x \in alerts, status \in {"acknowledged", "ignored"} :
             alerts' = (alerts \ {x}) \cup {[x EXCEPT !.status = status]}
      BY <2>1 DEF ActOnAlert
    <3>2. x \in AlertRecords BY DEF TypeOK
    <3>3. [x EXCEPT !.status = status].change = x.change BY <3>2 DEF AlertRecords
    <3> QED BY <3>1, <3>3 DEF Alerted
  <2>2. CASE UNCHANGED alerts BY <2>2
  <2> QED BY <2>1, <2>2 DEF ViewChanges, Tick, vars, stores
<1>4. Timeline(snapshots, clock')
  <2> SUFFICES ASSUME NEW p \in snapshots PROVE p.asOf <= clock'
    BY DEF Owed, Timeline
  <2>1. p.asOf \in Nat /\ p.asOf <= clock BY DEF TypeOK, SnapshotRecords, Time, Owed, Timeline
  <2> QED BY <1>2, <2>1
<1>5. Carries(scan[s], snapshots, alerts', clock')
  <2>1. Carries(scan[s], snapshots, alerts, clock) BY DEF Owed
  <2>2. scan[s].pc \in Holding /\ ~scan[s].request.dry => scan[s].current.asOf <= clock'
    <3> SUFFICES ASSUME scan[s].pc \in Holding, ~scan[s].request.dry
                 PROVE  scan[s].current.asOf <= clock' OBVIOUS
    <3>1. scan[s].current.asOf <= clock BY <2>1 DEF Carries
    <3>2. scan[s].current # NoSnapshot BY DEF ScansConsistent, Consistent, Holding, Steps
    <3>3. scan[s].current.asOf \in Nat
      BY <3>2 DEF TypeOK, ScanRecords, SnapshotRecords, Time
    <3> QED BY <1>2, <3>1, <3>3
  <2> QED BY <1>3, <2>1, <2>2 DEF Carries
<1>6. PairsDone(scan[s], snapshots, alerts') BY <1>3 DEF Owed, PairsDone
<1> QED BY <1>1, <1>4, <1>5, <1>6 DEF Owed
-----------------------------------------------------------------------------
LEMMA OwedStep ==
    ASSUME NEW s, OneScanner(s), TypeOK, ScansConsistent, Presents, Owed(s), [Next]_vars
    PROVE  Owed(s)'
<1>1. s \in Scanners /\ \A q \in Scanners : q = s BY DEF OneScanner
<1>2. ~Abort(s) /\ ~PersistRun BY DEF OneScanner, Abort, PersistRun
<1>3. ReadBaseline(s) \/ ScanStep(s) \/ ViewChanges \/ ActOnAlert \/ Tick \/ UNCHANGED vars
  BY <1>1, <1>2 DEF Next
<1> QED BY <1>1, <1>3, OwedBaseline, OwedRun, OwedCompare, OwedSelect, OwedInsert, OwedSkip,
           OwedDetect, OwedSelectAlert, OwedInsertAlert, OwedDone, OwedCursor, OwedOthers
        DEF ScanStep

LEMMA NothingLost ==
    ASSUME NEW s, OneScanner(s), Owed(s)
    PROVE  NoLostChange
<1> SUFFICES ASSUME \A t \in Scanners : Returned(t),
                    NEW p \in snapshots, NEW q \in snapshots, Successive(p, q),
                    NEW ch \in ValueChanges(p, q), MeetsThreshold(ch)
             PROVE  \E a \in alerts : a.change = ch
  BY DEF NoLostChange
<1>1. scan[s].pc = "idle" BY DEF OneScanner, Returned, Idle
<1>2. Neighbours(p, q, snapshots)
  BY DEF Neighbours, Successive
<1>3. Alerted(ch, alerts) BY <1>1, <1>2 DEF Owed, PairsDone, Material, Detecting
<1> QED BY <1>3 DEF Alerted

\* A scan of the present at a time, dry ones of any cutoff between them, and
\* providers that fail as they please: whenever the scan has returned, every
\* material change of fact between successive stored snapshots has its alert, for
\* any history, horizon, retries and reader (monitor.py:120-199).
THEOREM NoChangeIsLost ==
    ASSUME NEW CONSTANT s, OneScanner(s), PresentCutoffs
    PROVE  Spec => []NoLostChange
<1>1. Init => Presents /\ Owed(s)
  <2> SUFFICES ASSUME Init PROVE Presents /\ Owed(s) OBVIOUS
  <2>1. scan[s].pc = "idle" /\ scan[s].inserting = {} /\ snapshots = {}
    BY DEF Init, Idle, OneScanner
  <2>2. Owed(s)
    BY <2>1 DEF Owed, Timeline, Carries, PairsDone, Holding, Detecting
  <2> QED BY <2>2 DEF Init, Presents, OfThePresent, Idle
<1>2. IInv /\ Presents /\ Owed(s) /\ [Next]_vars => Presents' /\ Owed(s)'
  BY PresentsStep, OwedStep DEF IInv
<1>3. Owed(s) => NoLostChange BY NothingLost
<1> QED BY <1>1, <1>2, <1>3, InvariantHolds, PTL DEF Spec
-----------------------------------------------------------------------------
(* The cursor comes last *)

\* The steps at which a comparison has been made and not yet been reported on.
Alerting == {"alerts", "insert_alert"}

\* What a scan with local state r has still to alert, given changes and alerts:
\* it is in its hands, and nothing is once it is at its cursor.
Reports(r, C, A) ==
    /\ r.pc \notin Alerting => r.pending = {}
    /\ r.pc # "insert_alert" => r.inserting = {}
    /\ \A ch, other \in r.inserting : ch = other
    /\ /\ r.pc \in Alerting \/ (r.pc = "cursor" /\ ~r.unchanged)
       /\ r.previous # NoSnapshot
       /\ r.previous.asOf < r.current.asOf
       => \A ch \in DetectChanges(r.previous, r.current, StaleAfter) :
             /\ ch \in C
             /\ MeetsThreshold(ch) => Alerted(ch, A) \/ ch \in r.pending \cup r.inserting

Reporting == \A s \in Scanners : Reports(scan[s], changes, alerts)

\* Changes and the alerts on them are never taken back.
LEMMA ReportsKept ==
    ASSUME NEW r, NEW C, NEW D, NEW A, NEW B, Reports(r, C, A),
           C \subseteq D, \A ch : Alerted(ch, A) => Alerted(ch, B)
    PROVE  Reports(r, D, B)
<1> HIDE DEF Alerted
<1> QED BY DEF Reports

LEMMA AlertedKept ==
    ASSUME TypeOK, [Next]_vars
    PROVE  changes \subseteq changes' /\ \A ch : Alerted(ch, alerts) => Alerted(ch, alerts')
<1>1. changes \subseteq changes'
  BY DEF Next, ScanStep, ReadBaseline, RunOrchestrator, CompareUnchanged, CompareChanged,
         SelectSnapshot, InsertSnapshot, SkipDetection, SaveChangeSet, SelectAlert,
         InsertAlert, AlertsDone, SaveCursor, Abort, PersistRun, ViewChanges, ActOnAlert,
         Tick, vars, stores
<1>2. CASE ActOnAlert
  <2>1. PICK x \in alerts, status \in {"acknowledged", "ignored"} :
           alerts' = (alerts \ {x}) \cup {[x EXCEPT !.status = status]}
    BY <1>2 DEF ActOnAlert
  <2>2. x \in AlertRecords BY DEF TypeOK
  <2>3. [x EXCEPT !.status = status].change = x.change BY <2>2 DEF AlertRecords
  <2> QED BY <1>1, <2>1, <2>3 DEF Alerted
<1>3. CASE ~ActOnAlert
  <2>1. alerts \subseteq alerts'
    BY <1>3 DEF Next, ScanStep, ReadBaseline, RunOrchestrator, CompareUnchanged,
           CompareChanged, SelectSnapshot, InsertSnapshot, SkipDetection, SaveChangeSet,
           SelectAlert, InsertAlert, AlertsDone, SaveCursor, Abort, PersistRun,
           ViewChanges, Tick, vars, stores
  <2> QED BY <1>1, <2>1 DEF Alerted
<1> QED BY <1>2, <1>3

\* A step of one scan to r leaves the reports of the others as they were.
LEMMA ReportingLocally ==
    ASSUME TypeOK, Reporting, [Next]_vars, NEW s \in Scanners, NEW r,
           scan' = [scan EXCEPT ![s] = r], Reports(r, changes', alerts')
    PROVE  Reporting'
<1> SUFFICES ASSUME NEW t \in Scanners PROVE Reports(scan'[t], changes', alerts')
  BY DEF Reporting
<1>1. CASE t = s BY <1>1 DEF TypeOK
<1>2. CASE t # s
  <2>1. scan'[t] = scan[t] BY <1>2 DEF TypeOK
  <2>2. Reports(scan[t], changes', alerts')
    BY AlertedKept, ReportsKept DEF Reporting
  <2> QED BY <2>1, <2>2
<1> QED BY <1>1, <1>2

\* A row that has nothing in its hands and compares nothing reports nothing.
LEMMA NothingToReport ==
    ASSUME NEW r, NEW C, NEW A, r.pending = {}, r.inserting = {}, r.pc \notin Alerting,
           r.pc = "cursor" =>
              r.unchanged \/ r.previous = NoSnapshot \/ ~(r.previous.asOf < r.current.asOf)
    PROVE  Reports(r, C, A)
BY DEF Reports

\* The steps of a scan up to its comparison, and those that end it.
LEMMA ReportingOutside ==
    ASSUME TypeOK, Reporting, [Next]_vars, NEW s \in Scanners,
           \/ ReadBaseline(s) \/ RunOrchestrator(s) \/ CompareUnchanged(s)
           \/ CompareChanged(s) \/ SelectSnapshot(s) \/ InsertSnapshot(s)
           \/ SkipDetection(s) \/ SaveCursor(s) \/ Abort(s)
    PROVE  Reporting'
<1>1. scan[s] \in ScanRecords /\ Reports(scan[s], changes, alerts) BY DEF TypeOK, Reporting
<1>2. Idle.pending = {} /\ Idle.inserting = {} /\ Idle.pc = "idle" BY DEF Idle
<1>3. ASSUME NEW r, scan' = [scan EXCEPT ![s] = r], r.pending = {}, r.inserting = {},
             r.pc \notin Alerting,
             r.pc = "cursor" =>
                r.unchanged \/ r.previous = NoSnapshot \/ ~(r.previous.asOf < r.current.asOf)
      PROVE  Reporting'
  BY <1>3, NothingToReport, ReportingLocally
<1>4. CASE scan' = [scan EXCEPT ![s] = Idle] BY <1>2, <1>3, <1>4 DEF Alerting
<1>5. CASE ReadBaseline(s)
  <2>1. PICK request, prev :
           scan' = [scan EXCEPT ![s] = [Idle EXCEPT !.pc = "run", !.request = request,
                                                    !.previous = prev]]
    BY <1>5 DEF ReadBaseline
  <2> DEFINE r == [Idle EXCEPT !.pc = "run", !.request = request, !.previous = prev]
  <2>2. r.pc = "run" /\ r.pending = {} /\ r.inserting = {} BY DEF Idle
  <2> HIDE DEF r
  <2>3. scan' = [scan EXCEPT ![s] = r] BY <2>1 DEF r
  <2> QED BY <2>2, <2>3, <1>3 DEF Alerting
<1>6. CASE RunOrchestrator(s)
  <2>1. scan[s].pending = {} /\ scan[s].inserting = {} /\ scan[s].pc = "run"
    BY <1>1, <1>6 DEF RunOrchestrator, Reports, Alerting
  <2>2. PICK snap : \/ scan' = [scan EXCEPT ![s].attempt = @ + 1]
                    \/ scan' = [scan EXCEPT ![s].pc = "compare", ![s].current = snap]
    BY <1>6 DEF RunOrchestrator
  <2>3. PICK r : /\ scan' = [scan EXCEPT ![s] = r]
                 /\ \/ r = [scan[s] EXCEPT !.attempt = @ + 1]
                    \/ r = [scan[s] EXCEPT !.pc = "compare", !.current = snap]
    BY <2>2
  <2>4. r.pending = {} /\ r.inserting = {} /\ r.pc \in {"run", "compare"}
    BY <1>1, <2>1, <2>3 DEF ScanRecords
  <2> QED BY <2>3, <2>4, <1>3 DEF Alerting
<1>7. CASE CompareUnchanged(s) \/ CompareChanged(s)
  <2>1. scan[s].pending = {} /\ scan[s].inserting = {}
    BY <1>1, <1>7 DEF CompareUnchanged, CompareChanged, Reports, Alerting
  <2>2. PICK r : /\ scan' = [scan EXCEPT ![s] = r]
                 /\ \/ r = Idle
                    \/ r = [scan[s] EXCEPT !.pc = "cursor", !.unchanged = TRUE]
                    \/ r = [scan[s] EXCEPT !.pc = "select_snapshot"]
    BY <1>7 DEF CompareUnchanged, CompareChanged
  <2>3. CASE r = Idle BY <2>2, <2>3, <1>4
  <2>4. CASE r = [scan[s] EXCEPT !.pc = "cursor", !.unchanged = TRUE]
    <3>1. r.pending = {} /\ r.inserting = {} /\ r.pc = "cursor" /\ r.unchanged
      BY <1>1, <2>1, <2>4 DEF ScanRecords
    <3> QED BY <2>2, <3>1, <1>3 DEF Alerting
  <2>5. CASE r = [scan[s] EXCEPT !.pc = "select_snapshot"]
    <3>1. r.pending = {} /\ r.inserting = {} /\ r.pc = "select_snapshot"
      BY <1>1, <2>1, <2>5 DEF ScanRecords
    <3> QED BY <2>2, <3>1, <1>3 DEF Alerting
  <2> QED BY <2>2, <2>3, <2>4, <2>5
<1>8. CASE SelectSnapshot(s) \/ InsertSnapshot(s)
  <2>1. scan[s].pending = {} /\ scan[s].inserting = {}
    BY <1>1, <1>8 DEF SelectSnapshot, InsertSnapshot, Reports, Alerting
  <2>2. PICK snap : \/ scan' = [scan EXCEPT ![s].pc = "insert_snapshot"]
                    \/ scan' = [scan EXCEPT ![s].pc = "detect", ![s].current = snap]
                    \/ scan' = [scan EXCEPT ![s].pc = "detect"]
                    \/ scan' = [scan EXCEPT ![s] = Idle]
    BY <1>8 DEF SelectSnapshot, InsertSnapshot
  <2>3. PICK r : /\ scan' = [scan EXCEPT ![s] = r]
                 /\ \/ r = [scan[s] EXCEPT !.pc = "insert_snapshot"]
                    \/ r = [scan[s] EXCEPT !.pc = "detect", !.current = snap]
                    \/ r = [scan[s] EXCEPT !.pc = "detect"]
                    \/ r = Idle
    BY <2>2
  <2>4. r.pending = {} /\ r.inserting = {} /\ r.pc \in {"insert_snapshot", "detect", "idle"}
    <3>1. CASE r = [scan[s] EXCEPT !.pc = "insert_snapshot"]
      BY <1>1, <2>1, <3>1 DEF ScanRecords
    <3>2. CASE r = [scan[s] EXCEPT !.pc = "detect", !.current = snap]
      BY <1>1, <2>1, <3>2 DEF ScanRecords
    <3>3. CASE r = [scan[s] EXCEPT !.pc = "detect"]
      BY <1>1, <2>1, <3>3 DEF ScanRecords
    <3> QED BY <1>2, <2>3, <3>1, <3>2, <3>3
  <2> QED BY <2>3, <2>4, <1>3 DEF Alerting
<1>9. CASE SkipDetection(s)
  <2> DEFINE r == [scan[s] EXCEPT !.pc = "cursor"]
  <2>1. scan' = [scan EXCEPT ![s] = r] BY <1>9 DEF SkipDetection
  <2>2. scan[s].pending = {} /\ scan[s].inserting = {} /\ ~Comparable(s)
    BY <1>1, <1>9 DEF SkipDetection, Reports, Alerting
  <2>3. r.pending = {} /\ r.inserting = {} /\ r.pc = "cursor"
        /\ r.previous = scan[s].previous /\ r.current = scan[s].current
    BY <1>1, <2>2 DEF ScanRecords
  <2> HIDE DEF r
  <2> QED BY <2>1, <2>2, <2>3, <1>3 DEF Alerting, Comparable
<1> QED BY <1>4, <1>5, <1>6, <1>7, <1>8, <1>9 DEF SaveCursor, Abort

\* What the comparison finds is stored, and the material part is in hand.
LEMMA ReportingFound ==
    ASSUME TypeOK, Reporting, [Next]_vars, NEW s \in Scanners, SaveChangeSet(s)
    PROVE  Reporting'
<1> DEFINE found == DetectChanges(scan[s].previous, scan[s].current, StaleAfter)
           material == {ch \in found : MeetsThreshold(ch)}
           r == [scan[s] EXCEPT !.pc = "alerts", !.pending = material]
<1>1. scan[s] \in ScanRecords /\ Reports(scan[s], changes, alerts) BY DEF TypeOK, Reporting
<1>2. /\ scan[s].pc = "detect" /\ scan' = [scan EXCEPT ![s] = r]
      /\ changes' = changes \cup found
  BY DEF SaveChangeSet
<1>3. /\ r.pc = "alerts" /\ r.previous = scan[s].previous /\ r.current = scan[s].current
      /\ r.pending = material /\ r.inserting = {}
  BY <1>1, <1>2 DEF ScanRecords, Reports
<1>4. DetectChanges(r.previous, r.current, StaleAfter) = found BY <1>3
<1> HIDE DEF found, r
<1>5. Reports(r, changes', alerts') BY <1>2, <1>3, <1>4 DEF Reports, Alerting
<1> QED BY <1>2, <1>5, ReportingLocally

\* A change leaves the hands of its scan alerted; at the end none is left.
LEMMA ReportingAlerts ==
    ASSUME TypeOK, Reporting, [Next]_vars, NEW s \in Scanners,
           SelectAlert(s) \/ InsertAlert(s) \/ AlertsDone(s)
    PROVE  Reporting'
<1>1. scan[s] \in ScanRecords /\ Reports(scan[s], changes, alerts) BY DEF TypeOK, Reporting
<1> DEFINE found == DetectChanges(scan[s].previous, scan[s].current, StaleAfter)
           compared == /\ scan[s].previous # NoSnapshot
                       /\ scan[s].previous.asOf < scan[s].current.asOf
<1>2. scan[s].pc \in Alerting /\ changes' = changes
  BY DEF SelectAlert, InsertAlert, AlertsDone, Alerting, stores
<1>3. compared => \A ch \in found :
         /\ ch \in changes
         /\ MeetsThreshold(ch) =>
              Alerted(ch, alerts) \/ ch \in scan[s].pending \cup scan[s].inserting
  BY <1>1, <1>2 DEF Reports
<1>4. ASSUME NEW r, r.previous = scan[s].previous, r.current = scan[s].current,
             r.pc \in Alerting \cup {"cursor"},
             r.pc \notin Alerting => r.pending = {},
             r.pc # "insert_alert" => r.inserting = {},
             \A ch, other \in r.inserting : ch = other,
             \A ch \in scan[s].pending \cup scan[s].inserting :
                Alerted(ch, alerts') \/ ch \in r.pending \cup r.inserting
      PROVE  Reports(r, changes', alerts')
  <2>1. DetectChanges(r.previous, r.current, StaleAfter) = found BY <1>4
  <2>2. \A ch : Alerted(ch, alerts) => Alerted(ch, alerts') BY AlertedKept
  <2>3. compared => \A ch \in found :
          /\ ch \in changes'
          /\ MeetsThreshold(ch) => Alerted(ch, alerts') \/ ch \in r.pending \cup r.inserting
    BY <1>2, <1>3, <1>4, <2>2
  <2> HIDE DEF found
  <2> QED BY <1>4, <2>1, <2>3 DEF Reports
<1> HIDE DEF found, compared
<1>5. CASE SelectAlert(s)
  <2>1. scan[s].inserting = {} /\ scan[s].pc = "alerts" /\ alerts' = alerts
    BY <1>1, <1>5 DEF SelectAlert, Reports, stores
  <2>2. PICK ch \in scan[s].pending :
          scan' = IF Alerted(ch, alerts)
                  THEN [scan EXCEPT ![s].pending = @ \ {ch}]
                  ELSE [scan EXCEPT ![s].pc = "insert_alert",
                                    ![s].pending = @ \ {ch}, ![s].inserting = {ch}]
    BY <1>5 DEF SelectAlert, Alerted
  <2>3. CASE Alerted(ch, alerts)
    <3> DEFINE r == [scan[s] EXCEPT !.pending = @ \ {ch}]
    <3>1. scan' = [scan EXCEPT ![s] = r] BY <2>2, <2>3
    <3>2. /\ r.pc = "alerts" /\ r.previous = scan[s].previous /\ r.current = scan[s].current
          /\ r.pending = scan[s].pending \ {ch} /\ r.inserting = {}
      BY <1>1, <2>1 DEF ScanRecords
    <3> HIDE DEF r
    <3>3. Reports(r, changes', alerts') BY <1>4, <2>1, <2>3, <3>2 DEF Alerting
    <3> QED BY <3>1, <3>3, ReportingLocally
  <2>4. CASE ~Alerted(ch, alerts)
    <3> DEFINE r == [scan[s] EXCEPT !.pc = "insert_alert", !.pending = @ \ {ch},
                                    !.inserting = {ch}]
    <3>1. scan' = [scan EXCEPT ![s] = r] BY <2>2, <2>4
    <3>2. /\ r.pc = "insert_alert" /\ r.previous = scan[s].previous
          /\ r.current = scan[s].current
          /\ r.pending = scan[s].pending \ {ch} /\ r.inserting = {ch}
      BY <1>1 DEF ScanRecords
    <3> HIDE DEF r
    <3>3. Reports(r, changes', alerts') BY <1>4, <2>1, <3>2 DEF Alerting
    <3> QED BY <3>1, <3>3, ReportingLocally
  <2> QED BY <2>3, <2>4
<1>6. CASE InsertAlert(s)
  <2>1. PICK ch \in scan[s].inserting :
          IF \E a \in alerts : a.change = ch
          THEN /\ scan' = [scan EXCEPT ![s] = Idle]
               /\ UNCHANGED alerts
          ELSE /\ alerts' = alerts \cup {[change |-> ch, status |-> "new",
                                          snapshot |-> scan[s].current]}
               /\ scan' = [scan EXCEPT ![s].pc = "alerts", ![s].inserting = {}]
    BY <1>6 DEF InsertAlert
  <2>2. scan[s].inserting = {ch} BY <1>1, <2>1 DEF Reports
  <2>3. CASE Alerted(ch, alerts)
    <3>1. scan' = [scan EXCEPT ![s] = Idle] BY <2>1, <2>3 DEF Alerted
    <3>2. Idle.pending = {} /\ Idle.inserting = {} /\ Idle.pc = "idle" BY DEF Idle
    <3>3. Reports(Idle, changes', alerts') BY <3>2, NothingToReport DEF Alerting
    <3> QED BY <3>1, <3>3, ReportingLocally
  <2>4. CASE ~Alerted(ch, alerts)
    <3> DEFINE r == [scan[s] EXCEPT !.pc = "alerts", !.inserting = {}]
               alert == [change |-> ch, status |-> "new", snapshot |-> scan[s].current]
    <3>1. scan' = [scan EXCEPT ![s] = r] /\ alerts' = alerts \cup {alert}
      BY <2>1, <2>4 DEF Alerted
    <3>2. /\ r.pc = "alerts" /\ r.previous = scan[s].previous /\ r.current = scan[s].current
          /\ r.pending = scan[s].pending /\ r.inserting = {}
      BY <1>1 DEF ScanRecords
    <3>3. alert.change = ch OBVIOUS
    <3> HIDE DEF r, alert
    <3>4. Alerted(ch, alerts') BY <3>1, <3>3 DEF Alerted
    <3>5. Reports(r, changes', alerts') BY <1>4, <2>2, <3>2, <3>4 DEF Alerting
    <3> QED BY <3>1, <3>5, ReportingLocally
  <2> QED BY <2>3, <2>4
<1>7. CASE AlertsDone(s)
  <2> DEFINE r == [scan[s] EXCEPT !.pc = "cursor"]
  <2>1. scan' = [scan EXCEPT ![s] = r] BY <1>7 DEF AlertsDone
  <2>2. scan[s].pending = {} /\ scan[s].inserting = {}
    BY <1>1, <1>7 DEF AlertsDone, Reports
  <2>3. /\ r.pc = "cursor" /\ r.previous = scan[s].previous /\ r.current = scan[s].current
        /\ r.pending = {} /\ r.inserting = {}
    BY <1>1, <2>2 DEF ScanRecords
  <2> HIDE DEF r
  <2>4. Reports(r, changes', alerts') BY <1>4, <2>2, <2>3 DEF Alerting
  <2> QED BY <2>1, <2>4, ReportingLocally
<1> QED BY <1>5, <1>6, <1>7

LEMMA ReportingStep ==
    ASSUME TypeOK, Reporting, [Next]_vars
    PROVE  Reporting'
<1>1. CASE UNCHANGED scan
  <2> SUFFICES ASSUME NEW t \in Scanners PROVE Reports(scan[t], changes', alerts')
    BY <1>1 DEF Reporting
  <2> QED BY AlertedKept, ReportsKept DEF Reporting
<1>2. CASE \E s \in Scanners : ReadBaseline(s) \/ ScanStep(s) \/ Abort(s)
  BY <1>2, ReportingOutside, ReportingFound, ReportingAlerts DEF ScanStep
<1> QED BY <1>1, <1>2 DEF Next, PersistRun, ViewChanges, ActOnAlert, Tick, vars

\* However scans overlap, fail between their transactions or meet an analyst, a
\* scan that compared two snapshots reaches its cursor only with every change
\* stored and every material one alerted (monitor.py:153-185): a change can be
\* lost only by a scan that ended earlier.  The cursor's snapshot can always be
\* fetched (monitor.py:230-242).
THEOREM CursorComesLast == Spec => []CursorHolds
<1>1. Init => Reporting
  BY DEF Init, Reporting, Reports, Idle, Alerting
<1>2. IInv /\ Reporting /\ [Next]_vars => Reporting'
  BY ReportingStep DEF IInv
<1>3. Reporting => CursorAfterAlerts
  <2> SUFFICES ASSUME Reporting, NEW s \in Scanners, scan[s].pc = "cursor",
                      ~scan[s].unchanged, Comparable(s),
                      NEW ch \in DetectChanges(scan[s].previous, scan[s].current, StaleAfter)
               PROVE  /\ ch \in changes
                      /\ MeetsThreshold(ch) => \E a \in alerts : a.change = ch
    BY DEF CursorAfterAlerts
  <2>1. Reports(scan[s], changes, alerts) BY DEF Reporting
  <2>2. scan[s].pending = {} /\ scan[s].inserting = {} BY <2>1 DEF Reports, Alerting
  <2> QED BY <2>1, <2>2 DEF Reports, Comparable, Alerted
<1>4. IInv /\ Reporting => CursorHolds BY <1>3 DEF IInv, CursorHolds
<1> QED BY <1>1, <1>2, <1>4, InvariantHolds, PTL DEF Spec
-----------------------------------------------------------------------------
(* Scans end *)

\* A snapshot has finitely many sources, and a comparison finds finitely many changes.
LEMMA FewComponents ==
    ASSUME NEW S, S \subseteq Components
    PROVE  IsFiniteSet(S)
<1>1. IsFiniteSet({}) BY FS_EmptySet
<1>2. IsFiniteSet({} \cup {"financials"}) BY <1>1, FS_AddElement
<1>3. IsFiniteSet(({} \cup {"financials"}) \cup {"management"}) BY <1>2, FS_AddElement
<1>4. IsFiniteSet((({} \cup {"financials"}) \cup {"management"}) \cup {"risks"})
  BY <1>3, FS_AddElement
<1>5. Components = (({} \cup {"financials"}) \cup {"management"}) \cup {"risks"}
  BY DEF Components
<1>6. IsFiniteSet(Components) BY <1>4, <1>5
<1> QED BY <1>6, FS_Subset

LEMMA FewSources ==
    ASSUME NEW p
    PROVE  IsFiniteSet(Sources(p))
<1> DEFINE dated == Loaded(p) \ {"risks"}
           linked == {c \in Loaded(p) \ dated : p.workflow /\ p.facts[c].fact # NoRisks}
           ofDated == [c \in dated |-> [of |-> c, filed |-> p.facts[c].filed]]
           ofLinked == [c \in linked |-> [of |-> c, filed |-> p.asOf]]
<1>1. dated \subseteq Components /\ linked \subseteq Components BY DEF Loaded
<1>2. Sources(p) = {ofDated[c] : c \in dated} \cup {ofLinked[c] : c \in linked}
  BY DEF Sources
<1> HIDE DEF dated, linked, ofDated, ofLinked
<1>3. IsFiniteSet({ofDated[c] : c \in dated}) BY <1>1, FewComponents, ImageIsFinite
<1>4. IsFiniteSet({ofLinked[c] : c \in linked}) BY <1>1, FewComponents, ImageIsFinite
<1> QED BY <1>2, <1>3, <1>4, FS_Union

LEMMA FewChanges ==
    ASSUME NEW p, NEW q, NEW h
    PROVE  IsFiniteSet(DetectChanges(p, q, h))
<1>1. IsFiniteSet(ValueChanges(p, q))
  <2> DEFINE D == {d \in Loaded(p) \cap Loaded(q) : p.facts[d].fact # q.facts[d].fact}
             f == [c \in D |-> [kind |-> "value", of |-> c, was |-> Evidence(c, p.facts[c]),
                                is |-> Evidence(c, q.facts[c])]]
  <2>1. ValueChanges(p, q) = {f[c] : c \in D} BY DEF ValueChanges
  <2>2. D \subseteq Components BY DEF Loaded
  <2> HIDE DEF D, f
  <2> QED BY <2>1, <2>2, FewComponents, ImageIsFinite
<1>2. IsFiniteSet(CoverageChanges(p, q))
  BY FS_EmptySet, FS_Singleton DEF CoverageChanges
<1>3. IsFiniteSet(StaleChanges(p, q, h))
  <2> DEFINE D == CrossingSources(p, q, h)
             f == [src \in D |->
                     [kind |-> "stale", source |-> src, age |-> Age(q, src),
                      was |-> IF src \in Sources(p) THEN {Age(p, src)} ELSE {}]]
  <2>1. StaleChanges(p, q, h) = {f[c] : c \in D} BY DEF StaleChanges
  <2>2. D \subseteq Sources(q) BY DEF CrossingSources
  <2> HIDE DEF D, f
  <2>3. IsFiniteSet(D) BY <2>2, FewSources, FS_Subset
  <2> QED BY <2>1, <2>3, ImageIsFinite
<1>4. IsFiniteSet(ValueChanges(p, q) \cup CoverageChanges(p, q)) BY <1>1, <1>2, FS_Union
<1> QED BY <1>3, <1>4, FS_Union DEF DetectChanges

\* What a scan counts down from: finitely many changes, no more attempts than given.
Counted(r) ==
    /\ IsFiniteSet(r.pending)
    /\ r.pc = "run" => r.attempt \in 0..MaxRetries

Counting == \A s \in Scanners : Counted(scan[s])

LEMMA Stages ==
    /\ Stage["run"] = 7 /\ Stage["compare"] = 6 /\ Stage["select_snapshot"] = 5
    /\ Stage["insert_snapshot"] = 4 /\ Stage["detect"] = 3 /\ Stage["alerts"] = 2
    /\ Stage["insert_alert"] = 2 /\ Stage["cursor"] = 1 /\ Stage["idle"] = 0
BY DEF Stage

\* A step of the scan s to a row that is counted, and nearer to the end if s had started.
Forward(s) ==
    \E r : /\ scan' = [scan EXCEPT ![s] = r]
           /\ Counted(r)
           /\ scan[s].pc \in Steps => Nearer(r, scan[s])

LEMMA ForwardEnds ==
    ASSUME NEW s \in Scanners, TypeOK, scan' = [scan EXCEPT ![s] = Idle]
    PROVE  Forward(s)
<1>1. Idle.pc = "idle" /\ Idle.pending = {} BY DEF Idle
<1>2. Counted(Idle) BY <1>1, FS_EmptySet DEF Counted
<1>3. scan[s].pc \in Steps => Stage[Idle.pc] < Stage[scan[s].pc]
  BY <1>1, Stages DEF Steps
<1> QED BY <1>2, <1>3 DEF Forward, Nearer

\* On to the next stage, with no more in hand than before.
LEMMA ForwardOn ==
    ASSUME NEW s \in Scanners, TypeOK, Counting, NEW r,
           scan' = [scan EXCEPT ![s] = r], r.pending = scan[s].pending,
           r.pc # "run", scan[s].pc \in Steps, Stage[r.pc] < Stage[scan[s].pc]
    PROVE  Forward(s)
BY DEF Forward, Nearer, Counted, Counting

LEMMA ForwardRun ==
    ASSUME NEW s \in Scanners, TypeOK, Counting, RunOrchestrator(s)
    PROVE  Forward(s)
<1>1. scan[s] \in ScanRecords /\ Counted(scan[s]) /\ scan[s].pc = "run"
  BY DEF TypeOK, Counting, RunOrchestrator
<1>2. PICK snap : IF RunState(snap) = "failed" /\ scan[s].attempt < MaxRetries
                  THEN scan' = [scan EXCEPT ![s].attempt = @ + 1]
                  ELSE scan' = [scan EXCEPT ![s].pc = "compare", ![s].current = snap]
  BY DEF RunOrchestrator
<1>3. CASE RunState(snap) = "failed" /\ scan[s].attempt < MaxRetries
  <2> DEFINE r == [scan[s] EXCEPT !.attempt = @ + 1]
  <2>1. scan' = [scan EXCEPT ![s] = r] BY <1>2, <1>3
  <2>2. r.pc = "run" /\ r.pending = scan[s].pending /\ r.attempt = scan[s].attempt + 1
    BY <1>1 DEF ScanRecords
  <2> HIDE DEF r
  <2>3. scan[s].attempt \in Nat /\ MaxRetries \in Nat BY <1>1, MonitorAssumption DEF ScanRecords
  <2>4. Left(r) = MaxRetries - (scan[s].attempt + 1) /\ Left(scan[s]) = MaxRetries - scan[s].attempt
    BY <1>1, <2>2 DEF Left
  <2>5. Left(r) \in 0..(Left(scan[s]) - 1) BY <1>3, <2>3, <2>4
  <2>6. Counted(r) BY <1>1, <1>3, <2>2, <2>3 DEF Counted
  <2>7. Stage[r.pc] = Stage[scan[s].pc] BY <1>1, <2>2
  <2> QED BY <2>1, <2>5, <2>6, <2>7 DEF Forward, Nearer
<1>4. CASE ~(RunState(snap) = "failed" /\ scan[s].attempt < MaxRetries)
  <2> DEFINE r == [scan[s] EXCEPT !.pc = "compare", !.current = snap]
  <2>1. scan' = [scan EXCEPT ![s] = r] BY <1>2, <1>4
  <2>2. r.pc = "compare" /\ r.pending = scan[s].pending BY <1>1 DEF ScanRecords
  <2> HIDE DEF r
  <2>3. Stage[r.pc] < Stage[scan[s].pc] BY <1>1, <2>2, Stages
  <2> QED BY <1>1, <2>1, <2>2, <2>3, ForwardOn DEF Steps
<1> QED BY <1>3, <1>4

LEMMA ForwardStages ==
    ASSUME NEW s \in Scanners, TypeOK, Counting,
           \/ ReadBaseline(s) \/ CompareUnchanged(s) \/ CompareChanged(s)
           \/ SelectSnapshot(s) \/ InsertSnapshot(s) \/ SkipDetection(s)
           \/ AlertsDone(s) \/ SaveCursor(s) \/ Abort(s)
    PROVE  Forward(s)
<1>1. scan[s] \in ScanRecords BY DEF TypeOK
<1>2. CASE ReadBaseline(s)
  <2>1. PICK request, prev :
           scan' = [scan EXCEPT ![s] = [Idle EXCEPT !.pc = "run", !.request = request,
                                                    !.previous = prev]]
    BY <1>2 DEF ReadBaseline
  <2> DEFINE r == [Idle EXCEPT !.pc = "run", !.request = request, !.previous = prev]
  <2>2. r.pending = {} /\ r.attempt = 0 BY DEF Idle
  <2>3. scan' = [scan EXCEPT ![s] = r] BY <2>1
  <2> HIDE DEF r
  <2>4. Counted(r) BY <2>2, FS_EmptySet, MonitorAssumption DEF Counted
  <2>5. scan[s].pc \notin Steps BY <1>2 DEF ReadBaseline, Steps
  <2> QED BY <2>3, <2>4, <2>5 DEF Forward
<1>3. CASE CompareUnchanged(s)
  <2>1. CASE scan[s].request.dry BY <1>3, <2>1, ForwardEnds DEF CompareUnchanged
  <2>2. CASE ~scan[s].request.dry
    <3> DEFINE r == [scan[s] EXCEPT !.pc = "cursor", !.unchanged = TRUE]
    <3>1. scan' = [scan EXCEPT ![s] = r] BY <1>3, <2>2 DEF CompareUnchanged
    <3>2. r.pc = "cursor" /\ r.pending = scan[s].pending /\ scan[s].pc = "compare"
      BY <1>1, <1>3 DEF ScanRecords, CompareUnchanged
    <3> HIDE DEF r
    <3>3. scan[s].pc \in Steps /\ Stage[r.pc] < Stage[scan[s].pc] BY <3>2, Stages DEF Steps
    <3> QED BY <3>1, <3>2, <3>3, ForwardOn
  <2> QED BY <2>1, <2>2
<1>4. CASE CompareChanged(s)
  <2>1. CASE scan[s].request.dry BY <1>4, <2>1, ForwardEnds DEF CompareChanged
  <2>2. CASE ~scan[s].request.dry
    <3> DEFINE r == [scan[s] EXCEPT !.pc = "select_snapshot"]
    <3>1. scan' = [scan EXCEPT ![s] = r] BY <1>4, <2>2 DEF CompareChanged
    <3>2. r.pc = "select_snapshot" /\ r.pending = scan[s].pending /\ scan[s].pc = "compare"
      BY <1>1, <1>4 DEF ScanRecords, CompareChanged
    <3> HIDE DEF r
    <3>3. scan[s].pc \in Steps /\ Stage[r.pc] < Stage[scan[s].pc] BY <3>2, Stages DEF Steps
    <3> QED BY <3>1, <3>2, <3>3, ForwardOn
  <2> QED BY <2>1, <2>2
<1>5. CASE SelectSnapshot(s)
  <2>1. PICK snap : \/ scan' = [scan EXCEPT ![s].pc = "insert_snapshot"]
                    \/ scan' = [scan EXCEPT ![s].pc = "detect", ![s].current = snap]
    BY <1>5 DEF SelectSnapshot
  <2>2. PICK r : /\ scan' = [scan EXCEPT ![s] = r]
                 /\ \/ r = [scan[s] EXCEPT !.pc = "insert_snapshot"]
                    \/ r = [scan[s] EXCEPT !.pc = "detect", !.current = snap]
    BY <2>1
  <2>3. r.pc \in {"insert_snapshot", "detect"} /\ r.pending = scan[s].pending
    BY <1>1, <2>2 DEF ScanRecords
  <2>4. scan[s].pc = "select_snapshot" BY <1>5 DEF SelectSnapshot
  <2>5. scan[s].pc \in Steps /\ Stage[r.pc] < Stage[scan[s].pc]
    <3>1. Stage[r.pc] \in {4, 3} BY <2>3, Stages
    <3>2. Stage[scan[s].pc] = 5 BY <2>4, Stages
    <3> QED BY <2>4, <3>1, <3>2 DEF Steps
  <2> QED BY <2>2, <2>3, <2>5, ForwardOn
<1>6. CASE InsertSnapshot(s)
  <2> DEFINE r == [scan[s] EXCEPT !.pc = "detect"]
  <2>1. CASE scan' = [scan EXCEPT ![s] = Idle] BY <2>1, ForwardEnds
  <2>2. CASE scan' = [scan EXCEPT ![s] = r]
    <3>1. r.pc = "detect" /\ r.pending = scan[s].pending /\ scan[s].pc = "insert_snapshot"
      BY <1>1, <1>6 DEF ScanRecords, InsertSnapshot
    <3> HIDE DEF r
    <3>2. scan[s].pc \in Steps /\ Stage[r.pc] < Stage[scan[s].pc] BY <3>1, Stages DEF Steps
    <3> QED BY <2>2, <3>1, <3>2, ForwardOn
  <2> QED BY <1>6, <2>1, <2>2 DEF InsertSnapshot
<1>7. CASE SkipDetection(s) \/ AlertsDone(s)
  <2> DEFINE r == [scan[s] EXCEPT !.pc = "cursor"]
  <2>1. scan' = [scan EXCEPT ![s] = r] BY <1>7 DEF SkipDetection, AlertsDone
  <2>2. r.pc = "cursor" /\ r.pending = scan[s].pending /\ scan[s].pc \in {"detect", "alerts"}
    BY <1>1, <1>7 DEF ScanRecords, SkipDetection, AlertsDone
  <2> HIDE DEF r
  <2>3. scan[s].pc \in Steps /\ Stage[r.pc] < Stage[scan[s].pc] BY <2>2, Stages DEF Steps
  <2> QED BY <2>1, <2>2, <2>3, ForwardOn
<1>8. CASE SaveCursor(s) \/ Abort(s) BY <1>8, ForwardEnds DEF SaveCursor, Abort
<1> QED BY <1>2, <1>3, <1>4, <1>5, <1>6, <1>7, <1>8

\* The loop over the changes: found, taken in hand, alerted.
LEMMA ForwardFound ==
    ASSUME NEW s \in Scanners, TypeOK, Counting, SaveChangeSet(s)
    PROVE  Forward(s)
<1> DEFINE found == DetectChanges(scan[s].previous, scan[s].current, StaleAfter)
           material == {ch \in found : MeetsThreshold(ch)}
           r == [scan[s] EXCEPT !.pc = "alerts", !.pending = material]
<1>1. scan[s] \in ScanRecords BY DEF TypeOK
<1>2. scan' = [scan EXCEPT ![s] = r] /\ scan[s].pc = "detect" BY DEF SaveChangeSet
<1>3. r.pc = "alerts" /\ r.pending = material BY <1>1 DEF ScanRecords
<1>4. IsFiniteSet(material)
  <2>1. IsFiniteSet(found) BY FewChanges
  <2> HIDE DEF found
  <2> QED BY <2>1, FS_Subset
<1> HIDE DEF material, r
<1>5. Counted(r) BY <1>3, <1>4 DEF Counted
<1>6. Stage[r.pc] < Stage[scan[s].pc] BY <1>2, <1>3, Stages
<1> QED BY <1>2, <1>5, <1>6 DEF Forward, Nearer

LEMMA ForwardAlerts ==
    ASSUME NEW s \in Scanners, TypeOK, Reporting, Counting, SelectAlert(s) \/ InsertAlert(s)
    PROVE  Forward(s)
<1>1. scan[s] \in ScanRecords /\ Counted(scan[s]) /\ Reports(scan[s], changes, alerts)
  BY DEF TypeOK, Counting, Reporting
<1>2. IsFiniteSet(scan[s].pending) /\ Cardinality(scan[s].pending) \in Nat
  BY <1>1, FS_CardinalityType DEF Counted
<1>3. CASE SelectAlert(s)
  <2>1. scan[s].inserting = {} /\ scan[s].pc = "alerts"
    BY <1>1, <1>3 DEF SelectAlert, Reports
  <2>2. PICK ch \in scan[s].pending :
          \/ scan' = [scan EXCEPT ![s].pending = @ \ {ch}]
          \/ scan' = [scan EXCEPT ![s].pc = "insert_alert",
                                  ![s].pending = @ \ {ch}, ![s].inserting = {ch}]
    BY <1>3 DEF SelectAlert
  <2>3. PICK r : /\ scan' = [scan EXCEPT ![s] = r]
                 /\ \/ r = [scan[s] EXCEPT !.pending = @ \ {ch}]
                    \/ r = [scan[s] EXCEPT !.pc = "insert_alert", !.pending = @ \ {ch},
                                           !.inserting = {ch}]
    <3>1. CASE scan' = [scan EXCEPT ![s].pending = @ \ {ch}] BY <3>1
    <3>2. CASE scan' = [scan EXCEPT ![s].pc = "insert_alert",
                                    ![s].pending = @ \ {ch}, ![s].inserting = {ch}]
      BY <3>2
    <3> QED BY <2>2, <3>1, <3>2
  <2>4. /\ r.pending = scan[s].pending \ {ch} /\ r.pc \in {"alerts", "insert_alert"}
        /\ r.inserting \in {{}, {ch}}
    BY <1>1, <2>1, <2>3 DEF ScanRecords
  <2>5. /\ IsFiniteSet(r.pending)
        /\ Cardinality(r.pending) = Cardinality(scan[s].pending) - 1
        /\ Cardinality(r.pending) \in Nat
    BY <1>2, <2>2, <2>4, FS_RemoveElement, FS_CardinalityType
  <2>6. Cardinality(scan[s].inserting) = 0 /\ Cardinality(r.inserting) \in {0, 1}
    <3>1. Cardinality({}) = 0 BY FS_EmptySet
    <3>2. Cardinality({ch}) = 1 BY FS_Singleton
    <3> QED BY <2>1, <2>4, <3>1, <3>2
  <2>7. /\ Left(scan[s]) = 2 * Cardinality(scan[s].pending) + Cardinality(scan[s].inserting)
        /\ Left(r) = 2 * Cardinality(r.pending) + Cardinality(r.inserting)
    BY <2>1, <2>4 DEF Left
  <2>8. Left(r) \in 0..(Left(scan[s]) - 1) BY <1>2, <2>5, <2>6, <2>7
  <2>9. Stage[r.pc] = Stage[scan[s].pc] BY <2>1, <2>4, Stages
  <2>10. Counted(r) BY <2>4, <2>5 DEF Counted
  <2> QED BY <2>3, <2>8, <2>9, <2>10 DEF Forward, Nearer
<1>4. CASE InsertAlert(s)
  <2>1. PICK ch \in scan[s].inserting :
          \/ scan' = [scan EXCEPT ![s] = Idle]
          \/ scan' = [scan EXCEPT ![s].pc = "alerts", ![s].inserting = {}]
    BY <1>4 DEF InsertAlert
  <2>2. CASE scan' = [scan EXCEPT ![s] = Idle] BY <2>2, ForwardEnds
  <2>3. CASE scan' = [scan EXCEPT ![s].pc = "alerts", ![s].inserting = {}]
    <3> DEFINE r == [scan[s] EXCEPT !.pc = "alerts", !.inserting = {}]
    <3>1. scan' = [scan EXCEPT ![s] = r] BY <2>3
    <3>2. r.pc = "alerts" /\ r.pending = scan[s].pending /\ r.inserting = {}
      BY <1>1 DEF ScanRecords
    <3> HIDE DEF r
    <3>3. scan[s].inserting = {ch} BY <1>1, <2>1 DEF Reports
    <3>4. Cardinality(scan[s].inserting) = 1 /\ Cardinality(r.inserting) = 0
      <4>1. Cardinality({}) = 0 BY FS_EmptySet
      <4>2. Cardinality({ch}) = 1 BY FS_Singleton
      <4> QED BY <3>2, <3>3, <4>1, <4>2
    <3>5. scan[s].pc = "insert_alert" BY <1>4 DEF InsertAlert
    <3>6. /\ Left(scan[s]) = 2 * Cardinality(scan[s].pending) + 1
          /\ Left(r) = 2 * Cardinality(scan[s].pending) + 0
      BY <3>2, <3>4, <3>5 DEF Left
    <3>7. Left(r) \in 0..(Left(scan[s]) - 1) BY <1>2, <3>6
    <3>8. Stage[r.pc] = Stage[scan[s].pc] BY <3>2, <3>5, Stages
    <3>9. Counted(r) BY <1>2, <3>2 DEF Counted
    <3> QED BY <3>1, <3>7, <3>8, <3>9 DEF Forward, Nearer
  <2> QED BY <2>1, <2>2, <2>3
<1> QED BY <1>3, <1>4

LEMMA ForwardStep ==
    ASSUME TypeOK, Reporting, Counting, [Next]_vars
    PROVE  UNCHANGED scan \/ \E s \in Scanners : Forward(s)
<1>1. CASE \E s \in Scanners : ReadBaseline(s) \/ ScanStep(s) \/ Abort(s)
  BY <1>1, ForwardRun, ForwardStages, ForwardFound, ForwardAlerts DEF ScanStep
<1> QED BY <1>1 DEF Next, PersistRun, ViewChanges, ActOnAlert, Tick, vars

\* Every step of a scan takes it nearer to its end, for any number of scans,
\* changes and attempts, with failures anywhere: the retry loop and the loop over
\* the changes end (monitor.py:128, monitor.py:162).
THEOREM ScansWindDown == Spec => ScansGetNearer
<1>1. Init => Reporting /\ Counting
  <2> SUFFICES ASSUME Init PROVE Reporting /\ Counting OBVIOUS
  <2>1. \A s \in Scanners : /\ scan[s].pc = "idle"
                            /\ scan[s].pending = {} /\ scan[s].inserting = {}
    BY DEF Init, Idle
  <2> QED BY <2>1, FS_EmptySet DEF Reporting, Reports, Alerting, Counting, Counted
<1>2. ASSUME IInv, Reporting, Counting, [Next]_vars
      PROVE  /\ Reporting' /\ Counting'
             /\ [\A s \in Scanners :
                   scan[s].pc \in Steps /\ scan'[s] # scan[s] => Nearer(scan'[s], scan[s])]_scan
  <2>1. TypeOK BY <1>2 DEF IInv
  <2>2. Reporting' BY <1>2, <2>1, ReportingStep
  <2>3. CASE UNCHANGED scan BY <1>2, <2>2, <2>3 DEF Counting
  <2>4. CASE \E s \in Scanners : Forward(s)
    <3>1. PICK s \in Scanners : Forward(s) BY <2>4
    <3>2. PICK r : /\ scan' = [scan EXCEPT ![s] = r] /\ Counted(r)
                   /\ scan[s].pc \in Steps => Nearer(r, scan[s])
      BY <3>1 DEF Forward
    <3>3. scan'[s] = r /\ \A t \in Scanners : t # s => scan'[t] = scan[t]
      BY <2>1, <3>2 DEF TypeOK
    <3>4. Counting' BY <1>2, <3>2, <3>3 DEF Counting
    <3> QED BY <2>2, <3>2, <3>3, <3>4
  <2> QED BY <1>2, <2>1, <2>3, <2>4, ForwardStep
<1> QED BY <1>1, <1>2, InvariantHolds, PTL DEF Spec, ScansGetNearer
=============================================================================
