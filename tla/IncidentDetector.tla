-------------------------- MODULE IncidentDetector --------------------------
(***************************************************************************)
(* The probe loop (main.py, Sentinel._probe_loop) and the incident state   *)
(* machine it feeds (detector.py, IncidentDetector), against the incident  *)
(* and event tables of storage.py.                                         *)
(*                                                                         *)
(* Every storage call of the loop is a step of its own, because each of    *)
(* them may raise: nothing between observe() and _supervise() catches the  *)
(* exception, so the rest of the handler is skipped, the loop is restarted *)
(* after a back-off, and the detector object keeps whatever it held.  The  *)
(* process may also be stopped or killed at any step: the tables survive,  *)
(* the detector object does not.                                           *)
(*                                                                         *)
(* Time is counted in ticks; tick 0 stands for Python's None.  Row i of    *)
(* the incident table is incidents[i], its id is i, and id 0 is None.      *)
(***************************************************************************)
EXTENDS Naturals, Sequences, FiniteSets

CONSTANTS
  DownAfter,    \* alert_core_down_after, in ticks
  SlowCount,    \* _SLOW_PROBE_COUNT
  ProbeDelay,   \* longest time a probe may take to answer
  BackOff,      \* the 30 s pause of _supervise
  FaultPoints,  \* the steps at which the storage may raise
  MaxTime,      \* bound: the clock stops here
  MaxRuns,      \* bound: process starts
  MaxFaults     \* bound: storage exceptions

Results == {"fast", "slow", "down"}

\* Where the probe loop is.  "stopped": the process is not running.
Steps == {"probe", "observe", "openRow", "openEvent", "freeze", "alertDown",
          "closeRow", "closeEvent", "alertUp", "latency", "slowEvent",
          "alertSlow", "sample", "sleep", "backoff", "stopped"}

\* The steps that call something that can raise.
MayRaise == {"probe", "openRow", "openEvent", "freeze", "alertDown", "closeRow",
             "closeEvent", "alertUp", "slowEvent", "alertSlow", "sample"}

ASSUME DetectorAssumption ==
  /\ DownAfter \in Nat /\ SlowCount \in Nat \ {0}
  /\ ProbeDelay \in Nat /\ BackOff \in Nat \ {0}
  /\ MaxTime \in Nat \ {0} /\ MaxRuns \in Nat /\ MaxFaults \in Nat
  /\ FaultPoints \subseteq MayRaise

NoTime == 0
NoId == 0

Rows == [run : Nat, started : Nat, ended : Nat, bundle : BOOLEAN]
Kinds == {"core_down", "core_up", "core_slow",
          "alert_down", "alert_up", "alert_slow"}
Events == [run : Nat, kind : Kinds]
Losses == [row : Nat, word : {"down", "up"}]

VARIABLES
  clock,            \* wall clock
  pc,               \* where the probe loop is
  run,              \* how many times the process has been started
  faults,           \* storage exceptions so far
  probe,            \* the ProbeResult in hand: [ts, result]
  firstFailure,     \* _first_failure_ts
  incidentId,       \* _incident_id
  incidentStarted,  \* _incident_started
  slowStreak,       \* _slow_streak
  warnedSlow,       \* _warned_slow
  incidents,        \* the incidents table
  events,           \* the events table, in the order of insertion
  lastUp,           \* history: ts of this run's last reachable probe
  lost              \* history: the alerts an exception lost, as [row, word]

detector == <<firstFailure, incidentId, incidentStarted, slowStreak, warnedSlow>>
tables == <<incidents, events>>
history == <<lastUp, lost>>
vars == <<clock, pc, run, faults, probe, detector, tables, history>>

TypeOK ==
  /\ clock \in Nat \ {0} /\ pc \in Steps /\ run \in Nat /\ faults \in Nat
  /\ probe \in [ts : Nat, result : Results]
  /\ firstFailure \in Nat /\ incidentId \in Nat /\ incidentStarted \in Nat
  /\ slowStreak \in Nat /\ warnedSlow \in BOOLEAN
  /\ incidents \in Seq(Rows) /\ events \in Seq(Events)
  /\ lastUp \in Nat /\ lost \subseteq Losses

Init ==
  /\ clock = 1 /\ pc = "probe" /\ run = 1 /\ faults = 0
  /\ probe = [ts |-> 0, result |-> "fast"]
  /\ firstFailure = NoTime /\ incidentId = NoId /\ incidentStarted = NoTime
  /\ slowStreak = 0 /\ warnedSlow = FALSE
  /\ incidents = <<>> /\ events = <<>>
  /\ lastUp = NoTime /\ lost = {}

Record(kind) == events' = Append(events, [run |-> run, kind |-> kind])

-----------------------------------------------------------------------------
(* The probe, and the first branch of observe() *)

\* CoreProbe.probe: ts is taken before the requests, the answer comes later.
ProbeCore ==
  /\ pc = "probe"
  /\ \E r \in Results, d \in 0..ProbeDelay :
       /\ clock + d <= MaxTime
       /\ probe' = [ts |-> clock, result |-> r]
       /\ clock' = clock + d
  /\ pc' = "observe"
  /\ UNCHANGED <<run, faults, detector, tables, history>>

\* Variant: a reachable probe without an incident does not end the failures.
OnReachableKeepsStart ==
  /\ pc = "observe" /\ probe.result # "down"
  /\ lastUp' = probe.ts
  /\ pc' = IF incidentId # NoId THEN "closeRow" ELSE "latency"
  /\ UNCHANGED <<clock, run, faults, probe, detector, tables, lost>>

\* _on_reachable, up to its first await.
OnReachable ==
  /\ pc = "observe" /\ probe.result # "down"
  /\ lastUp' = probe.ts
  /\ \/ /\ incidentId # NoId
        /\ pc' = "closeRow"
        /\ UNCHANGED firstFailure
     \/ /\ incidentId = NoId
        /\ pc' = "latency"
        /\ firstFailure' = NoTime
  /\ UNCHANGED <<clock, run, faults, probe, incidentId, incidentStarted,
                 slowStreak, warnedSlow, tables, lost>>

\* Variants: an incident may already be open; only the exact tick counts.
ShouldOpenTwice(first) == probe.ts - first >= DownAfter
ShouldOpenOnTheTick(first) == incidentId = NoId /\ probe.ts - first = DownAfter

\* Whether _on_unreachable opens an incident for an outage since first.
ShouldOpen(first) == incidentId = NoId /\ probe.ts - first >= DownAfter

\* _on_unreachable, up to the call of _open_incident.
OnUnreachable ==
  /\ pc = "observe" /\ probe.result = "down"
  /\ firstFailure' = IF firstFailure = NoTime THEN probe.ts ELSE firstFailure
  /\ pc' = IF ShouldOpen(firstFailure') THEN "openRow" ELSE "sample"
  /\ UNCHANGED <<clock, run, faults, probe, incidentId, incidentStarted,
                 slowStreak, warnedSlow, tables, history>>

-----------------------------------------------------------------------------
(* _open_incident *)

OpenRow ==
  /\ pc = "openRow"
  /\ incidents' = Append(incidents, [run |-> run, started |-> firstFailure,
                                     ended |-> NoTime, bundle |-> FALSE])
  /\ incidentId' = Len(incidents) + 1
  /\ incidentStarted' = firstFailure
  /\ pc' = "openEvent"
  /\ UNCHANGED <<clock, run, faults, probe, firstFailure, slowStreak,
                 warnedSlow, events, history>>

OpenEvent ==
  /\ pc = "openEvent"
  /\ Record("core_down")
  /\ pc' = "freeze"
  /\ UNCHANGED <<clock, run, faults, probe, detector, incidents, history>>

\* Variant: a failed build ends the handler.
FreezeOrGiveUp ==
  /\ pc = "freeze"
  /\ \E built \in BOOLEAN :
       /\ incidents' = [incidents EXCEPT ![incidentId].bundle = built]
       /\ pc' = IF built THEN "alertDown" ELSE "sample"
  /\ UNCHANGED <<clock, run, faults, probe, detector, events, history>>

\* _freeze: the bundle may fail to build (build returns None); that is logged.
Freeze ==
  /\ pc = "freeze"
  /\ \E built \in BOOLEAN :
       incidents' = [incidents EXCEPT ![incidentId].bundle = built]
  /\ pc' = "alertDown"
  /\ UNCHANGED <<clock, run, faults, probe, detector, events, history>>

AlertDown ==
  /\ pc = "alertDown"
  /\ Record("alert_down")
  /\ pc' = "sample"
  /\ UNCHANGED <<clock, run, faults, probe, detector, incidents, history>>

-----------------------------------------------------------------------------
(* _close_incident, and what _on_reachable does after it *)

CloseRow ==
  /\ pc = "closeRow"
  /\ incidents' = [incidents EXCEPT ![incidentId].ended = probe.ts]
  /\ pc' = "closeEvent"
  /\ UNCHANGED <<clock, run, faults, probe, detector, events, history>>

\* Variant: the incident is not let go of.
CloseEventKeepsId ==
  /\ pc = "closeEvent"
  /\ Record("core_up")
  /\ pc' = "alertUp"
  /\ UNCHANGED <<clock, run, faults, probe, detector, incidents, history>>

CloseEvent ==
  /\ pc = "closeEvent"
  /\ Record("core_up")
  /\ incidentId' = NoId
  /\ incidentStarted' = NoTime
  /\ pc' = "alertUp"
  /\ UNCHANGED <<clock, run, faults, probe, firstFailure, slowStreak,
                 warnedSlow, incidents, history>>

\* Variant: the outage is not forgotten.
AlertUpKeepsStart ==
  /\ pc = "alertUp"
  /\ Record("alert_up")
  /\ pc' = "latency"
  /\ UNCHANGED <<clock, run, faults, probe, detector, incidents, history>>

\* Only once the alert is recorded does _on_reachable forget the outage.
AlertUp ==
  /\ pc = "alertUp"
  /\ Record("alert_up")
  /\ firstFailure' = NoTime
  /\ pc' = "latency"
  /\ UNCHANGED <<clock, run, faults, probe, incidentId, incidentStarted,
                 slowStreak, warnedSlow, incidents, history>>

-----------------------------------------------------------------------------
(* _check_latency *)

\* Variant: a fast probe takes one off the streak.
StreakDecays == slowStreak - 1

\* The streak after a fast probe.
StreakEnds == 0

CheckLatency ==
  /\ pc = "latency"
  /\ \/ /\ probe.result = "fast"
        /\ slowStreak' = StreakEnds /\ warnedSlow' = FALSE
        /\ pc' = "sample"
     \/ /\ probe.result = "slow"
        /\ slowStreak' = slowStreak + 1
        /\ LET warn == slowStreak' >= SlowCount /\ ~warnedSlow
           IN  /\ warnedSlow' = (warnedSlow \/ warn)
               /\ pc' = IF warn THEN "slowEvent" ELSE "sample"
  /\ UNCHANGED <<clock, run, faults, probe, firstFailure, incidentId,
                 incidentStarted, tables, history>>

SlowEvent ==
  /\ pc = "slowEvent"
  /\ Record("core_slow")
  /\ pc' = "alertSlow"
  /\ UNCHANGED <<clock, run, faults, probe, detector, incidents, history>>

AlertSlow ==
  /\ pc = "alertSlow"
  /\ Record("alert_slow")
  /\ pc' = "sample"
  /\ UNCHANGED <<clock, run, faults, probe, detector, incidents, history>>

-----------------------------------------------------------------------------
(* The rest of the loop *)

\* awrite_samples and the heartbeat; what they write is modelled elsewhere.
WriteSample ==
  /\ pc = "sample"
  /\ pc' = "sleep"
  /\ UNCHANGED <<clock, run, faults, probe, detector, tables, history>>

\* The interval is at least two seconds, so two probes never share a ts.
Sleep ==
  /\ pc = "sleep" /\ clock < MaxTime
  /\ clock' = clock + 1
  /\ pc' = "probe"
  /\ UNCHANGED <<run, faults, probe, detector, tables, history>>

\* The alert about an incident that is not reached when the call of this step
\* raises: one of the opening for the row held, or one of the recovery for the
\* last row, which has been let go of.
AlertsLost ==
  IF pc \in {"openEvent", "freeze", "alertDown"}
    THEN {[row |-> incidentId, word |-> "down"]}
    ELSE IF pc = "alertUp" THEN {[row |-> Len(incidents), word |-> "up"]} ELSE {}

\* A storage call raises and stores nothing.  _open_incident has by then
\* noted when the incident started.
StorageRaises ==
  /\ pc \in FaultPoints /\ faults < MaxFaults
  /\ faults' = faults + 1
  /\ incidentStarted' = IF pc = "openRow" THEN firstFailure ELSE incidentStarted
  /\ lost' = lost \cup AlertsLost
  /\ pc' = "backoff"
  /\ UNCHANGED <<clock, run, probe, firstFailure, incidentId, slowStreak,
                 warnedSlow, tables, lastUp>>

\* _supervise waits, then runs the loop again with the same detector.
Supervise ==
  /\ pc = "backoff" /\ clock + BackOff <= MaxTime
  /\ clock' = clock + BackOff
  /\ pc' = "probe"
  /\ UNCHANGED <<run, faults, probe, detector, tables, history>>

\* The process is stopped or killed, wherever the loop is.
Stop ==
  /\ pc # "stopped"
  /\ pc' = "stopped"
  /\ UNCHANGED <<clock, run, faults, probe, detector, tables, history>>

\* A new process builds a new detector over the same tables.
Start ==
  /\ pc = "stopped" /\ run < MaxRuns /\ clock < MaxTime
  /\ clock' = clock + 1
  /\ run' = run + 1
  /\ pc' = "probe"
  /\ firstFailure' = NoTime /\ incidentId' = NoId /\ incidentStarted' = NoTime
  /\ slowStreak' = 0 /\ warnedSlow' = FALSE
  /\ lastUp' = NoTime
  /\ UNCHANGED <<faults, probe, tables, lost>>

LoopStep ==
  \/ ProbeCore \/ OnReachable \/ OnUnreachable
  \/ OpenRow \/ OpenEvent \/ Freeze \/ AlertDown
  \/ CloseRow \/ CloseEvent \/ AlertUp
  \/ CheckLatency \/ SlowEvent \/ AlertSlow
  \/ WriteSample \/ Sleep \/ Supervise

Next == LoopStep \/ StorageRaises \/ Stop \/ Start

Spec == Init /\ [][Next]_vars

\* The event loop keeps running a task that can run.  Nothing obliges the
\* storage to fail or the process to stop, and nothing here obliges a stopped
\* process to be started again.
FairSpec == Spec /\ WF_vars(LoopStep)

-----------------------------------------------------------------------------
(* Properties *)

RowsOf(r) == {i \in 1..Len(incidents) : incidents[i].run = r}

EventsOf(r, kind) ==
  {k \in 1..Len(events) : events[k].run = r /\ events[k].kind = kind}

\* Whatever the storage refuses to do, no incident row of the running process
\* is open behind the detector's back: an open row of this run is the one
\* _incident_id names, so the next reachable probe closes it.
OpenRowsOwned ==
  \A i \in RowsOf(run) : incidents[i].ended = NoTime => i = incidentId

\* The event log never tells of two outages in a row: between two core_down
\* events of a run there is a core_up event.
EventsAlternate ==
  \A r \in 1..run : \A j, k \in EventsOf(r, "core_down") :
    j < k => \E m \in EventsOf(r, "core_up") : j < m /\ m < k

\* No alert has told that outage i is over, because recording it raised.
Untold(i) == [row |-> i, word |-> "up"] \in lost

\* Whatever call of a recovery raises, and however often it is retried, the
\* incidents of one run are separate outages: the earlier is closed at a time
\* before the later started.  The one exception is an outage whose recovery
\* alert raised: _first_failure_ts has outlived it, so the next incident may
\* take up its start (detector.py, _on_reachable).
IncidentsDisjoint ==
  \A i, j \in 1..Len(incidents) :
    (i < j /\ incidents[i].run = incidents[j].run) =>
      /\ incidents[i].ended # NoTime
      /\ \/ incidents[i].ended < incidents[j].started
         \/ /\ incidents[i].started = incidents[j].started
            /\ \A k \in i..(j - 1) : Untold(k)

\* The row to be written takes up the start of the last one, which ended untold.
Resumes(row) ==
  /\ Len(incidents) # 0 /\ Untold(Len(incidents))
  /\ incidents[Len(incidents)].run = row.run
  /\ incidents[Len(incidents)].started = row.started

\* An incident is opened only on an outage of DownAfter that has lasted ever
\* since: Core answered no probe between the start of the row and its opening.
\* Or else the row resumes an outage whose recovery alert raised.
OpensOnSustainedOutage ==
  [][Len(incidents') > Len(incidents) =>
       LET row == incidents'[Len(incidents')]
       IN  /\ row.started + DownAfter <= probe.ts
           /\ row.started > lastUp \/ Resumes(row)]_vars

\* The incidents of this run whose alert an exception has cost.
Unalerted == {i \in RowsOf(run) : [row |-> i, word |-> "down"] \in lost}

\* When the loop comes back for another probe, every incident of the run has
\* been alerted, once, but for those whose opening raised before the alert was
\* recorded: they are never alerted (DOCS.md, "Alerts fire for: Core
\* unreachable"), although the row is held and closed like any other.
OutagesAlerted ==
  pc = "probe" =>
    Cardinality(EventsOf(run, "alert_down")) + Cardinality(Unalerted) =
      Cardinality(RowsOf(run))

\* Ticks after which a condition that has lasted for n must have been acted on,
\* whatever the storage refused: the probe that sees it, then one back-off and
\* one more probe for each fault.
Budget(n) == n + 1 + ProbeDelay + MaxFaults * (BackOff + 1 + ProbeDelay)

\* The clock is not stopped before then.
Early(t, n) == t + Budget(n) <= MaxTime

\* Since when Core has been down: the first failure or, if that outlived an
\* outage, the last answer.
DownSince == IF lastUp < firstFailure THEN firstFailure ELSE lastUp

\* An outage that lasts is recorded in the end, even if the first attempts to
\* write it fail: unless Core answers again or the process stops.
OutageIsRecorded ==
  \A t \in 1..MaxTime :
    (probe.result = "down" /\ DownSince = t /\ Early(t, DownAfter)) ~>
      (incidentId # NoId \/ probe.result # "down" \/ DownSince # t \/ pc = "stopped")

\* A Core that answers and goes on answering has its incident closed, even if
\* the first attempts to close it fail.
RecoveryIsRecorded ==
  \A i \in 1..MaxTime :
    (incidentId = i /\ probe.result # "down" /\ Early(clock, 0)) ~>
      (incidentId # i \/ probe.result = "down" \/ pc = "stopped")

\* The incident table, as a log of outages.  The outage in progress is the one
\* whose row the detector holds, closed already or not.
LogOf == [i \in 1..Len(incidents) |->
            [run |-> incidents[i].run, started |-> incidents[i].started,
             ended |-> incidents[i].ended]]

Log == INSTANCE IncidentLog WITH
         Times <- 1..MaxTime, log <- LogOf, current <- incidentId, epoch <- run,
         untold <- {i \in 1..Len(incidents) : Untold(i)}

\* The incidents the detector keeps implement the abstract incident log.
ImplementsLog == Log!LogSpec

=============================================================================
