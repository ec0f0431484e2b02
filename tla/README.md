# Health Sentinel: TLA+ models and proofs

Health Sentinel is a Home Assistant add-on that watches the host, the Supervisor
and Core from outside Core, keeps an event log and an incident table, freezes a
bundle of evidence when Core goes down, and on the next start tells how the last
run ended. It is one Python process: one asyncio loop with seven supervised
loops, SQLite behind one shared connection used from worker threads, and a small
JSON state file written with `fsync`. Paths below are relative to
`src/health_sentinel/rootfs/opt/sentinel/`.

Contents: [the system](#the-system), [the modules](#the-modules),
[the runs](#the-runs), [the proofs](#the-proofs),
[where code and documentation disagree](#where-code-and-documentation-disagree),
[not modelled](#not-modelled-and-why), [what is left](#what-is-left).

## The system

### Components

| component | code | state | operations | module |
|---|---|---|---|---|
| Incident detector and probe loop | `detector.py`, `main.py` `_probe_loop` | first failure, incident id and start, slow streak | `observe` and its handlers, one storage call after the other | `IncidentDetector` |
| State file | `state.py` | one JSON document in memory and on disk | `heartbeat`, `mark_clean_shutdown`, `set`, `flush` | `Lifecycle` |
| Boot forensics | `forensics.py` | the previous run's document, the verdict | `analyse`: clear the marker, classify, read the journal, write the incident | `Lifecycle` |
| Start, stop, supervision | `main.py` `run`, `_shutdown`, `_supervise` | the stop event, the tasks | start sequence, cancel, mark, close; restart a loop 30 s after it raised | `Lifecycle`, `IncidentDetector` |
| Availability tracker | `collectors/availability.py` | tracked states, drops, last cluster | `seed`, `observe`, `check_cluster`, `persistable_states` | `Availability` |
| Event bus watcher | `collectors/recorder.py` | session, pending ids, registry flag | connect, authenticate, subscribe, route answers and events | `EventBus`, `Backoff`, and `Availability` for what feeds the tracker |
| Notifier | `notify.py` | recent titles, hour counter | `alert`, `_admit`, senders | `Notifier`, `Alerting` |
| Storage: samples and retention | `storage.py`, `main.py` `_maintenance_loop` | `samples`, `samples_1m`, the watermark | `write_samples`, `rollup`, `purge` | `Retention` |
| Storage: events, incidents, availability | `storage.py` | tables, one connection, a lock | `add_event`, `open_incident`, `save_availability`, ... | per caller |
| Bundles | `bundle.py` | archive directory, `bundle_path` of the incident rows | `build`, `prune`, the download in `web.py` | `Bundles` |
| Host journal tail | `collectors/host_events.py` | repeat filter, reconnection | `run`, `_follow`, `_admit` | `JournalTail`, `Backoff` |
| Add-on, hardware, network pollers | `collectors/addons.py`, `hardware.py`, `network.py` | baselines | poll, compare, report, classify a stop | `Pollers`, `AddonStops` |
| Threshold and OS checks | `main.py` | none; stored OS version | compare, record, alert | `Pollers` (OS check) |
| Census, host metrics, Supervisor client, web API, dashboard, configuration | `core_probe.py`, `host_psi.py`, `supervisor_api.py`, `web.py`, `www/`, `config.py` | none that anything depends on | queries | not modelled |

### How they interact

The probe loop calls the detector, the detector calls storage (in threads), the
bundle builder and the notifier; the notifier records in storage before it
sends. The same loop hands the heartbeat to a thread that writes the state file.
At the next start forensics reads that file, the journal and the boot list, and
writes the incident the dead run could not write. The watcher's callbacks seed
and feed the tracker and record a multi-integration outage; the slow loop saves
the tracker's dead entities in a table from which the next tracker is seeded;
the mapping loop writes the entity mapping when the registry was refused. Three
loops write samples, a fourth folds them into minutes and purges them. The slow
loop polls add-ons, devices, network and OS version and records what differs;
when an add-on has stopped, it looks in the event log for the kernel's OOM lines
that the journal tail has recorded there. Detector and forensics write bundles,
prune their directory and put the path into the incident's row, from which the
web interface serves them.
All of them share one SQLite connection: a call that raises leaves what it has
executed in the open transaction, and whichever call commits next commits it.

### What is hard

* No handler is atomic. Each storage call can raise, nothing between the
  handler and `_supervise` catches it, and the object is left as it was at that
  point for the next round (`IncidentDetector`, `Availability`).
* The loop thread and the heartbeat thread write the same file from the same
  document, and cancelling a task does not stop its thread (`Lifecycle`).
* The process can die, and the host reboot or lose power, at every step; what
  the next run concludes depends on which of the writes reached the disk
  (`Lifecycle`).
* Three transactions of the maintenance pass belong together and may be cut
  apart by an exception, a kill, or a power cut that undoes the newest commits
  (`Retention`); so do the OS event and the stored version (`Pollers`).
* A baseline moves before the changes it showed are recorded (`Pollers`).
* The websocket loses whatever happens while it is down; the snapshot and the
  event stream overlap (`Availability`).
* Windows, thresholds and caps meet at their boundaries (`IncidentDetector`,
  `Availability`, `Notifier`, `JournalTail`), and a limit that is right for one
  caller silences another (`Alerting`).
* Two long-lived connections break anywhere; ids, subscriptions and replayed
  lines of the old one meet the new one (`EventBus`, `JournalTail`).
* An archive is written in place, pruned, and only then named; each step can fail
  and none is undone (`Bundles`).
* Two loops meet only in the event log, with clocks of their own (`AddonStops`).

`PROJECT.json` lists every hazard with its line and the properties that guard it.

### What makes each component correct

* Detector: one incident per outage, opened only on a sustained outage, closed on
  recovery, alerted; no open row that nobody will close.
* State file and forensics: a heartbeat that returned is on the disk unless its flush
  failed; every verdict is true of the run that ended; an unclean end is on record; a
  stop ends.
* Tracker: it agrees with Core when it has caught up; dates are not older or
  younger than the truth; one outage is raised once, in time, and recorded.
* Notifier: repeats apart; the cap; no silence without cause; a reader to whom the last
  alert was delivered is not left believing the wrong thing about Core, but for the two
  limits.
* Retention: every sample is in its minute's row or still to be folded, unless it was
  written too late to be, and no row is replaced by a poorer one.
* Pollers: events tell what happened and nothing else, and catch up with it; no OS
  version is stored untold.
* Bundles: a path in a row names a whole archive until prune takes it; prune keeps the
  directory bounded; a download is never half an archive.
* Journal tail: a line is recorded once in its window and never dropped without
  cause; the tail never dies. Event bus: every message reaches the handler of what
  was asked, nothing is left open at Core; the watcher never dies.
* Add-on stops: a kill that the kernel has named is reported as one (it is not).

## The modules

Definitions whose comment says "Variant" are plausible mistakes in the definition
that follows them (a dropped guard, a swapped order, an off-by-one). No
specification uses them: putting one in the place of the definition it varies
makes a property fail, which shows that the property can tell the difference.
Clocks, starts, faults and similar counters are bounded by the constants named
`Max...` (and `Backlog`); they are bounds of the instances, not of the code.

### IncidentLog, IncidentDetector, IncidentDetectorProofs

`IncidentLog` is what the incident table promises: outages open and close one at
a time, each starts after the earlier ones of the run have ended, closed rows
stay. It knows one exception, the code's own: an outage that ended without anybody
being told (`untold`) may be taken up again, as `_first_failure_ts` outlives a recovery
alert that raised. `IncidentDetector` has `pc` for the place in the loop, one action per
piece of the code between two storage calls, the five attributes of the
detector, and the two tables. The correspondence:

| action | code |
|---|---|
| `ProbeCore` | `CoreProbe.probe`: the time stamp precedes the answer |
| `OnReachable`, `OnUnreachable` | `observe` up to the first call that can raise |
| `OpenRow`, `OpenEvent`, `Freeze`, `AlertDown` | `_open_incident`, `_freeze` |
| `CloseRow`, `CloseEvent`, `AlertUp` | `_close_incident`, and what `_on_reachable` resets after it |
| `CheckLatency`, `SlowEvent`, `AlertSlow` | `_check_latency` |
| `WriteSample`, `Sleep` | the rest of `_probe_loop` |
| `StorageRaises`, `Supervise` | an exception, and `_supervise`'s 30 s |
| `Stop`, `Start` | the process ends at any point; a new one builds a new detector |

`lastUp` and `lost` are history: the last answer of Core, and the alerts that an
exception has cost (`AlertsLost`), by which the properties name their exceptions.

Two modelling decisions. Every probe has a time stamp of its own: the interval is
at least 2 s by the add-on's schema. A storage call that raises stores nothing
(SQLite's statement is rolled back). The text of events, the bundle's content and
the latency figures are left out. When the bundle fails to build, `build` returns
None and the incident goes on without one; that is a choice in `Freeze`.

### Lifecycle, LifecycleProofs

The state file is `file` (what the next open reads) and `durable` (what a power
cut would leave); a flush is dump, rename, directory sync. The loop thread has
`pc` and `tmp`, the worker thread `hb` and `hbTmp`, both share `data`. The host has
a boot number and the way each earlier boot ended. `Start` to `CloseRow` are the
start sequence and `BootForensics.analyse`; `Heartbeat...` is the worker;
`RequestStop` to `Exit` the stop; `Kill`, `HostReboot`, `PowerLoss` end the run
anywhere. `ForensicsRaises` is an exception that `_run_forensics` swallows. `FlushFails` has
the three ways in which `flush` fails: `mkstemp` is outside its `try` and raises into the
caller; an `OSError` before the rename is swallowed and leaves the file as it was; one
after the rename is swallowed with the new file in place and the directory not synced.
`beatBoot`, `read`, `early`, `life` and `ended` are history: what the verdicts are
compared with. A heartbeat is in `life.returned` as soon as its call has returned, its
flush failed or not; the failed ones are also in `life.failed`.

Decisions: a heartbeat is a serial number in the place of its time stamp;
`boot_id` is always readable; the database keeps what it was given (what
`synchronous=NORMAL` can lose on a power cut is not modelled); the journal
read is that of the boot on file, or, if that is gone, of the boot before this
one, or none, at any time and with any number of reboots in between.

### Availability, MCAvailability, AvailabilityProofs

Core's entities, the requests it has not answered, and a channel of answers and
events in order stand for the websocket; `HangUp` loses all of it. `Connect` sends
what `_session` sends, in its order. `HandleEvent` is `_handle_event` with
`observe`, `_prune` and `check_cluster`; `HandleStates` is `seed`;
`HandleRegistry`, `AskFallback` and `AnswerFallback` are the two sources of the
mapping; `RecordOutage` and `RecordOutageFails` the callback's write, during which
the reader takes no other message, and which a failing storage refuses or leaves in the
open transaction; `TakeRows`, `SaveRows` and `Restart` the table.
`MCAvailability` gives the entities and their integrations, and the one symmetry between
them (`Alike`). `SaveRowsFails` is the
DELETE of `save_availability` without its INSERT.

Decisions: registry and template name the same integration; an empty registry
answer counts as a refusal, as the code has it; time does not go backwards; the
deque of drops is a set, whose members are told apart by time, entity and `n`, the
number of drops of that entity at that time before it: the code only counts and
filters them; `losses`, `unrecorded`, `healthyAt` and `brokenUntil` are history;
`integration_health` and the metrics only read the state and are left out.

### Notifier

Any number of loops call `alert` concurrently: `Call`, `Record` (the event, in a
thread), `Admit` (not interrupted: it has no `await`), `Send`. `Restart` forgets
the limits. A title stands for a key of the dedupe map. For the limits a delivery that
fails, times out or is rejected is still a `Send`: the senders swallow it. What it means
for the reader is in `Alerting`.

### Alerting, NotifierProofs

`Alerting` extends `Notifier`: one of its tasks is the detector, whose alerts are
"not responding" (critical) and "recovered" (not critical) in turn, as
`IncidentLog` has its incidents. `Turn`, `OtherCall`, `Decide` and `Deliver` are
`Call`, `Admit` and `Send` with the detector's `open` and the reader's `word` beside
them, and `Deliver` may reach the reader or not (`fate`). A `Turn` may come while other
loops' alerts are being recorded or sent, not while the detector awaits its own.
`NotifierProofs` has the proofs about both modules.

### Retention, RetentionProofs

`conn`, `disk` and `durable` are the database as the connection sees it, as it was
committed, and as a power cut would leave it. `Take` is a loop that stamps what it
is going to measure, `Write` its `write_samples`. `BeginPass`, `Insert`, `Mark` and `Purge`
are the maintenance pass: the watermark read, the fold, the new watermark, the
DELETEs, each a transaction of its own; `WriteFails` and `PassFails` raise and leave any
prefix of the statements in the open transaction. `Crash`, `Checkpoint` and `PowerLoss`
decide what of that survives.

Decisions: a row of `samples_1m` is the set of samples it was computed from, in the
place of their average, minimum, maximum and count; `written` and `late` are history. A
sample in hand may wait for any time before it is written: between stamp and INSERT
the loops await requests of up to 15 s each. The clock waits for the code only where
`MaxPass` and `MaxFirst` say so. Container
samples and events are purged in the same transaction and not aggregated; they
are left out. One metric stands for all that a loop writes at once.

### Pollers, PollersProofs

`pc` is where the slow loop is. `AskOs`, `NoteOsChange`, `SetMeta`, `Unchanged` are
`_check_os_change`; `Poll(p)` is one of the three watchers with its request; `Record` and
`Alert` are the loop over what it returned; `CutPass` is what an exception leaves of a
pass: the loop starts over 30 s later, the watchers keep their baselines, the
changes not yet recorded are gone. `Start` polls each watcher once, which makes its
baseline if the request is answered. `told`, `gaps` and `past` are history.

Decisions: a request that fails and an empty list of add-ons are the same, as in
the code (the list names this add-on, so a true one is never empty). Address,
gateway and name servers are one part, the settings: the code compares each of
them alike. The order in which the changes of one answer are recorded is left
open. The operating system's version and boot slot change in a reboot, so only
while the process is down. Statistics per container are left out. The ids of
add-ons, devices, interfaces, scopes and keys are disjoint, as each kind has a
baseline of its own in the code.

### Bundles, BundlesProofs

A round is the part of `_open_incident` and of `_record_incident` that both have in
common: `OpenRow`, `Create` and `Write` (`build`), `Prune`, `Name`. `rows` holds the
`bundle_path` of each incident, `dir` the files, `whole` those written to the end;
`durable` and `flushed` are what a power cut leaves of the rows and of the files.
`build` writes at the final path, so half an archive is in the directory until a
later prune; `CreateFails` and `WriteFails` are the `OSError` it turns into None, before
and after there is a file, or `makedirs` raising. `PruneFails` is `os.path.getmtime`, which
nothing guards: prune raises, and the naming is skipped. `Ask` and `Answer` are the
two steps of the download. `torn` and `overdue` are history.

Decisions: the files' modification times follow the order of the rounds; a name is
unique, as it holds the incident's id. Neither the archive nor the commit is synced
by the code, so a power cut may leave a row that names a damaged file (`torn`).

### Backoff, JournalTail, AddonStops

`Backoff` is the promise of both long-lived connections: a session ends, the next
is tried after a wait that doubles up to a limit and starts over after a session
that ended in order; only a stop ends it. `EventBus` implements it (`ImplementsBackoff`), and so
does `JournalTail` (`TailBacksOff`): `Read` is a line that matches a pattern, through
`_admit`, which has no `await`; `Record` and `Alert` are `_on_host_event`, during which no
line is read; `Raise` its failure, which ends the session. A session begins and ends
anywhere in the journal, so lines are missed and replayed. Two actions leave the loop
by the same door: a rejected token or a closed socket is a session that ended in
order, and does not lengthen the wait.

`AddonStops` composes the tail with `_poll_addon_states`: `KillAddon`, `StopAddon` and
`StartAddon` are the world, `PollStates` and `ClassifyStop` the slow loop, and
`Suspects` what the query finds within the window. Polls come on time.

### EventBus, ConnectionProofs

The watcher's side is `msgId`, `pending` and `subs`; Core's side, which is external, is
`asked`, `open` and `inbox`. `Connect` sends the four requests of `_session`, `Handle` is
`_handle` for a result or an event, followed by the health request that may be
due. A message carries in `kind` what was asked under its id; the watcher does not
read it, `RoutedRight` does. Core answers in any order, and the confirmation of a
subscription precedes its events, as in Core's `websocket_api`. `ConnectionProofs` has the
proofs about this module and about `JournalTail`. It extends both, which is why what the
two loops have in common is called `TailInit`, `tailPhase`, `StreamEnds` and so on in the latter.

Decisions: the time between health requests is not measured: one may be due after
any message. What the messages say is in `Availability`; the counters of the ranking
window are left out.

## The runs

`CHECK_DEADLOCK FALSE` everywhere: the clocks and counters are bounded, and the
add-on may be stopped for good.

| run | checks | shows |
|---|---|---|
| `detector_incidents` | `TypeOK`, `OpenRowsOwned`, `EventsAlternate`, `IncidentsDisjoint`, `OpensOnSustainedOutage`, `OutagesAlerted`, `ImplementsLog`, `OutageIsRecorded`, `RecoveryIsRecorded` | with any one call of the loop failing and a restart anywhere: no row is open behind the detector's back; separate, sustained, alerted outages, told in order, but for what `lost` excuses; the abstract log is implemented; a lasting outage or recovery is acted on within the budget of time `Budget` |
| `lifecycle_verdicts` | `TypeOK`, `HeartbeatIsDurable`, `VerdictIsTrue`, `OutageStartsAtDeath`, `UncleanEndIsRecorded`, `StopCompletes` | with deaths, reboots, power cuts and a failing flush or forensics step anywhere in three runs: only a heartbeat whose own flush failed is lost; every verdict about run and host is true, but for the exceptions it names; an unclean end is on record; a stop completes |
| `availability_view` | `ViewConverges`, `ChronicIsTrue` | disconnections, Core restarts, added and removed entities, refused registry, failing storage, add-on restart: the tracker agrees with Core when it has caught up, and no stale date survives |
| `availability_outages` | `OutageIsRaised`, `OutagesAreApart` | two integrations, a lost connection, failing writes: every outage visible in the event stream is raised when it is complete, recorded unless refused, and not raised again |
| `availability_flapping` | `FlappingIsNoEvidence` | violated: the filter on chronic entities removes nothing |
| `alerting_limits` | `TypeOK`, `RepeatsAreApart`, `CapHolds`, `LastWordIsTrue`, `SuppressedForCause` | the detector and another loop, failing storage, failing deliveries, a restart: the limits hold, silence has a cause, and the last word about Core is true but for the two limits and an alert that reached nobody |
| `retention_samples` | `EverySampleCounted`, `RowsOnlyGrow` | two faults among exceptions, kills and power cuts at every step of writing and maintenance, and samples as late as may be: no sample is lost between the two tables, in any of the three views of the database, but for late ones |
| `pollers_watch` | `EventsTellAll`, `NoPhantomChange`, `RestartsHappened`, `OsChangeIsRecorded`, `EventsCatchUp` | one thing of each kind, two changes, two faults among failed requests, exceptions, kills and power cuts |
| `bundles_rounds` | `EvidenceKept`, `DirectoryBounded`, `DownloadsAreWhole` | two faults among failing calls, kills and power cuts at every step of a round, and a download at any time |
| `journal_tail` | `NoRepeatInWindow`, `DroppedForCause`, `TailBacksOff` | replayed lines, a failing write, reconnections, a restart; and the back-off of `Backoff`, liveness included |
| `addon_oom` | `KillsAreNamed` | violated: the window is laid around the poll |
| `event_bus` | `RoutedRight`, `SubscriptionsAgree`, `ImplementsBackoff` | answers in any order, refusals, lost connections: nothing is routed wrong, nothing is left open |

Where a module's type invariant is not listed it is the first conjunct of the
module's main invariant (`ViewConverges`, `EverySampleCounted`, `EventsTellAll`,
`EvidenceKept`, `NoRepeatInWindow`, `RoutedRight`).

### Bounds

* Detector: `DownAfter = 2` ticks and eight ticks of time hold two complete
  outages, a recovery and a back-off in one run, and a restart; one fault in two
  runs, at any of the eleven calls that can raise. The safety properties are proved
  for any number of them. The threshold, streak and back-off are compared and never
  computed with otherwise, so larger values add waiting only. Clock ticks are shorter
  than the smallest interval, so "exactly at the threshold", "just before" and "after"
  occur.
* Lifecycle: three runs over three boots, as a verdict depends on the run before
  and on what the one before that left, and as a journal may be of a boot that is
  neither; two heartbeats, so that a run can have one on disk and one in flight; one
  failing flush or forensics step and one stop. The proofs have no such bounds.
* Availability: one entity suffices for the view and the dates, since entities
  do not influence each other there; two entities of two integrations are the
  smallest outage. Two sessions overlap a lost event and a new snapshot. In
  `availability_view`, `Backlog = 2` has an event in front of and behind it, and two
  runs and one save restore a table. `availability_outages` has four changes, two for
  an outage and two for another, a window of two ticks in a time of six,
  `ChronicAfter = 3`, so that the filter on chronic entities meets losses dated back by a
  reconnection, and a storage that may refuse every write; the two entities may be
  swapped with their integrations, which is its symmetry.
* Alerting: cap 1, an hour of 2 ticks and five alerts show an hour that rolls over
  with 2 * cap + 1 alerts; the dedupe window is longer than the hour, so that each
  of the two can be what silences an alert; one title beside the detector's two,
  since distinct titles share only the counter.
* Retention: a minute of 2 ticks, a raw retention of 5 and a rollup retention of 7
  put a purge of either table into ten ticks; three samples fill one minute and
  begin another, or come after their minute was folded; two faults cut a pass and then its repetition, or lose the
  watermark and then the process.
* Pollers: things do not influence each other except through the queue of
  changes, where two changes of two things, or of the two parts of the
  interface, meet; two faults drop a change and lose the process. Three changes
  and two faults were checked as well (1.8 million states, 214 s).
* Bundles: four archives, two of which are kept: an archive is pruned while a row
  names it, while a download holds its path, and by a later prune that makes up
  for one that failed or raised. Two faults cut a round and the next, or cut one and then
  the power.
* Journal tail: two fingerprints, one critical, `_recent` pruned at two entries in
  the place of 2000, a minute shorter than the window and two events a minute, so
  that each of the two limits can drop what the other would let through; one
  failing write, one restart, and any number of reconnections.
* Event bus: eight ids are two sessions of four requests, or one with two health
  requests more; two messages on their way at once put an answer behind an event.
  Waits of 1 and 2 reach the limit.
* Add-on stops: one add-on, one line, a poll every 10 ticks and a window of 3; the
  code's 300 s and 90 s are in that proportion.

### Fairness

`IncidentDetector`: weak fairness of the loop's steps together, nothing on faults, stops or
starts; asyncio runs a task that is ready. `Lifecycle`: weak fairness of the loop
thread and of the worker thread; the operating system schedules both. Nothing
obliges anyone to send a stop, to kill, to reboot or to start. `Pollers`: weak fairness of
the slow loop's own steps; faults are bounded and never fair, the world need not
change, and `EventsCatchUp` holds trivially only while the process is off.
`JournalTail` and `EventBus`: weak fairness of `Reopen` and of `Retry` alone, since `asyncio.wait_for`
returns when its time is up; that sessions end, or that Core answers, is not
assumed. The leads-to
properties of the detector only speak of outages that begin early enough for
their budget to fit before `MaxTime`, so the end of the clock proves nothing.

### Exceptions in the properties, and hypotheses of the runs

The code does not keep every promise without exception. Where it does not, the
property names the exception, each with the line it comes from, and the run
reaches it; what is not named is not excused.

* `IncidentsDisjoint`, `OpensOnSustainedOutage`: an outage whose recovery alert raised
  (`lost`) outlives itself in `_first_failure_ts` (`detector.py:92`): the next unreachable
  probe, alone, opens an incident dated back to it. `ImplementsLog` has this as `Resumes`.
* `OutagesAlerted`: an incident whose `core_down` event, bundle or alert raised keeps its id
  and is never alerted (`detector.py:141`).
* `HeartbeatIsDurable`: a heartbeat whose flush failed returns like any other
  (`state.py:79-84`); the next that does not fail makes up for it. The property ends where
  the marker is being written: there the two threads race.
* `VerdictIsTrue`: `AddonRestartIsTrue` excepts a run that died after recording its boot and
  before its first heartbeat (`early`; `forensics.py:101`): its successor compares the new
  boot with itself, and calls a power loss an add-on restart. `HostRebootIsTrue` excepts a
  journal of another boot than the one that ended (`forensics.py:266`), `HostPowerLossIsTrue`
  that and a journal that could not be read at all: then every reboot, an orderly
  one too, stays a `host_power_loss` (`forensics.py:236-240`). `CleanStopIsRecognised` speaks of
  stops without a fault (a marker that could not be written is a crash to the next run,
  as it must be) and of those whose marker was written when no heartbeat was still to be
  renamed (`ended.alone`). Dropping `alone`, TLC finds a marker lost to a heartbeat that was
  serialised before it and renamed after it (`main.py:153`): the thread of a cancelled
  task goes on.
* `Landed` in `CleanRestartIsTrue`, `CleanStopIsRecognised`, `OutageStartsAtDeath` and
  `UncleanEndIsRecorded`: the run that ended had a heartbeat on the disk. A run that dies
  before its marker is cleared passes its predecessor's marker on, so its own death
  looks like a clean restart; one that dies before its first heartbeat is dated back to
  its predecessor's.
* `"clearing"` not in `FaultPoints`, a hypothesis of `lifecycle_verdicts`: `record_boot` precedes
  the clearing of the marker (`forensics.py:97`), so its failure leaves a stale marker for
  the next run.
* `UncleanEndIsRecorded` leaves out the verdict `unknown`, which a forensics that
  raised leaves behind.
* `ChronicIsTrue` leaves out an entity that has been absent since it was healthy: the
  snapshot lacks it, its old record stays, and if it comes back dead the date is
  stale (`availability.py:137`).
* `OutageIsRaised` counts what the tracker does not list as chronic at that moment: a
  reconnection dates an entity by Core's `last_changed`, and if the event of its death was
  handled `ChronicAfter - Window` late or more, its drop counts no longer
  (`availability.py:169`). `chronic_after` may be as little as 5 minutes and
  `cluster_window` as much as an hour, so this is a matter of configuration, not of days. An
  outage whose record the storage refused (`unrecorded`) has neither event nor alert, and is
  suppressed as a repeat of itself (`availability.py:184`).
* `OutagesAreApart` allows two outages exactly a window apart to share drops: `_prune`
  keeps a drop of that age and the suppression has just ended (`availability.py:182`).
* `CapHolds` speaks of twice the cap: the counter is reset by the hour
  (`notify.py:105`); `RepeatsAreApart` leaves out critical alerts, which bypass the
  window.
* `LastWordIsTrue` has three exceptions, each reachable: the last alert reached nobody
  (`fate = "missed"`): it failed, timed out or was rejected, which is logged and never retried
  (`notify.py:144-154`, `166-175`); the hour's alerts are used up, though by other loops or by
  repeats of critical ones; or Core has recovered twice within `Dedupe`, and the second
  "recovered" is suppressed as a repeat, so the last message says that Core is down
  (`notify.py:113`).
* `EverySampleCounted`: a sample written more than a minute after its stamp, when its
  minute had been folded (`late`), is in no row, but raw for as long as raw samples are
  kept. "Only aggregate minutes that have certainly finished" (`storage.py:372`) leaves out
  the loops that stamp a sample and then await one request of up to 15 s per add-on
  (`addons.py:97`). `RawKeep >= 2 * Minute + MaxPass`: a day at least by the add-on's schema.
  `FirstWindow >= MaxFirst`: a first pass, and its survival, within a day.
* `gaps` in `EventsTellAll` and `EventsCatchUp`: the changes an exception dropped
  (`addons.py:92`, `main.py:458`) are not recorded later, and an add-on that is installed
  or removed, or a reachability that is unknown for a while (`network.py:179`), is
  passed over with whatever changed in between.
* `EvidenceKept` leaves out archives that `Keep` newer ones have followed, which prune
  deletes (`bundle.py:145`), and those that a power cut damaged (`torn`): neither the file nor
  its directory entry is synced. `DirectoryBounded` allows for those that a prune which
  failed or raised left behind (`overdue`); the next prune that succeeds takes them.
* `DroppedForCause` names as a cause any `MaxPerMinute` lines of the last minute,
  whatever their severity: sixty warnings of one device silence a critical line
  (`host_events.py:272`).
* `KillsAreNamed`, which is violated, speaks only of kernel lines recorded before the poll.
* What changes between two runs is not seen: each start takes a new baseline.

## The proofs

TLAPS proves these for all values of the constants that satisfy the assumptions
of the modules (sizes of clocks, numbers of runs, faults and tasks included).

| module | theorem | from |
|---|---|---|
| `IncidentDetectorProofs` | `TypeCorrect`, `OpenRowsAreOwned`, `EventsDoAlternate` | `DetectorAssumption` |
| | `IncidentsAreDisjoint`, `OpensOnlyOnSustainedOutage`, `DetectorImplementsLog`, `EveryOutageIsAlerted` | the same, for every set of fault points |
| `LifecycleProofs` | `TypeCorrect`, `HeartbeatsAreDurable` | `LifecycleAssumption` |
| | `VerdictsAreTrue`, `OutagesStartAtDeath`, `UncleanEndsAreRecorded` | also `MarkerIsCleared`: `"clearing"` is not in `FaultPoints` |
| `NotifierProofs` | `TypeCorrect`, `RepeatsStayApart`, `CapIsKept`, `SilenceHasCause` | `NotifierAssumption` |
| | `LastWordStaysTrue` | also `AlertingAssumption` |
| `RetentionProofs` | `SamplesAreCounted`, `RowsGrow` | `RetentionAssumption` and `InTime`: `RawKeep >= 2 * Minute + MaxPass`, `FirstWindow >= MaxFirst` |
| `ConnectionProofs` | `MessagesAreRoutedRight`, `NothingIsLeftOpen`, `WatcherBacksOff` | `EventBusAssumption` |
| | `NoRepeats`, `DropsHaveCause`, `TailNeverDies` | `JournalTailAssumption` |
| `AvailabilityProofs` | `TheViewConverges`, `ChronicDatesAreTrue`, `OutagesStayApart`, `OutagesAreRaised` | `AvailabilityAssumption` |
| `BundlesProofs` | `EvidenceIsKept`, `DirectoryStaysBounded`, `DownloadsStayWhole` | `BundlesAssumption` |
| `PollersProofs` | `NothingGoesUntold`, `NothingIsInvented`, `RestartsAreReal`, `OsChangesAreTold` | `PollersAssumption` |

*Detector.* `OpenRowsOwned` is not inductive: between the insertion of a row and its
closing, nothing in it says that the id is that of a row of this run. `OwnInv`
adds that, with what `pc` implies about the id. `TimeInv` adds the order of the
times: the last reachable probe, the first failure, the starts and ends of the
rows, by place in the loop. `IncidentsDisjoint` is one of its conjuncts, the action
property follows from it at `OpenRow`, and with both the four abstract actions
follow from `OpenRow`, `CloseRow`, `CloseEvent` and `StorageRaises`, `Start` being a new run and
every other step a stutter. The case that makes it hard is an outage that outlives
its end: without an incident, the first failure is later than the last answer, or
it is the start of the last row (`StartOfLast`), whose recovery is then in `lost`.
`EventInv` says by place in the loop whether the last `core_down` of the run has been
answered by a `core_up`: it has whenever the detector holds no id or is about to
record a new `core_down`. An exception between the two keeps the id, and an incident
that has lost its `core_down` event is closed with a `core_up` that answers nothing,
which does no harm.
`AlertInv` counts: the rows of a run are as many as its alerts and the losses in
`lost`, plus the one between its `OpenRow` and its `AlertDown`. An exception in between
moves that one from the last to the second.

*Lifecycle.* `HeartbeatIsDurable` says nothing of what the worker is about to rename.
`Inv` adds that no heartbeat begins during the start sequence, that the worker's
temporary file and, after its rename, the state file hold the last heartbeat
begun, that the steps of the marker are those in which `life.marked` holds, and that a
heartbeat which returned after the last synced one had a flush that failed (`Claims`).
With these, a rename or a sync by the worker only moves the disk forward, and the
loop thread's renames either precede every heartbeat or follow the marker. Once
the marker is being written the property stops: there the two threads do race.

The verdicts take eight more parts, each proved with the ones before it. `BeatInv` bounds the
heartbeats of the living run and of the one before. `RunInv` says of a run
that has a heartbeat on disk that both `file` and `durable` are documents it wrote
(`Left`): of its boot, with a heartbeat between the last that returned and the last
that began, or with its marker. `LegacyInv` says that the end of a run leaves this
so for its successor, whatever reboots follow (`LeftBehind`), until the successor has
read it into `previous`. `VerdictInv` and `JournalInv` draw the verdict from it, `RowInv` the
incident's row. `BootInv` and `ToldInv` do without `Landed`: an unmarked document names the boot
of its heartbeat, or one in which a run died before its own first heartbeat (`early`),
so what is said of the host holds of every document, whoever wrote it. One hypothesis
is left, `MarkerIsCleared`: a marker that is not cleared is taken for the next run's own.
`FullInv`, the conjunction, was checked by TLC first.

*Notifier.* `ClockInv` places each admission within its hour; `MemoryInv` says that `recent` is no
older than any admission of the title in this run and that `hourCount` counts at least
the admissions of the current hour; `OrderInv` says that of two admissions the
later one is in a later hour or fewer than `MaxPerHour` places behind, so that any
`MaxPerHour + 1` in a row span a change of the hour. `2 * MaxPerHour + 1` in a row
span two, and the hour between them is complete.
`CauseInv` goes the other way, from what is remembered to what was admitted: each entry of
`recent` is the time of an alert of this run, and the last `hourCount` alerts are of
this run and hour. So a full hour or a repeat has its witnesses.

*Alerting.* Every step of the composition is a step of `Notifier` (`AlertingStep`), so its
invariants hold of it. `WordInv` adds that the detector's alert under way is about
the turn its incident has just taken, and that what was sent has reached the reader or
is `"missed"`. A turn that is suppressed has, by
`CauseInv`, a cause: the hour, or the same title within the window. "Not
responding" is critical and has no such window, which leaves the second recovery.

*Journal tail.* `RecentInv` relates `_recent` to what was admitted: a line of this run
is in it with the time of its admission or a later one, or its window is over, which
is all that pruning may forget; and whatever is in it was admitted. From it a line that is admitted
is at least `Dedupe` behind every earlier one, and a repeat that is dropped has a
witness. `MinuteInv` says that the last `minuteCount` lines were admitted in the minute
the counter counts; the clock of a minute that is over is reset before it is
compared, so a full counter means `MaxPerMinute` lines less than a minute old.
Reconnections and failures disturb neither, a restart empties both.

*Retention.* `Good` is what each of the three views of the database satisfies by
itself: a written sample is folded if it lies before the view's watermark, still
raw if it does not, or its row has expired, or it is `late`; and whatever is not raw any
more is too old to be. A row at or after the watermark still has all its raw samples.
`ViewsInv` adds that the watermarks of the views are in order, so that whatever survives
a crash is behind what was lost, and `Grown` that a row on disk that the connection no
longer has is one that nothing will compute again. A sample that is inserted within a
minute of its stamp is at or after every watermark, thanks to the minute of grace of
`end`; any other whose minute has been folded is late. `PassInv` carries the rollup
from one transaction to the next: what is about to be marked as folded is folded or
late, and only what lies before the watermark is old enough to be purged, which is
where `InTime` is needed. Folding replaces no row by a poorer one, as a row from
before the watermark is of a minute that is not selected, and one from after it is
computed again from all it had.

*Event bus.* Routing depends on messages that are still on their way, so the
invariant speaks of each message in `inbox` by its place. `Sound` says of a result that its id is
pending with the kind that was asked, `Expected` of an event that the watcher will
know its subscription by the time it reads it: it does already, or the
confirmation lies ahead (`Confirmed`). `Served` says that nothing under way can revive a
subscription that was closed. `HeldInv` and `OpenInv` tie what the watcher holds to
what Core has open in both directions, but for health requests that are finished and
whose `unsub` is under way. At most one id is a bearer (`Bearers`) of the subscription to
state changes. A lost connection empties all of it at once.

*Back-off.* `WatcherBacksOff` and `TailNeverDies` are the refinement of `Backoff` without its fairness
(`BackoffSteps`), step by step: `Raise` of the tail is an `EndByError`, a start of the
add-on a `Start`, whatever is read, recorded or answered a stutter.

*Bundles.* A path is followed from the archive made to the row that names it, to
what a power cut leaves of the row, and to a download that holds it: `Kept` says
of each that the archive is whole or damaged by a power cut, and in the
directory, damaged, or `Keep` newer ones have been made. Making archives and
pruning only make it truer; a path enters a row at `Name`, when `RoundInv` says that its
archive was written to the end and that no row names it yet (`Apart`). The bound on the
directory rests on a fact about finite sets of numbers (`FewNewest`): at most `Keep` elements
have fewer than `Keep` above them. It is proved from the least of them, as all the
others lie above it.

*Pollers.* `TellInv` says that the changes that wait lead from what was told to what is
known: the `to` of each is what is known, and a thing told wrongly has a change as
a whole, or one for each part that differs; the parts may be recorded in either
order. `PastInv` gives every baseline a moment in `past` at which the thing read so
(`ReadAt`), and bounds the restarts by the starts up to that moment; the next answer
is read at the last moment of `past`, so what differs from the baseline is later.
`OsInv` says that a version not yet committed is what the system reads and has its
event beside it in the same open transaction, so that whichever call commits it,
commits both. A change of the system while a check is under way would break this:
it comes in a reboot only. Proving `EventsTellAll` needs the kinds of things to be
disjoint, which `PollersAssumption` says.

*Availability.* What the tracker will know depends on what is still in `channel`, so
the invariants speak of its messages by their places. `ViewInv`: the last message about
an entity says what Core holds of it (`Told`), or none speaks of it (`Silent`) and the
tracker, once seeded, holds the same (`Held`); and alike for the `old` of each event and
the messages before it. When the channel is empty, that is `ViewConverges`. It
needs `SessionInv`: a session has at most one snapshot, on its way while nothing else
is asked, and no events before the subscription, so that whatever the snapshot is too
old to tell comes behind it. `FreshInv` dates: an entity held for
dead, by the tracker or by a snapshot on its way, has not been healthy since, or the event
of its recovery is to come (`Heals`).
`OutageInv` orders the outages of a run: the one at `lastCluster` is the last, recorded or
about to be, and each counts drops of the window before it (`Sound`), so two share a
drop only when they are a window apart exactly.
`RaisedInv` says that the losses of the window are among the drops, and that the last
outage is recorded, about to be, or refused. A step that adds a loss is a `HandleEvent`, and
what it then counts by the losses `check_cluster` counts by the drops (`LossCounts`), so an
outage complete with it is raised with it or suppressed by one less than a window
old. Nothing is assumed of the storage or of the dates.

Only model-checked:

* Liveness, which is beyond TLAPS: `StopCompletes`, `OutageIsRecorded`, `RecoveryIsRecorded`,
  `EventsCatchUp`, and the fairness in `ImplementsBackoff` and `TailBacksOff`.
* The two violated properties, which are about single behaviours.

## Where code and documentation disagree

In the first two a run has TLC find the behaviour.

1. `addon_oom`: an add-on killed for memory is reported as "stopped with no matching
   kernel kill event" although the kernel's line is in the event log. The window
   of 90 s (`addons.py:24`) is laid around the poll, and the poll comes up to
   `slow_interval` after the stop, 300 s by default.
2. `availability_flapping`: an entity dead for days that recovers for a moment counts as
   a fresh drop; the filter meant to exclude it looks at the date of the drop
   itself (`availability.py:169`).

The others are exceptions that the properties of the passing runs name (see above). TLC
reaches each of them: the property fails when its exception is taken away.

3. Bundles are purged. `DOCS.md:174` says "Incidents and their bundles are never purged";
   detector and forensics call `prune` after each bundle (`detector.py:213`, `forensics.py:335`),
   which keeps the 50 newest (`bundle.py:145`, "Keep only the newest bundles so /data can't
   fill up") and leaves the older rows naming files that are gone. `EvidenceKept` excepts them,
   and `DirectoryBounded` is the bound itself: the code's promise, against the document's.
4. `host_power_loss` is also the verdict about an orderly reboot whose journal could not be
   read (`forensics.py:236-240`; the summary says that the cause is unconfirmed, the
   classification does not), where `DOCS.md:56` says "The host stopped without a shutdown
   sequence". With the journal of another boot either verdict may be wrong.
5. `addon_restart` is also the verdict about a host that lost power, if a run has died
   after recording its boot and before its first heartbeat (`forensics.py:101`), where
   `DOCS.md:58` says "The add-on restarted but the host stayed up".
6. A heartbeat whose flush failed returns normally (`state.py:79-84`), where the module says
   that "whatever it says after a hard power loss is true": it may be older than that.
7. "Alerts fire for: Core unreachable" (`DOCS.md:145`): not for an outage whose event,
   bundle or alert raised once (`detector.py:141`), nor when the hour is used up, nor, for
   "Core recovered", a second time within ten minutes (`notify.py:113`). What failed to be
   delivered is not tried again (`notify.py:144-154`, `166-175`): the document promises the
   record, not the delivery.
8. A multi-integration outage "gets its own critical event and alert" (`DOCS.md:80`): not one
   whose record the storage refused, which is suppressed as a repeat
   (`availability.py:184`).
9. "Only aggregate minutes that have certainly finished" (`storage.py:372`): a minute whose
   samples are still waiting for their loop's requests has not (`addons.py:97`).
10. An incident may be dated back to an outage that was over, when the recovery alert of
    that outage could not be recorded (`detector.py:92`).
11. The marker of a clean stop may be lost to a heartbeat that was serialised before it
    (`main.py:153`, "Write it before anything else can fail").

## Not modelled, and why

* Text: log excerpts, journal patterns, titles, the bundle's files, the web API's
  JSON. Nothing in the modelled state depends on them.
* Host metrics, Supervisor client, configuration: no state. The clients' time-outs appear
  as requests that fail.
* Web API and dashboard: read-only views; of the API only the download of an archive, which
  races with prune, is in a module (`Bundles`). `/health` only says that the process is
  there.
* Threshold checks: two numbers are compared and the notifier is called, in whose
  window they repeat.
* The ranking windows of the watcher and the database size: counters for the dashboard.
* `BundleBuilder.export_to_share`: nothing calls it.
* Wall-clock steps and an unreadable `boot_id`: outside the models.
* Supervision of all seven loops together: `_supervise` is in the modules of the loops
  it matters to (the probe loop, the slow loop).

## What is left

* `Storage` as a component: the shared connection, its lock, statements and commits from
  several threads, in the place of the open transaction that `Retention`,
  `Availability` and `Pollers` each have a part of.
* What a power cut can undo in the database between forensics and its successor
  (`synchronous=NORMAL`), in `Lifecycle`.
