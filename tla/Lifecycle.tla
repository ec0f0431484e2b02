------------------------------ MODULE Lifecycle ------------------------------
(***************************************************************************)
(* The life of the add-on's process across stops, kills, reboots and power *)
(* cuts: the state file (state.py), the start and stop sequence (main.py,  *)
(* Sentinel.run and _shutdown), the heartbeat written from a worker thread *)
(* by the probe loop, and boot forensics (forensics.py), which reads what  *)
(* the previous run left in the state file and decides how it ended.       *)
(*                                                                         *)
(* A flush of the state file is three steps: the data is serialised to a   *)
(* temporary file, the file is renamed, the directory is synced.  The loop *)
(* thread and the worker thread flush independently.  A power cut may undo *)
(* a rename whose directory has not been synced.                           *)
(*                                                                         *)
(* A heartbeat is named by a serial number, counted over all runs, in the  *)
(* place of its timestamp; 0 stands for an absent key.  Boot n has boot_id *)
(* n.  A definition commented "Variant" is a mistake the definition after   *)
(* it could contain; no specification uses it.                             *)
(***************************************************************************)
EXTENDS Naturals, Sequences

CONSTANTS
  FaultPoints,     \* steps of the forensics at which something may raise
  MaxRuns, MaxBoots, MaxBeats,  \* bounds on starts, boots and heartbeats
  MaxFaults,       \* bound on exceptions and failed flushes
  MaxStops         \* bound on the stops asked for, over all runs

Steps == {"down", "priming", "clearing", "clearReplace", "clearSync",
          "classify", "gather", "openRow", "closeRow", "running", "marking",
          "markReplace", "markSync", "closing"}

\* Where the process has not put its own boot into the state yet.
BeforeClear == {"down", "priming", "clearing"}

Verdicts == {"none", "unknown", "first_run", "clean_restart", "addon_restart",
             "host_reboot", "host_power_loss"}

\* The keys of the state file that anything depends on.
Docs == [hb : Nat, boot : Nat, clean : BOOLEAN]
EmptyDoc == [hb |-> 0, boot |-> 0, clean |-> FALSE]

ASSUME LifecycleAssumption ==
  /\ FaultPoints \subseteq
       {"clearing", "classify", "gather", "openRow", "closeRow", "flush"}
  /\ MaxRuns \in Nat /\ MaxBoots \in Nat /\ MaxBeats \in Nat
  /\ MaxFaults \in Nat /\ MaxStops \in Nat

VARIABLES
  boot,      \* the host's boot
  bootEnds,  \* how each earlier boot ended: "ordered" or "torn"
  pc,        \* where the loop thread is
  stop,      \* _stop is set
  data,      \* StateFile._data, shared by the two threads
  previous,  \* StateFile._previous
  tmp,       \* the loop thread's temporary file
  hb,        \* the worker thread: "idle", "begun", "dumped" or "replaced"
  hbTmp,     \* the worker thread's temporary file
  file,      \* the state file as the next open would read it
  durable,   \* the state file as a power cut would leave it
  verdict,   \* boot_verdict["classification"]
  rows,      \* the incidents forensics has recorded, over all runs
  runs,      \* starts so far
  beats,     \* heartbeats so far
  faults,    \* exceptions and failed flushes so far
  stops,     \* stops asked for so far
  beatBoot,  \* history: the boot each heartbeat was made in
  read,      \* history: the boot whose journal forensics read, 0 for none
  early,     \* history: boots in which a run ended with no heartbeat on disk
  life,      \* history: what this run has got to
  ended      \* history: the same of the previous run, at its end

host == <<boot, bootEnds>>
disk == <<file, durable>>
worker == <<hb, hbTmp>>
counts == <<runs, beats, faults, stops>>
record == <<beatBoot, read, early, life, ended>>
vars == <<host, pc, stop, data, previous, tmp, worker, disk, verdict, rows,
          counts, record>>

\* begun, done: the run's last heartbeat, as serialised and as synced; returned:
\* the heartbeats whose call returned; failed: those whose flush failed; marked:
\* it began to write the shutdown marker; alone: no heartbeat of the other
\* thread was still to be renamed then; exited: it ended by itself.
Lives == [begun : Nat, done : Nat, returned : SUBSET Nat, failed : SUBSET Nat,
          marked : BOOLEAN, alone : BOOLEAN, exited : BOOLEAN]
NoLife == [begun |-> 0, done |-> 0, returned |-> {}, failed |-> {},
           marked |-> FALSE, alone |-> FALSE, exited |-> FALSE]

TypeOK ==
  /\ boot \in Nat \ {0} /\ bootEnds \in Seq({"ordered", "torn"})
  /\ pc \in Steps /\ stop \in BOOLEAN
  /\ data \in Docs /\ previous \in Docs /\ tmp \in Docs /\ hbTmp \in Docs
  /\ hb \in {"idle", "begun", "dumped", "replaced"}
  /\ file \in Docs /\ durable \in Docs
  /\ verdict \in Verdicts
  /\ rows \in Seq([started : Nat, verdict : Verdicts, closed : BOOLEAN])
  /\ runs \in Nat /\ beats \in Nat /\ faults \in Nat /\ stops \in Nat
  /\ beatBoot \in Seq(Nat) /\ read \in Nat /\ early \subseteq Nat
  /\ life \in Lives /\ ended \in Lives

Init ==
  /\ boot = 1 /\ bootEnds = <<>>
  /\ pc = "down" /\ stop = FALSE
  /\ data = EmptyDoc /\ previous = EmptyDoc /\ tmp = EmptyDoc
  /\ hb = "idle" /\ hbTmp = EmptyDoc
  /\ file = EmptyDoc /\ durable = EmptyDoc
  /\ verdict = "none" /\ rows = <<>>
  /\ runs = 0 /\ stops = 0 /\ beats = 0 /\ faults = 0
  /\ beatBoot = <<>> /\ read = 0 /\ early = {} /\ life = NoLife /\ ended = NoLife

-----------------------------------------------------------------------------
(* Starting *)

\* StateFile.__init__: read the file, keep a copy as "previous".
Start ==
  /\ pc = "down" /\ runs < MaxRuns
  /\ runs' = runs + 1
  /\ data' = file /\ previous' = file
  /\ pc' = "priming" /\ stop' = FALSE /\ verdict' = "none"
  /\ life' = NoLife /\ read' = 0
  /\ UNCHANGED <<host, tmp, worker, disk, rows, beats, faults, stops,
                 beatBoot, early, ended>>

\* Capability probe, first polls, restored availability: all before forensics.
Prime ==
  /\ pc = "priming"
  /\ pc' = "clearing"
  /\ UNCHANGED <<host, stop, data, previous, tmp, worker, disk, verdict, rows,
                 counts, record>>

\* BootForensics.analyse after record_boot: note the boot, clear the marker,
\* flush.
ClearMarker ==
  /\ pc = "clearing"
  /\ data' = [data EXCEPT !.boot = boot, !.clean = FALSE]
  /\ tmp' = data'
  /\ pc' = "clearReplace"
  /\ UNCHANGED <<host, stop, previous, worker, disk, verdict, rows, counts,
                 record>>

\* os.replace and the directory fsync, in the loop thread.
Replace(from, to) ==
  /\ pc = from
  /\ file' = tmp
  /\ pc' = to
  /\ UNCHANGED <<host, stop, data, previous, tmp, worker, durable, verdict,
                 rows, counts, record>>

Sync(from, to) ==
  /\ pc = from
  /\ durable' = file
  /\ pc' = to
  /\ UNCHANGED <<host, stop, data, previous, tmp, worker, file, verdict,
                 rows, counts, record>>

ClearReplace == Replace("clearReplace", "clearSync")
ClearSync == Sync("clearSync", "classify")

\* Variant: a verdict the schema does not know.
ClassificationMisnamed ==
  CASE previous.hb = 0 -> "first_run"
    [] previous.hb # 0 /\ previous.clean -> "clean_restart"
    [] previous.hb # 0 /\ ~previous.clean ->
         IF previous.boot # boot THEN "power_loss" ELSE "addon_restart"

\* _classify, from what the previous run left.
Classification ==
  CASE previous.hb = 0 -> "first_run"
    [] previous.hb # 0 /\ previous.clean -> "clean_restart"
    [] previous.hb # 0 /\ ~previous.clean ->
         IF previous.boot # 0 /\ previous.boot # boot
           THEN "host_power_loss" ELSE "addon_restart"

\* Variant: the restart of the add-on alone is not an incident.
ClassifyQuietly ==
  /\ pc = "classify"
  /\ verdict' = Classification
  /\ pc' = IF verdict' \in {"host_reboot", "host_power_loss"} THEN "gather" ELSE "running"
  /\ UNCHANGED <<host, stop, data, previous, tmp, worker, disk, rows, counts,
                 record>>

Classify ==
  /\ pc = "classify"
  /\ verdict' = Classification
  /\ pc' = IF verdict' \in {"first_run", "clean_restart"} THEN "running" ELSE "gather"
  /\ UNCHANGED <<host, stop, data, previous, tmp, worker, disk, rows, counts,
                 record>>

\* What _previous_boot_journal may read: the journal of the boot on file, else
\* that of the boot before this one, else nothing.
Journals == {previous.boot, boot - 1, 0}

\* Variant: no sign of a power loss in the journal is an orderly end.
GatherOptimist ==
  /\ pc = "gather"
  /\ \/ /\ verdict = "host_power_loss"
        /\ read' \in Journals
        /\ verdict' = IF read' = 0 \/ bootEnds[read'] = "ordered"
                        THEN "host_reboot" ELSE verdict
     \/ /\ verdict # "host_power_loss"
        /\ UNCHANGED <<verdict, read>>
  /\ pc' = "openRow"
  /\ UNCHANGED <<host, stop, data, previous, tmp, worker, disk, rows, counts,
                 beatBoot, early, life, ended>>

\* _gather_evidence: an orderly tail turns the verdict into host_reboot; with no
\* journal the verdict stays.
Gather ==
  /\ pc = "gather"
  /\ \/ /\ verdict = "host_power_loss"
        /\ read' \in Journals
        /\ verdict' = IF read' # 0 /\ bootEnds[read'] = "ordered"
                        THEN "host_reboot" ELSE verdict
     \/ /\ verdict # "host_power_loss"
        /\ UNCHANGED <<verdict, read>>
  /\ pc' = "openRow"
  /\ UNCHANGED <<host, stop, data, previous, tmp, worker, disk, rows, counts,
                 beatBoot, early, life, ended>>

\* _record_incident: the row is inserted, the bundle is built, the row closed.
OpenRow ==
  /\ pc = "openRow"
  /\ rows' = Append(rows, [started |-> previous.hb, verdict |-> verdict,
                           closed |-> FALSE])
  /\ pc' = "closeRow"
  /\ UNCHANGED <<host, stop, data, previous, tmp, worker, disk, verdict, counts,
                 record>>

CloseRow ==
  /\ pc = "closeRow"
  /\ rows' = [rows EXCEPT ![Len(rows)].closed = TRUE]
  /\ pc' = "running"
  /\ UNCHANGED <<host, stop, data, previous, tmp, worker, disk, verdict, counts,
                 record>>

\* _run_forensics swallows whatever analyse raises, and the add-on goes on.
\* Every step that writes to the event log may raise: record_boot, the event
\* of a first run or a clean restart ("classify"), the row and its event.
ForensicsRaises ==
  /\ pc \in FaultPoints /\ faults < MaxFaults
  /\ faults' = faults + 1
  /\ verdict' = "unknown"
  /\ pc' = "running"
  /\ UNCHANGED <<host, stop, data, previous, tmp, worker, disk, rows, runs,
                 stops, beats, record>>

-----------------------------------------------------------------------------
(* The heartbeat, in its worker thread *)

\* The probe loop hands StateFile.heartbeat to a thread.
HeartbeatBegin ==
  /\ pc = "running" /\ ~stop /\ hb = "idle" /\ beats < MaxBeats
  /\ hb' = "begun"
  /\ UNCHANGED <<host, pc, stop, data, previous, tmp, hbTmp, disk, verdict,
                 rows, counts, record>>

\* Variant: what is serialised is the data before the stamp.
HeartbeatDumpStale ==
  /\ hb = "begun"
  /\ beats' = beats + 1
  /\ data' = [data EXCEPT !.hb = beats']
  /\ hbTmp' = data
  /\ hb' = "dumped"
  /\ beatBoot' = Append(beatBoot, boot)
  /\ life' = [life EXCEPT !.begun = beats']
  /\ UNCHANGED <<host, pc, stop, previous, tmp, disk, verdict, rows, runs,
                 stops, faults, read, early, ended>>

\* The thread stamps the shared data and serialises it.
HeartbeatDump ==
  /\ hb = "begun"
  /\ beats' = beats + 1
  /\ data' = [data EXCEPT !.hb = beats']
  /\ hbTmp' = data'
  /\ hb' = "dumped"
  /\ beatBoot' = Append(beatBoot, boot)
  /\ life' = [life EXCEPT !.begun = beats']
  /\ UNCHANGED <<host, pc, stop, previous, tmp, disk, verdict, rows, runs,
                 stops, faults, read, early, ended>>

\* Variant: the worker waits for the loop, which is waiting for it to end.
HeartbeatReplaceWaits ==
  /\ hb = "dumped" /\ pc = "running"
  /\ file' = hbTmp
  /\ hb' = "replaced"
  /\ UNCHANGED <<host, pc, stop, data, previous, tmp, hbTmp, durable, verdict,
                 rows, counts, record>>

HeartbeatReplace ==
  /\ hb = "dumped"
  /\ file' = hbTmp
  /\ hb' = "replaced"
  /\ UNCHANGED <<host, pc, stop, data, previous, tmp, hbTmp, durable, verdict,
                 rows, counts, record>>

\* Variant: the directory is not synced.
HeartbeatNoSync ==
  /\ hb = "replaced"
  /\ hb' = "idle"
  /\ life' = [life EXCEPT !.done = life.begun, !.returned = @ \cup {life.begun}]
  /\ UNCHANGED <<host, pc, stop, data, previous, tmp, hbTmp, disk, verdict,
                 rows, counts, beatBoot, read, early, ended>>

HeartbeatSync ==
  /\ hb = "replaced"
  /\ durable' = file
  /\ hb' = "idle"
  /\ life' = [life EXCEPT !.done = life.begun, !.returned = @ \cup {life.begun}]
  /\ UNCHANGED <<host, pc, stop, data, previous, tmp, hbTmp, file, verdict,
                 rows, counts, beatBoot, read, early, ended>>

\* A flush fails.  mkstemp is outside the try: what it raises leaves flush, and
\* ends the forensics, the stop or the heartbeat.  Any later OSError is
\* swallowed, and the caller goes on: before the rename the file stays as it
\* was, after it the new file is in place and the directory is not synced.
FlushFails ==
  /\ "flush" \in FaultPoints /\ faults < MaxFaults
  /\ faults' = faults + 1
  /\ \/ /\ pc = "clearReplace" /\ pc' = "running" /\ verdict' = "unknown"
        /\ UNCHANGED <<hb, life>>
     \/ /\ pc \in {"clearReplace", "clearSync"} /\ pc' = "classify"
        /\ UNCHANGED <<hb, verdict, life>>
     \/ /\ pc \in {"markReplace", "markSync"} /\ pc' = "closing"
        /\ UNCHANGED <<hb, verdict, life>>
     \/ /\ hb = "dumped" /\ hb' = "idle"
        /\ UNCHANGED <<pc, verdict, life>>
     \/ /\ hb \in {"dumped", "replaced"} /\ hb' = "idle"
        /\ life' = [life EXCEPT !.returned = @ \cup {life.begun},
                               !.failed = @ \cup {life.begun}]
        /\ UNCHANGED <<pc, verdict>>
  /\ UNCHANGED <<host, stop, data, previous, tmp, hbTmp, disk, rows, runs, stops,
                 beats, beatBoot, read, early, ended>>

-----------------------------------------------------------------------------
(* Stopping *)

\* SIGTERM or SIGINT.  Only noticed once run() waits for it.
RequestStop ==
  /\ pc # "down" /\ ~stop /\ stops < MaxStops
  /\ stops' = stops + 1
  /\ stop' = TRUE
  /\ UNCHANGED <<host, pc, data, previous, tmp, worker, disk, verdict, rows,
                 runs, beats, faults, record>>

\* run() cancels its tasks.  Cancelling the probe loop does not stop a
\* heartbeat that is running in its thread.
CancelTasks ==
  /\ pc = "running" /\ stop
  /\ pc' = "marking"
  /\ UNCHANGED <<host, stop, data, previous, tmp, worker, disk, verdict, rows,
                 counts, record>>

\* mark_clean_shutdown.
MarkClean ==
  /\ pc = "marking"
  /\ data' = [data EXCEPT !.clean = TRUE]
  /\ tmp' = data'
  /\ pc' = "markReplace"
  /\ life' = [life EXCEPT !.marked = TRUE, !.alone = hb \in {"idle", "replaced"}]
  /\ UNCHANGED <<host, stop, previous, worker, disk, verdict, rows, counts,
                 beatBoot, read, early, ended>>

MarkReplace == Replace("markReplace", "markSync")
MarkSync == Sync("markSync", "closing")

\* The process is gone, and its memory with it.
Die(how) ==
  /\ pc' = "down" /\ hb' = "idle" /\ stop' = FALSE
  /\ data' = EmptyDoc /\ previous' = EmptyDoc /\ tmp' = EmptyDoc /\ hbTmp' = EmptyDoc
  /\ ended' = IF pc = "down" THEN ended ELSE how
  /\ early' = IF pc \notin BeforeClear /\ life.done = 0
                THEN early \cup {boot} ELSE early
  /\ life' = NoLife /\ verdict' = "none" /\ read' = 0
  /\ UNCHANGED <<rows, counts, beatBoot>>

\* asyncio.run waits for the worker threads before it returns.
Exit ==
  /\ pc = "closing" /\ hb = "idle"
  /\ Die([life EXCEPT !.exited = TRUE])
  /\ UNCHANGED <<host, disk>>

\* Killed: OOM, a stop that took too long, a bug in an extension module.
Kill ==
  /\ pc # "down"
  /\ Die(life)
  /\ UNCHANGED <<host, disk>>

\* The host reboots in an orderly way, with the add-on running or not.  Whether
\* the add-on's own stop was through by then depends on when this happens.
HostReboot ==
  /\ boot < MaxBoots
  /\ boot' = boot + 1 /\ bootEnds' = Append(bootEnds, "ordered")
  /\ durable' = file
  /\ Die(life)
  /\ UNCHANGED file

\* The host loses power; a rename not yet synced may be undone.
PowerLoss ==
  /\ boot < MaxBoots
  /\ boot' = boot + 1 /\ bootEnds' = Append(bootEnds, "torn")
  /\ file' \in {file, durable}
  /\ durable' = file'
  /\ Die(life)

LoopStep ==
  \/ Prime \/ ClearMarker \/ ClearReplace \/ ClearSync \/ Classify
  \/ Gather \/ OpenRow \/ CloseRow
  \/ CancelTasks \/ MarkClean \/ MarkReplace \/ MarkSync \/ Exit

WorkerStep == HeartbeatDump \/ HeartbeatReplace \/ HeartbeatSync

Next ==
  \/ Start \/ LoopStep \/ ForensicsRaises
  \/ HeartbeatBegin \/ WorkerStep \/ FlushFails
  \/ RequestStop \/ Kill \/ HostReboot \/ PowerLoss

Spec == Init /\ [][Next]_vars

\* The operating system keeps running both threads.  Nothing obliges anyone to
\* ask for a stop, to kill the process or to start it.
FairSpec == Spec /\ WF_vars(LoopStep) /\ WF_vars(WorkerStep)

-----------------------------------------------------------------------------
(* Properties.  "ended" is how the previous run really ended, and previous.hb *)
(* the last heartbeat forensics found on file.                               *)

\* The run that ended had a heartbeat on the disk.  Nothing is promised about a
\* run that died before: its marker may be its predecessor's, and so is its
\* last heartbeat.
Landed == ended.done # 0

\* A verdict of clean_restart is given only after a run that got to write its
\* shutdown marker.  forensics.py: "Clean restart. The add-on was stopped in an
\* orderly way."
CleanRestartIsTrue == (Landed /\ verdict = "clean_restart") => ended.marked

\* A run that ended by itself is followed by a clean_restart, if nothing
\* failed.  main.py: "The marker is what tells the next run this was orderly
\* rather than a crash."  That holds only if the two threads do not rename
\* their files at the same time: cancelling the probe loop does not end the
\* heartbeat that is running in its thread.
CleanStopIsRecognised ==
  (Landed /\ ended.exited /\ ended.alone /\ faults = 0 /\ verdict # "none") =>
    verdict = "clean_restart"

\* The boot of the last heartbeat on file.
LastBoot == beatBoot[previous.hb]

\* A verdict of addon_restart is given only if the host is still in the boot of
\* the last heartbeat, or a run of this boot died before its first one: it had
\* put its own boot beside its predecessor's heartbeat.  DOCS.md: "The add-on
\* restarted but the host stayed up."
AddonRestartIsTrue ==
  verdict = "addon_restart" => LastBoot = boot \/ boot \in early

\* The journal forensics read is of another boot than the last heartbeat's, which
\* is not the boot before this one either.
OtherJournal == read # LastBoot /\ LastBoot < boot - 1

\* A verdict of host_reboot is given only if the boot of the last heartbeat
\* ended in an orderly way, or the journal of another was read.  forensics.py:
\* "The host rebooted in an orderly way."
HostRebootIsTrue ==
  verdict = "host_reboot" => bootEnds[LastBoot] = "ordered" \/ OtherJournal

\* A verdict of host_power_loss is given only if the boot of the last heartbeat
\* has ended, and ended torn, unless no journal could be read or that of another
\* boot was.  Without a journal every reboot is a power loss, ordered or not.
HostPowerLossIsTrue ==
  (verdict = "host_power_loss" /\ pc # "gather") =>
    /\ LastBoot < boot
    /\ bootEnds[LastBoot] = "torn" \/ read = 0 \/ OtherJournal

\* Each verdict of forensics is true of how the run before ended.  What is said
\* of the host is said of the last heartbeat on file, whoever wrote it, and the
\* exceptions are those the code leaves: a run that died before its first
\* heartbeat, and a journal that is missing or of another boot.
VerdictIsTrue ==
  /\ CleanRestartIsTrue
  /\ CleanStopIsRecognised
  /\ AddonRestartIsTrue
  /\ HostRebootIsTrue
  /\ HostPowerLossIsTrue

\* The moment of death forensics reports is the last heartbeat of the run that
\* died.  state.py: last_heartbeat is "the timestamp we trust for 'when did the
\* machine stop being alive'".
OutageStartsAtDeath ==
  (Landed /\ verdict \in {"addon_restart", "host_reboot", "host_power_loss"}) =>
    previous.hb \in ended.done..ended.begun

\* A run that died unmarked has its incident on record, closed and starting at
\* its last heartbeat, by the time its successor runs, unless forensics failed.
UncleanEndIsRecorded ==
  (Landed /\ ~ended.marked /\ pc = "running" /\ verdict # "unknown") =>
    /\ rows # <<>>
    /\ rows[Len(rows)].closed
    /\ rows[Len(rows)].started \in ended.done..ended.begun
    /\ rows[Len(rows)].verdict = verdict

\* Until the shutdown marker is being written, neither the state file nor what
\* a power cut would leave of it is older than any heartbeat that returned,
\* except one whose own flush failed: flush swallows the error, and the heartbeat
\* returns as if it were on disk.  The next one that does not fail makes up for
\* it.  state.py: "whatever it says after a hard power loss is true".
HeartbeatIsDurable ==
  (pc # "down" /\ ~life.marked) =>
    \A n \in life.returned :
      (file.hb < n \/ durable.hb < n) => n \in life.failed

\* A stop that is asked for completes, heartbeat in flight or not.
StopCompletes == stop ~> pc = "down"

=============================================================================
