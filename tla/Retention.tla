------------------------------ MODULE Retention ------------------------------
(***************************************************************************)
(* Samples and their retention (storage.py, write_samples, rollup, purge   *)
(* and amaintain, with the loops of main.py that call them).  Raw samples  *)
(* are folded minute by minute into samples_1m, from a watermark that a    *)
(* second transaction moves; a third one deletes what is too old.          *)
(*                                                                         *)
(* All threads share one connection under one lock.  A call that raises    *)
(* leaves what it has executed in the open transaction, and the next call  *)
(* of any thread commits it: "conn" is the database as the connection sees *)
(* it, "disk" as it was committed, "durable" as a power cut would leave it *)
(* (synchronous=NORMAL syncs at checkpoints only).                         *)
(*                                                                         *)
(* Every loop writes metrics of its own; one stands for all of a loop.  A  *)
(* row of samples_1m is the set of the samples it was computed from.       *)
(*                                                                         *)
(* A definition commented "Variant" is a mistake the definition after it   *)
(* could contain; no specification uses it.                                *)
(***************************************************************************)
EXTENDS Naturals, FiniteSets

CONSTANTS
  Metrics,      \* one for each loop that writes samples
  Minute,       \* 60 s, in ticks
  FirstWindow,  \* 86400 s: how far the first rollup reaches back
  RawKeep,      \* retention_raw_days
  RollupKeep,   \* retention_rollup_days
  MaxPass,      \* longest time from the rollup to the purge of one pass
  MaxFirst,     \* longest time until the first watermark is synced
  StartTime,    \* the clock at the first start
  MaxTime,      \* bound: the clock stops here
  MaxSamples,   \* bound: samples taken
  MaxFaults     \* bound: exceptions, kills and power cuts

ASSUME RetentionAssumption ==
  /\ Minute \in Nat \ {0} /\ FirstWindow \in Nat
  /\ RawKeep \in Nat /\ RollupKeep \in Nat
  /\ MaxPass \in Nat /\ MaxFirst \in Nat
  /\ StartTime \in Nat /\ StartTime >= Minute
  /\ MaxTime \in Nat /\ MaxSamples \in Nat /\ MaxFaults \in Nat

Samples == [ts : Nat, metric : Metrics]

\* What the database holds.  "written" is history: every sample inserted.
Databases == [raw : SUBSET Samples, rolled : SUBSET Samples, last : Nat,
              written : SUBSET Samples]

NoSample == 0

VARIABLES
  clock,
  taken,    \* of each loop: the ts of the sample in hand, or NoSample
  task,     \* the maintenance pass: "idle", "insert", "mark" or "purge"
  now, end, \* of the rollup under way: when it began, where it ends
  conn, disk, durable,  \* the database
  count,    \* samples taken so far
  faults,   \* exceptions, kills and power cuts so far
  late      \* history: samples inserted long after their minute had been folded

db == <<conn, disk, durable>>
rollup == <<now, end>>
vars == <<clock, taken, task, rollup, db, count, faults, late>>

TypeOK ==
  /\ clock \in Nat /\ count \in Nat /\ faults \in Nat
  /\ taken \in [Metrics -> Nat]
  /\ task \in {"idle", "insert", "mark", "purge"}
  /\ now \in Nat /\ end \in Nat
  /\ conn \in Databases /\ disk \in Databases /\ durable \in Databases
  /\ \A d \in {conn, disk, durable} : d.last % Minute = 0
  /\ late \subseteq Samples

Empty == [raw |-> {}, rolled |-> {}, last |-> 0, written |-> {}]

Init ==
  /\ clock = StartTime
  /\ taken = [m \in Metrics |-> NoSample]
  /\ task = "idle" /\ now = 0 /\ end = 0
  /\ conn = Empty /\ disk = Empty /\ durable = Empty
  /\ count = 0 /\ faults = 0 /\ late = {}

\* A transaction that ends in a commit.
Commit(d) == conn' = d /\ disk' = d /\ UNCHANGED durable

\* One that raises before its commit, after some of its statements.
Abandon(ds) == conn' \in ds /\ UNCHANGED <<disk, durable>>

Fault == faults < MaxFaults /\ faults' = faults + 1

\* The pass is over, and its local variables are gone.
PassEnds == task' = "idle" /\ now' = 0 /\ end' = 0

\* Time passes no faster than the code does what MaxPass and MaxFirst give it time
\* for.  A sample in hand may wait for any time.
Tick ==
  /\ clock < MaxTime
  /\ task # "idle" => clock < now + MaxPass
  /\ durable.last = 0 => clock < StartTime + MaxFirst
  /\ clock' = clock + 1
  /\ UNCHANGED <<taken, task, rollup, db, count, faults>>

-----------------------------------------------------------------------------
(* The loops that write *)

\* A loop stamps a sample, then awaits what it is made of: requests of up to 15 s
\* each, one after the other.  Its next sample has another stamp: every interval
\* is longer than a tick.
Take(m) ==
  /\ taken[m] = NoSample /\ count < MaxSamples
  /\ [ts |-> clock, metric |-> m] \notin conn.written
  /\ taken' = [taken EXCEPT ![m] = clock]
  /\ count' = count + 1
  /\ UNCHANGED <<clock, task, rollup, db, faults>>

Inserted(m) ==
  LET s == [ts |-> taken[m], metric |-> m]
  IN  [conn EXCEPT !.raw = @ \cup {s}, !.written = @ \cup {s}]

\* write_samples.
Write(m) ==
  /\ taken[m] # NoSample
  /\ Commit(Inserted(m))
  /\ taken' = [taken EXCEPT ![m] = NoSample]
  /\ UNCHANGED <<clock, task, rollup, count, faults>>

\* It raises: the loop is restarted, and the sample is in the open transaction
\* or lost.
WriteFails(m) ==
  /\ taken[m] # NoSample /\ Fault
  /\ Abandon({conn, Inserted(m)})
  /\ taken' = [taken EXCEPT ![m] = NoSample]
  /\ UNCHANGED <<clock, task, rollup, count>>

-----------------------------------------------------------------------------
(* The maintenance pass *)

\* The minute of a sample.
Bucket(s) == (s.ts \div Minute) * Minute

\* Variant: the current minute counts as finished.
EndAtOnce(t) == (t \div Minute) * Minute

\* Minutes that have certainly finished end here.
End(t) == ((t - Minute) \div Minute) * Minute

\* rollup reads the watermark.  Without a finished minute it returns at once.
BeginPass ==
  /\ task = "idle"
  /\ now' = clock /\ end' = End(clock)
  /\ task' = IF end' <= conn.last THEN "purge" ELSE "insert"
  /\ UNCHANGED <<clock, taken, db, count, faults>>

\* Variant: the watermark is not used.
FromDayStart(s) == s.ts + FirstWindow >= end

\* The samples the rollup starts from: since the watermark, or the last day.
FromStart(s) == IF conn.last # 0 THEN s.ts >= conn.last ELSE s.ts + FirstWindow >= end

Selected == {s \in conn.raw : FromStart(s) /\ s.ts < end}

\* Is there a row for the minute and metric of s among those computed from ss?
SameRow(s, ss) == \E t \in ss : t.metric = s.metric /\ Bucket(t) = Bucket(s)

\* INSERT OR REPLACE, grouped by minute and metric.
Folded == [conn EXCEPT !.rolled = {s \in @ : ~SameRow(s, Selected)} \cup Selected]

Insert ==
  /\ task = "insert"
  /\ Commit(Folded)
  /\ task' = "mark"
  /\ UNCHANGED <<clock, taken, rollup, count, faults>>

\* set_meta: a transaction of its own.
Marked == [conn EXCEPT !.last = end]

Mark ==
  /\ task = "mark"
  /\ Commit(Marked)
  /\ task' = "purge"
  /\ UNCHANGED <<clock, taken, rollup, count, faults>>

\* purge: two of its four DELETEs are about samples.  Its clock is its own.
RawPurged == [conn EXCEPT !.raw = {s \in @ : s.ts + RawKeep >= clock}]
Purged == [RawPurged EXCEPT !.rolled = {s \in @ : Bucket(s) + RollupKeep >= clock}]

Purge ==
  /\ task = "purge"
  /\ Commit(Purged)
  /\ PassEnds
  /\ UNCHANGED <<clock, taken, count, faults>>

\* A step of the pass raises.  The loop logs it and starts over later.
PassFails ==
  /\ Fault
  /\ \/ task = "insert" /\ Abandon({conn, Folded})
     \/ task = "mark" /\ Abandon({conn, Marked})
     \/ task = "purge" /\ Abandon({conn, RawPurged, Purged})
  /\ PassEnds
  /\ UNCHANGED <<clock, taken, count>>

-----------------------------------------------------------------------------
(* The end of the process *)

Restarted == taken' = [m \in Metrics |-> NoSample] /\ PassEnds

\* The process dies: the open transaction is rolled back.
Crash ==
  /\ Fault /\ Restarted
  /\ conn' = disk
  /\ UNCHANGED <<clock, disk, durable, count>>

\* SQLite syncs what has been committed.
Checkpoint ==
  /\ durable # disk
  /\ durable' = disk
  /\ UNCHANGED <<clock, taken, task, rollup, conn, disk, count, faults>>

\* Power is lost, and with it what had not been synced.
PowerLoss ==
  /\ Fault /\ Restarted
  /\ conn' = durable /\ disk' = durable
  /\ UNCHANGED <<clock, durable, count>>

Step ==
  \/ Tick
  \/ \E m \in Metrics : Take(m) \/ Write(m) \/ WriteFails(m)
  \/ BeginPass \/ Insert \/ Mark \/ Purge \/ PassFails
  \/ Crash \/ Checkpoint \/ PowerLoss

\* The rollup is past the minute of s, or has just folded it.
Passed(s) == s.ts < conn.last \/ (task = "mark" /\ s.ts < end)

\* The samples of this step that come too late, and by more than the minute that
\* the rollup waits for them.
LateNow == {s \in conn'.written \ conn.written : s.ts + Minute < clock /\ Passed(s)}

Next ==
  /\ Step
  /\ late' = late \cup LateNow

Spec == Init /\ [][Next]_vars

-----------------------------------------------------------------------------
(* Properties *)

\* A minute too old to be kept.
Expired(s) == Bucket(s) + RollupKeep < clock

\* No sample is lost between the two tables: whatever failed or crashed between
\* the rollup, its watermark and the purge, a sample before the watermark is in
\* its minute's row, and any other is still there to be folded, until it is too
\* old to be kept.  The one exception is a sample that was inserted more than a
\* minute after its stamp, when its minute had been folded: it may be in no row,
\* but is kept as long as raw samples are.  This holds of the open transaction,
\* of what is committed and of what a power cut would leave.  storage.py: "Only
\* aggregate minutes that have certainly finished."
EverySampleCounted ==
  /\ TypeOK
  /\ \A d \in {conn, disk, durable} : \A s \in d.written :
       \/ Expired(s)
       \/ s.ts < d.last /\ s \in d.rolled
       \/ s.ts >= d.last /\ s \in d.raw
       \/ s \in late /\ (s \in d.raw \/ s.ts + RawKeep < clock)

\* A row of samples_1m is never replaced by one that was computed from fewer
\* samples: a rollup that is repeated after a crash repeats itself before the
\* raw samples are purged.
RowsOnlyGrow ==
  [][disk' # durable =>
       \A s \in disk.rolled : s \in disk'.rolled \/ ~SameRow(s, disk'.rolled)]_vars

=============================================================================
