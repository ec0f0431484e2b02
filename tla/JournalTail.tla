----------------------------- MODULE JournalTail -----------------------------
(***************************************************************************)
(* The tail of the host journal (collectors/host_events.py, HostEventTail) *)
(* and the handler of its events (main.py, _on_host_event).                *)
(*                                                                         *)
(* A line stands for its fingerprint: its pattern's kind and its text      *)
(* without the digits.  The stream is external: a session begins anywhere  *)
(* in the journal and ends anywhere, so that lines are missed or repeated, *)
(* and what it delivers is any sequence of lines.  Waits are not measured: *)
(* a retry comes sooner or later.  Names that the watcher's loop has too   *)
(* (EventBus) are written with "tail" here.                                *)
(*                                                                         *)
(* A definition commented "Variant" is a mistake the definition after it   *)
(* could contain; no specification uses it.                                *)
(***************************************************************************)
EXTENDS Naturals, Sequences, FiniteSets

CONSTANTS
  Fingerprints,  \* the lines that match a pattern
  Critical,      \* those whose pattern is critical
  Dedupe,        \* _DEDUPE_SECONDS
  Minute,        \* 60 s
  MaxPerMinute,  \* _MAX_EVENTS_PER_MINUTE
  MaxRecent,     \* the size at which _recent is pruned
  MinDelay,      \* _RECONNECT_DELAY
  MaxDelay,      \* _MAX_RECONNECT_DELAY
  MaxTime,       \* bound: the clock stops here
  MaxFaults,     \* bound: calls that raise
  MaxRuns        \* bound: starts of the add-on

ASSUME JournalTailAssumption ==
  /\ Critical \subseteq Fingerprints
  /\ Dedupe \in Nat \ {0} /\ Minute \in Nat \ {0}
  /\ MaxPerMinute \in Nat \ {0} /\ MaxRecent \in Nat
  /\ MinDelay \in Nat \ {0} /\ MaxDelay \in Nat /\ MinDelay <= MaxDelay
  /\ MaxTime \in Nat \ {0} /\ MaxRuns \in Nat \ {0} /\ MaxFaults \in Nat

NoTime == 0

VARIABLES
  clock,
  run,            \* starts of the add-on
  tailStopped,    \* the add-on was asked to stop
  tailPhase,      \* "session", "waiting" or "off"
  tailDelay,      \* the next wait before a reconnection
  step,           \* of a session: "read", "record" or "alert"
  recent,         \* _recent; NoTime for a fingerprint not in it
  minuteStarted,  \* _minute_started
  minuteCount,    \* _minute_count
  admitted,       \* the lines admitted, with the event time once recorded
  faults          \* calls that raised

filter == <<recent, minuteStarted, minuteCount>>
tailLoop == <<tailStopped, tailPhase, tailDelay, step>>
tail == <<clock, run, tailLoop, filter, admitted, faults>>

Admissions ==
  [run : Nat, line : Fingerprints, ts : Nat, event : Nat]

TailTypeOK ==
  /\ clock \in 1 .. MaxTime /\ run \in 1 .. MaxRuns /\ tailStopped \in BOOLEAN
  /\ tailPhase \in {"session", "waiting", "off"} /\ tailDelay \in MinDelay .. MaxDelay
  /\ step \in {"read", "record", "alert"}
  /\ recent \in [Fingerprints -> 0 .. MaxTime]
  /\ minuteStarted \in 1 .. MaxTime /\ minuteCount \in 0 .. MaxPerMinute
  /\ admitted \in Seq(Admissions) /\ faults \in 0 .. MaxFaults

TailInit ==
  /\ clock = 1 /\ run = 1 /\ tailStopped = FALSE
  /\ tailPhase = "session" /\ tailDelay = MinDelay /\ step = "read"
  /\ recent = [f \in Fingerprints |-> NoTime]
  /\ minuteStarted = 1 /\ minuteCount = 0
  /\ admitted = <<>> /\ faults = 0

Tick ==
  /\ clock < MaxTime
  /\ clock' = clock + 1
  /\ UNCHANGED <<run, tailLoop, filter, admitted, faults>>

-----------------------------------------------------------------------------
(* _admit *)

MinuteIsOver == clock - minuteStarted >= Minute
CountNow == IF MinuteIsOver THEN 0 ELSE minuteCount

Repeats(line) == recent[line] # NoTime /\ clock - recent[line] < Dedupe

\* Variant: too many entries, and all but the new one are forgotten.
PrunedAll(r, line) ==
  IF Cardinality({f \in Fingerprints : r[f] # NoTime}) > MaxRecent
    THEN [f \in Fingerprints |-> IF f = line THEN r[f] ELSE NoTime]
    ELSE r

\* Entries older than the window are dropped once there are too many.
Pruned(r, line) ==
  IF Cardinality({f \in Fingerprints : r[f] # NoTime}) > MaxRecent
    THEN [f \in Fingerprints |-> IF r[f] + Dedupe >= clock THEN r[f] ELSE NoTime]
    ELSE r

\* Variant: a dropped repeat renews its window.
DropAndRenew(line) ==
  /\ recent' = [recent EXCEPT ![line] = clock]
  /\ minuteCount' = CountNow
  /\ UNCHANGED <<step, admitted>>

Drop(line) == minuteCount' = CountNow /\ UNCHANGED <<step, recent, admitted>>

Accept(line) ==
  /\ recent' = Pruned([recent EXCEPT ![line] = clock], line)
  /\ minuteCount' = CountNow + 1
  /\ admitted' = Append(admitted,
       [run |-> run, line |-> line, ts |-> clock, event |-> NoTime])
  /\ step' = "record"

-----------------------------------------------------------------------------
(* The loop *)

Waiting == tailPhase' = "waiting" /\ step' = "read" /\ UNCHANGED tailStopped

\* A line arrives.
Read(line) ==
  /\ tailPhase = "session" /\ step = "read"
  /\ minuteStarted' = IF MinuteIsOver THEN clock ELSE minuteStarted
  /\ \/ (CountNow >= MaxPerMinute \/ Repeats(line)) /\ Drop(line)
     \/ ~(CountNow >= MaxPerMinute \/ Repeats(line)) /\ Accept(line)
  /\ UNCHANGED <<clock, run, tailStopped, tailPhase, tailDelay, faults>>

\* aadd_event.  A critical event goes on to an alert.
Record ==
  /\ tailPhase = "session" /\ step = "record"
  /\ admitted' = [admitted EXCEPT ![Len(admitted)].event = clock]
  /\ step' = IF admitted[Len(admitted)].line \in Critical THEN "alert" ELSE "read"
  /\ UNCHANGED <<clock, run, tailStopped, tailPhase, tailDelay, filter, faults>>

Alert ==
  /\ tailPhase = "session" /\ step = "alert"
  /\ step' = "read"
  /\ UNCHANGED <<clock, run, tailStopped, tailPhase, tailDelay, filter, admitted, faults>>

\* Variant: the exception ends the loop.
RaiseForGood ==
  /\ tailPhase = "session" /\ step # "read" /\ faults < MaxFaults
  /\ faults' = faults + 1
  /\ tailPhase' = "off" /\ step' = "read"
  /\ UNCHANGED <<clock, run, tailStopped, tailDelay, filter, admitted>>

\* The event, or the record of its alert, cannot be written: the session ends,
\* and the line is not tried again.
Raise ==
  /\ tailPhase = "session" /\ step # "read" /\ faults < MaxFaults
  /\ faults' = faults + 1
  /\ Waiting
  /\ UNCHANGED <<clock, run, tailDelay, filter, admitted>>

\* The stream ends, or breaks, or cannot be opened.
StreamEnds ==
  /\ tailPhase = "session" /\ step = "read"
  /\ Waiting /\ tailDelay' = MinDelay
  /\ UNCHANGED <<clock, run, filter, admitted, faults>>

StreamBreaks ==
  /\ tailPhase = "session" /\ step = "read"
  /\ Waiting
  /\ UNCHANGED <<clock, run, tailDelay, filter, admitted, faults>>

\* The wait is over; the new stream begins at some line.
Reopen ==
  /\ tailPhase = "waiting"
  /\ tailPhase' = "session"
  /\ tailDelay' = IF 2 * tailDelay <= MaxDelay THEN 2 * tailDelay ELSE MaxDelay
  /\ UNCHANGED <<clock, run, tailStopped, step, filter, admitted, faults>>

\* stop, and the task is cancelled.
StopTail ==
  /\ tailPhase # "off"
  /\ tailStopped' = TRUE /\ tailPhase' = "off" /\ step' = "read"
  /\ UNCHANGED <<clock, run, tailDelay, filter, admitted, faults>>

\* A new process; the old one may have been killed anywhere.
Start ==
  /\ run < MaxRuns
  /\ run' = run + 1 /\ tailStopped' = FALSE
  /\ tailPhase' = "session" /\ tailDelay' = MinDelay /\ step' = "read"
  /\ recent' = [f \in Fingerprints |-> NoTime]
  /\ minuteStarted' = clock /\ minuteCount' = 0
  /\ UNCHANGED <<clock, admitted, faults>>

TailNext ==
  \/ Tick \/ \E line \in Fingerprints : Read(line)
  \/ Record \/ Alert \/ Raise
  \/ StreamEnds \/ StreamBreaks \/ Reopen \/ StopTail \/ Start

TailSpec == TailInit /\ [][TailNext]_tail

\* wait_for returns when its time is up.
FairTailSpec == TailSpec /\ WF_tail(Reopen)

-----------------------------------------------------------------------------
(* Properties *)

\* Within a run no line is admitted twice in Dedupe, through reconnections that
\* replay it, failures, and the pruning of _recent.  host_events.py: "The
\* journal repeats itself; don't record the same line twice in this window."
NoRepeatInWindow ==
  /\ TailTypeOK
  /\ \A i, j \in 1 .. Len(admitted) :
       (i < j /\ admitted[i].run = admitted[j].run
              /\ admitted[i].line = admitted[j].line)
         => admitted[j].ts - admitted[i].ts >= Dedupe

\* A line that is read is dropped only on account of lines admitted in this run:
\* the same one less than Dedupe ago, or MaxPerMinute in the last minute.  A
\* line that keeps repeating is therefore recorded again and again, and silence
\* never prolongs itself.
DroppedForCause ==
  [][\A line \in Fingerprints :
       (Read(line) /\ admitted' = admitted) =>
         \/ \E i \in 1 .. Len(admitted) :
              /\ admitted[i].run = run /\ admitted[i].line = line
              /\ clock - admitted[i].ts < Dedupe
         \/ /\ Len(admitted) >= MaxPerMinute
            /\ \A i \in (Len(admitted) - MaxPerMinute + 1) .. Len(admitted) :
                 admitted[i].run = run /\ clock - admitted[i].ts < Minute]_tail

\* The loop, whatever fails in it, does what Backoff promises: "the tail must
\* never die" (host_events.py).  Only stop turns it off.
TailBackoff == INSTANCE Backoff WITH
  First <- MinDelay, Limit <- MaxDelay, phase <- tailPhase, delay <- tailDelay
TailBacksOff == TailBackoff!BackoffSpec /\ [](tailPhase = "off" => tailStopped)

=============================================================================
