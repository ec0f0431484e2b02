------------------------------ MODULE Notifier ------------------------------
(***************************************************************************)
(* Alerts (notify.py, Notifier.alert and _admit): each is recorded in the  *)
(* event log, then admitted or suppressed, then sent.  Every loop of the   *)
(* add-on calls alert, so several calls are under way at once; recording   *)
(* and sending are awaited, admission is not interrupted.                  *)
(*                                                                         *)
(* Whether an alert is admitted depends on its title, on whether its       *)
(* severity is "critical", and on the monotonic clock.                     *)
(*                                                                         *)
(* A definition commented "Variant" is a mistake the definition after it    *)
(* could contain; no specification uses it.                                 *)
(***************************************************************************)
EXTENDS Naturals, Sequences

CONSTANTS
  Tasks,         \* the loops that call alert
  Titles,
  Hour,          \* 3600 s
  Dedupe,        \* _DEDUPE_SECONDS
  MaxPerHour,    \* _MAX_PER_HOUR
  StorageFails,  \* may add_event raise?
  MaxTime,       \* bound: the clock stops here
  MaxAlerts,     \* bound: calls of alert
  MaxRuns        \* bound: starts of the add-on

ASSUME NotifierAssumption ==
  /\ Hour \in Nat \ {0} /\ Dedupe \in Nat \ {0} /\ MaxPerHour \in Nat \ {0}
  /\ StorageFails \in BOOLEAN
  /\ MaxTime \in Nat /\ MaxAlerts \in Nat /\ MaxRuns \in Nat

Alerts == [title : Titles, critical : BOOLEAN]
NoTime == 0

VARIABLES
  clock,        \* time.monotonic()
  run,          \* starts of the add-on
  pc,           \* of each task: "idle", "record", "admit" or "send"
  alert,        \* the arguments of each task's call
  calls,        \* calls of alert so far
  recent,       \* _recent; NoTime for a title not in it
  hourStarted,  \* _hour_started
  hourCount,    \* _hour_count
  suppressed,   \* _suppressed
  admitted      \* history: the alerts admitted, with their time and hour

limits == <<recent, hourStarted, hourCount, suppressed>>
vars == <<clock, run, pc, alert, calls, limits, admitted>>

Admissions == [run : Nat, title : Titles, critical : BOOLEAN, ts : Nat, hour : Nat]

TypeOK ==
  /\ clock \in Nat \ {0} /\ run \in Nat /\ calls \in Nat
  /\ pc \in [Tasks -> {"idle", "record", "admit", "send"}]
  /\ alert \in [Tasks -> Alerts]
  /\ recent \in [Titles -> Nat]
  /\ hourStarted \in Nat /\ hourCount \in Nat /\ suppressed \in Nat
  /\ admitted \in Seq(Admissions)

Init ==
  /\ clock = 1 /\ run = 1 /\ calls = 0
  /\ pc = [t \in Tasks |-> "idle"] /\ alert \in [Tasks -> Alerts]
  /\ recent = [title \in Titles |-> NoTime]
  /\ hourStarted = 1 /\ hourCount = 0 /\ suppressed = 0
  /\ admitted = <<>>

Tick ==
  /\ clock < MaxTime
  /\ clock' = clock + 1
  /\ UNCHANGED <<run, pc, alert, calls, limits, admitted>>

\* A loop calls alert.
Call(t) ==
  /\ pc[t] = "idle" /\ calls < MaxAlerts
  /\ calls' = calls + 1
  /\ alert' \in {[alert EXCEPT ![t] = a] : a \in Alerts}
  /\ pc' = [pc EXCEPT ![t] = "record"]
  /\ UNCHANGED <<clock, run, limits, admitted>>

\* add_event, in a worker thread; without a channel to send to, alert returns.
Record(t) ==
  /\ pc[t] = "record"
  /\ \E enabled \in BOOLEAN :
       pc' = [pc EXCEPT ![t] = IF enabled THEN "admit" ELSE "idle"]
  /\ UNCHANGED <<clock, run, alert, calls, limits, admitted>>

\* add_event raises, and with it alert.
RecordFails(t) ==
  /\ StorageFails /\ pc[t] = "record"
  /\ pc' = [pc EXCEPT ![t] = "idle"]
  /\ UNCHANGED <<clock, run, alert, calls, limits, admitted>>

\* _admit: the hour rolls over, if it is time.
HourIsOver == clock - hourStarted >= Hour
HourNow == IF HourIsOver THEN clock ELSE hourStarted

CountNow == IF HourIsOver THEN 0 ELSE hourCount
SuppressedNow == IF HourIsOver THEN 0 ELSE suppressed

\* Variants: critical alerts only; critical alerts, too.
RepeatsCritical(a) == a.critical /\ recent[a.title] # NoTime
                      /\ clock - recent[a.title] < Dedupe

RepeatsAny(a) == recent[a.title] # NoTime /\ clock - recent[a.title] < Dedupe

\* The dedupe window, which critical alerts bypass.
Repeats(a) == ~a.critical /\ recent[a.title] # NoTime
              /\ clock - recent[a.title] < Dedupe

\* Variant: one more than the cap.
CapIsExceeded == CountNow > MaxPerHour

CapIsReached == CountNow >= MaxPerHour

\* Variants: a suppressed alert is taken off the count; it renews the dedupe
\* window.
SuppressRefunds(t) ==
  /\ pc' = [pc EXCEPT ![t] = "idle"]
  /\ suppressed' = SuppressedNow + 1 /\ hourCount' = CountNow - 1
  /\ UNCHANGED <<recent, admitted>>

SuppressAndRenew(t) ==
  /\ pc' = [pc EXCEPT ![t] = "idle"]
  /\ suppressed' = SuppressedNow + 1 /\ hourCount' = CountNow
  /\ recent' = [recent EXCEPT ![alert[t].title] = clock]
  /\ UNCHANGED admitted

Suppress(t) ==
  /\ pc' = [pc EXCEPT ![t] = "idle"]
  /\ suppressed' = SuppressedNow + 1 /\ hourCount' = CountNow
  /\ UNCHANGED <<recent, admitted>>

Accept(t) ==
  /\ pc' = [pc EXCEPT ![t] = "send"]
  /\ suppressed' = SuppressedNow /\ hourCount' = CountNow + 1
  /\ recent' = [recent EXCEPT ![alert[t].title] = clock]
  /\ admitted' = Append(admitted,
       [run |-> run, title |-> alert[t].title, critical |-> alert[t].critical,
        ts |-> clock, hour |-> HourNow])

Admit(t) ==
  /\ pc[t] = "admit"
  /\ hourStarted' = HourNow
  /\ \/ (Repeats(alert[t]) \/ CapIsReached) /\ Suppress(t)
     \/ ~(Repeats(alert[t]) \/ CapIsReached) /\ Accept(t)
  /\ UNCHANGED <<clock, run, alert, calls>>

\* The senders: they time out, and swallow what goes wrong.
Send(t) ==
  /\ pc[t] = "send"
  /\ pc' = [pc EXCEPT ![t] = "idle"]
  /\ UNCHANGED <<clock, run, alert, calls, limits, admitted>>

\* The add-on is restarted: the event log survives, the limits do not.
Restart ==
  /\ run < MaxRuns
  /\ run' = run + 1
  /\ pc' = [t \in Tasks |-> "idle"]
  /\ recent' = [title \in Titles |-> NoTime]
  /\ hourStarted' = clock /\ hourCount' = 0 /\ suppressed' = 0
  /\ UNCHANGED <<clock, alert, calls, admitted>>

Next ==
  \/ Tick \/ Restart
  \/ \E t \in Tasks :
       Call(t) \/ Record(t) \/ RecordFails(t) \/ Admit(t) \/ Send(t)

Spec == Init /\ [][Next]_vars

-----------------------------------------------------------------------------
(* Properties *)

Later(i, j) == i < j /\ admitted[i].run = admitted[j].run

\* An alert that is not critical is not admitted within Dedupe of another of its
\* title.
RepeatsAreApart ==
  \A i, j \in 1..Len(admitted) :
    (Later(i, j) /\ admitted[i].title = admitted[j].title /\ ~admitted[j].critical)
      => admitted[j].ts - admitted[i].ts >= Dedupe

\* Of 2 * MaxPerHour + 1 alerts admitted in a row by one run, the last comes more
\* than an hour after the first: the counter is reset by the hour, so the cap
\* holds over any hour at twice its value.
CapHolds ==
  \A i \in 1..Len(admitted) :
    LET j == i + 2 * MaxPerHour
    IN  (j <= Len(admitted) /\ Later(i, j)) =>
          admitted[j].ts > admitted[i].ts + Hour

\* An alert is suppressed only on account of alerts that were admitted: one of
\* its title within Dedupe, or MaxPerHour in this hour.  Silence does not
\* prolong itself.
SuppressedForCause ==
  [][\A t \in Tasks :
       (pc[t] = "admit" /\ pc'[t] = "idle" /\ run' = run) =>
         \/ \E i \in 1..Len(admitted) :
              /\ admitted[i].run = run /\ admitted[i].title = alert[t].title
              /\ clock - admitted[i].ts < Dedupe
         \/ /\ Len(admitted) >= MaxPerHour
            /\ \A i \in (Len(admitted) - MaxPerHour + 1)..Len(admitted) :
                 admitted[i].run = run /\ clock - admitted[i].ts < Hour]_vars

=============================================================================
