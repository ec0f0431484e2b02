------------------------------ MODULE Alerting ------------------------------
(***************************************************************************)
(* The incident detector and the other loops at the notifier: what does    *)
(* the reader of the alerts believe about Core?  The detector is reduced   *)
(* to what IncidentLog leaves of it, incidents that open and close in      *)
(* turn, and its two alerts: "Home Assistant Core is not responding", which *)
(* is critical, and "Home Assistant Core recovered", which is not.         *)
(***************************************************************************)
EXTENDS Notifier, FiniteSets

CONSTANTS
  Detector,  \* the loop of the detector, one of Tasks
  Down, Up   \* its titles

ASSUME AlertingAssumption ==
  Detector \in Tasks /\ {Down, Up} \subseteq Titles /\ Down # Up

Fates == {"none", "suppressed", "sent", "missed"}

VARIABLES
  open,     \* the detector has an incident open
  word,     \* the last of the detector's alerts that reached the reader: a title
  decided,  \* history: when _admit decided about the detector's last alert
  fate      \* history: what has become of that alert so far, one of Fates

core == <<open, word, decided, fate>>

\* A reader who was told nothing takes Core to be up.
AlertingInit ==
  /\ Init
  /\ \A t \in Tasks : alert[t] = [title |-> Up, critical |-> FALSE]
  /\ open = FALSE /\ word = Up /\ decided = NoTime /\ fate = "none"

\* The incident opens, or closes, and the detector awaits its alert.
Turn ==
  /\ Call(Detector)
  /\ alert'[Detector] = [title |-> IF open THEN Up ELSE Down, critical |-> ~open]
  /\ open' = ~open /\ decided' = NoTime /\ fate' = "none"
  /\ UNCHANGED word

OtherCall(t) ==
  /\ Call(t) /\ t # Detector
  /\ alert'[t].title \notin {Down, Up}
  /\ UNCHANGED core

Decide(t) ==
  /\ Admit(t)
  /\ \/ t # Detector /\ UNCHANGED <<decided, fate>>
     \/ /\ t = Detector /\ decided' = clock
        /\ fate' = IF pc'[t] = "send" THEN "sent" ELSE "suppressed"
  /\ UNCHANGED <<open, word>>

\* _send_telegram and _send_webhook: a delivery may time out, fail or be rejected.
\* That is logged, and not tried again.
Deliver(t) ==
  /\ Send(t)
  /\ \/ t # Detector /\ UNCHANGED <<word, fate>>
     \/ t = Detector /\ word' = alert[t].title /\ UNCHANGED fate
     \/ t = Detector /\ fate' = "missed" /\ UNCHANGED word
  /\ UNCHANGED <<open, decided>>

\* The new detector knows of no incident; what was said before is history.
NewRun ==
  /\ Restart
  /\ open' = FALSE /\ word' = Up /\ decided' = NoTime /\ fate' = "none"

AlertingNext ==
  \/ Turn \/ NewRun
  \/ Tick /\ UNCHANGED core
  \/ \E t \in Tasks :
       \/ OtherCall(t) \/ Decide(t) \/ Deliver(t)
       \/ (Record(t) \/ RecordFails(t)) /\ UNCHANGED core

AlertingSpec == AlertingInit /\ [][AlertingNext]_<<vars, core>>

-----------------------------------------------------------------------------
(* Properties *)

\* Alert i was admitted less than span before the decision about the detector's.
Recent(i, span) ==
  /\ admitted[i].run = run
  /\ admitted[i].ts <= decided /\ decided - admitted[i].ts < span

\* When the detector has nothing under way and its last alert came as far as
\* _admit, the reader's last word about Core is true, with three exceptions: that
\* alert was admitted and reached nobody; it was suppressed as the hour's alerts
\* were used up; or it was, as Core has recovered again within Dedupe of a recovery
\* whose alert was admitted.  What other loops have to say, a failing storage, and
\* an earlier delivery that failed leave the reader with nothing false.  DOCS.md:
\* "Alerts fire for: Core unreachable, Core recovered".
LastWordIsTrue ==
  (pc[Detector] = "idle" /\ decided # NoTime) =>
    \/ word = IF open THEN Down ELSE Up
    \/ fate = "missed"
    \/ /\ fate = "suppressed"
       /\ \/ Cardinality({i \in 1 .. Len(admitted) : Recent(i, Hour)}) >= MaxPerHour
          \/ ~open /\ \E i \in 1 .. Len(admitted) :
                        admitted[i].title = Up /\ Recent(i, Dedupe)

=============================================================================
