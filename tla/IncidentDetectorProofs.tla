----------------------- MODULE IncidentDetectorProofs -----------------------
(***************************************************************************)
(* Proofs about IncidentDetector, for every threshold, delay, bound and    *)
(* set of fault points.                                                    *)
(*                                                                         *)
(* OwnInv says which row the detector holds at each step; with it EventInv *)
(* says which events of the log are answered, AlertInv counts rows, alerts *)
(* and the alerts that exceptions have cost, and TimeInv orders what the   *)
(* detector, the table and the history know of time: the first failure is  *)
(* later than Core's last answer, or it is the start of the last row and   *)
(* nobody was told that it was over.                                       *)
(***************************************************************************)
EXTENDS IncidentDetector, FiniteSetTheorems, TLAPS

\* The steps that hold an incident id.
Holding == {"openEvent", "freeze", "alertDown", "closeRow", "closeEvent"}

OwnInv ==
  /\ incidentId # NoId => /\ incidentId = Len(incidents)
                          /\ incidents[incidentId].run = run
  /\ pc \in Holding => incidentId # NoId
  /\ pc \in {"openRow", "alertUp"} => incidentId = NoId
  /\ pc = "alertUp" => /\ Len(incidents) # 0
                       /\ incidents[Len(incidents)].run = run
  /\ \A l \in lost : l.row \in 1..Len(incidents)
  /\ pc = "openRow" => firstFailure # NoTime
  /\ pc \in {"closeRow", "closeEvent", "alertUp"} => probe.ts # 0
  /\ pc = "observe" => probe.ts # 0
  /\ pc = "closeEvent" => incidents[incidentId].ended # NoTime
  /\ \A i \in 1..Len(incidents) : incidents[i].run <= run
  /\ OpenRowsOwned

\* Where the first failure comes from, once an incident is let go of.
StartOfLast ==
  /\ Len(incidents) # 0 /\ incidents[Len(incidents)].run = run
  /\ incidents[Len(incidents)].started = firstFailure

TimeInv ==
  /\ clock <= MaxTime
  /\ probe.ts <= clock
  /\ pc = "probe" => probe.ts < clock
  /\ lastUp <= probe.ts /\ firstFailure <= probe.ts
  /\ pc = "observe" => lastUp < probe.ts
  /\ pc = "openRow" => firstFailure + DownAfter <= probe.ts
  /\ (incidentId # NoId \/ pc = "alertUp") => StartOfLast
  /\ (incidentId = NoId /\ firstFailure # NoTime /\ pc \notin {"alertUp", "stopped"})
       => lastUp < firstFailure \/ (StartOfLast /\ Untold(Len(incidents)))
  /\ pc = "closeRow" => lastUp = probe.ts
  /\ \A i \in 1..Len(incidents) :
       /\ incidents[i].started # NoTime
       /\ incidents[i].started <= probe.ts
       /\ pc \in {"observe", "closeRow"} => incidents[i].started < probe.ts
  /\ \A i \in RowsOf(run) :
       /\ incidents[i].ended <= lastUp
       /\ pc = "closeRow" => incidents[i].ended < probe.ts
  /\ IncidentsDisjoint

-----------------------------------------------------------------------------
(* Types *)

\* The initial state has the right types.
LEMMA TypeInit == Init => TypeOK
<1> SUFFICES ASSUME Init PROVE TypeOK
  OBVIOUS
<1>1. incidents \in Seq(Rows) /\ events \in Seq(Events)
  BY DEF Init
<1>2. pc \in Steps /\ probe \in [ts : Nat, result : Results]
  BY DEF Init, Steps, Results
<1>3. warnedSlow \in BOOLEAN
  BY DEF Init
<1> QED
  BY <1>1, <1>2, <1>3 DEF Init, TypeOK, NoTime, NoId

\* Adding an event keeps the event table well typed.
LEMMA RecordType ==
  ASSUME TypeOK, NEW kind \in Kinds, Record(kind) PROVE events' \in Seq(Events)
<1>1. [run |-> run, kind |-> kind] \in Events
  BY DEF TypeOK, Events
<1> QED
  BY <1>1 DEF Record, TypeOK

\* What the type of the incident table says of its rows.
LEMMA RowFacts ==
  ASSUME TypeOK
  PROVE  /\ Len(incidents) \in Nat
         /\ \A i \in 1..Len(incidents) :
              /\ incidents[i].run \in Nat
              /\ incidents[i].started \in Nat
              /\ incidents[i].ended \in Nat
<1>1. incidents \in Seq(Rows)
  BY DEF TypeOK
<1>2. \A i \in 1..Len(incidents) : incidents[i] \in Rows
  BY <1>1
<1>3. \A r \in Rows : r.run \in Nat /\ r.started \in Nat /\ r.ended \in Nat
  BY DEF Rows
<1> QED
  BY <1>1, <1>2, <1>3

\* Writing the row held keeps the table well typed and leaves every other row,
\* and the owner and the start of every row, alone.
LEMMA RowUpdate ==
  ASSUME TypeOK, NEW k \in 1..Len(incidents), NEW b \in BOOLEAN, NEW t \in Nat,
         NEW row, row \in {[incidents[k] EXCEPT !.bundle = b],
                           [incidents[k] EXCEPT !.ended = t]},
         incidents' = [incidents EXCEPT ![k] = row]
  PROVE  /\ incidents' \in Seq(Rows) /\ Len(incidents') = Len(incidents)
         /\ incidents'[k] = row
         /\ \A i \in 1..Len(incidents) :
              /\ incidents'[i].run = incidents[i].run
              /\ incidents'[i].started = incidents[i].started
              /\ i # k => incidents'[i] = incidents[i]
<1>1. incidents[k] \in Rows
  BY DEF TypeOK
<1>2. row \in Rows /\ row.run = incidents[k].run /\ row.started = incidents[k].started
  BY <1>1 DEF Rows
<1> QED
  BY <1>2 DEF TypeOK

\* The row an incident id names.
LEMMA HeldRow ==
  ASSUME TypeOK, OwnInv, incidentId # NoId
  PROVE  incidentId \in 1..Len(incidents)
  BY RowFacts DEF OwnInv, TypeOK, NoId

\* What _freeze does to the table.
LEMMA FreezeRow ==
  ASSUME TypeOK, OwnInv, Freeze
  PROVE  /\ incidents' \in Seq(Rows) /\ Len(incidents') = Len(incidents)
         /\ incidents'[incidentId].ended = incidents[incidentId].ended
         /\ \A i \in 1..Len(incidents) :
              /\ incidents'[i].run = incidents[i].run
              /\ incidents'[i].started = incidents[i].started
              /\ i # incidentId => incidents'[i] = incidents[i]
<1>1. incidentId \in 1..Len(incidents)
  BY HeldRow DEF Freeze, OwnInv, Holding
<1>2. PICK b \in BOOLEAN :
        incidents' = [incidents EXCEPT ![incidentId].bundle = b]
  BY DEF Freeze
<1> DEFINE row == [incidents[incidentId] EXCEPT !.bundle = b]
<1>3. incidents' = [incidents EXCEPT ![incidentId] = row]
  BY <1>2
<1>4. incidents[incidentId] \in Rows
  BY <1>1 DEF TypeOK
<1>5. row.ended = incidents[incidentId].ended
  BY <1>4 DEF Rows
<1>6. 0 \in Nat /\ row \in {[incidents[incidentId] EXCEPT !.bundle = b],
                          [incidents[incidentId] EXCEPT !.ended = 0]}
  OBVIOUS
<1> HIDE DEF row
<1> QED
  BY <1>1, <1>3, <1>5, <1>6, RowUpdate

\* What close_incident does to the table.
LEMMA ClosedRow ==
  ASSUME TypeOK, OwnInv, CloseRow
  PROVE  /\ incidents' \in Seq(Rows) /\ Len(incidents') = Len(incidents)
         /\ incidents'[incidentId].ended = probe.ts
         /\ \A i \in 1..Len(incidents) :
              /\ incidents'[i].run = incidents[i].run
              /\ incidents'[i].started = incidents[i].started
              /\ i # incidentId => incidents'[i] = incidents[i]
<1>1. incidentId \in 1..Len(incidents)
  BY HeldRow DEF CloseRow, OwnInv, Holding
<1>2. probe.ts \in Nat
  BY DEF TypeOK
<1> DEFINE row == [incidents[incidentId] EXCEPT !.ended = probe.ts]
<1>3. incidents' = [incidents EXCEPT ![incidentId] = row]
  BY DEF CloseRow
<1>4. incidents[incidentId] \in Rows
  BY <1>1 DEF TypeOK
<1>5. row.ended = probe.ts
  BY <1>4 DEF Rows
<1>6. TRUE \in BOOLEAN /\ row \in {[incidents[incidentId] EXCEPT !.bundle = TRUE],
                                [incidents[incidentId] EXCEPT !.ended = probe.ts]}
  OBVIOUS
<1> HIDE DEF row
<1> QED
  BY <1>1, <1>2, <1>3, <1>5, <1>6, RowUpdate

\* What open_incident does to the table.
LEMMA OpenedRow ==
  ASSUME TypeOK, OpenRow
  PROVE  /\ incidents' \in Seq(Rows) /\ Len(incidents') = Len(incidents) + 1
         /\ \A i \in 1..Len(incidents) : incidents'[i] = incidents[i]
         /\ incidents'[Len(incidents) + 1].run = run
         /\ incidents'[Len(incidents) + 1].started = firstFailure
         /\ incidents'[Len(incidents) + 1].ended = NoTime
<1> DEFINE row == [run |-> run, started |-> firstFailure,
                   ended |-> NoTime, bundle |-> FALSE]
<1>1. row \in Rows /\ row.run = run /\ row.started = firstFailure /\ row.ended = NoTime
  BY DEF TypeOK, Rows, NoTime
<1>2. incidents' = Append(incidents, row)
  BY DEF OpenRow
<1> HIDE DEF row
<1> QED
  BY <1>1, <1>2 DEF TypeOK

\* Every step keeps the types.
LEMMA TypeStep == TypeOK /\ OwnInv /\ [Next]_vars => TypeOK'
<1> SUFFICES ASSUME TypeOK, OwnInv, [Next]_vars PROVE TypeOK'
  OBVIOUS
<1> USE DetectorAssumption DEF TypeOK, Steps, Results, NoTime, NoId, detector, tables, history
<1>1. CASE ProbeCore
  BY <1>1 DEF ProbeCore
<1>2. CASE OnReachable
  BY <1>2 DEF OnReachable
<1>3. CASE OnUnreachable
  BY <1>3 DEF OnUnreachable, ShouldOpen
<1>4. CASE OpenRow
  BY <1>4, OpenedRow, RowFacts DEF OpenRow
<1>5. CASE OpenEvent
  BY <1>5, RecordType DEF OpenEvent, Kinds
<1>6. CASE Freeze
  BY <1>6, FreezeRow DEF Freeze
<1>7. CASE AlertDown
  BY <1>7, RecordType DEF AlertDown, Kinds
<1>8. CASE CloseRow
  BY <1>8, ClosedRow DEF CloseRow
<1>9. CASE CloseEvent
  BY <1>9, RecordType DEF CloseEvent, Kinds
<1>10. CASE AlertUp
  BY <1>10, RecordType DEF AlertUp, Kinds
<1>11. CASE CheckLatency
  <2>1. /\ slowStreak' = 0 \/ slowStreak' = slowStreak + 1
        /\ pc' \in {"sample", "slowEvent"}
    BY <1>11 DEF CheckLatency, StreakEnds
  <2>2. warnedSlow' \in BOOLEAN
    BY <1>11, Zenon DEF CheckLatency, StreakEnds
  <2> QED
    BY <1>11, <2>1, <2>2 DEF CheckLatency, StreakEnds
<1>12. CASE SlowEvent
  BY <1>12, RecordType DEF SlowEvent, Kinds
<1>13. CASE AlertSlow
  BY <1>13, RecordType DEF AlertSlow, Kinds
<1>14. CASE WriteSample
  BY <1>14 DEF WriteSample
<1>15. CASE Sleep
  BY <1>15 DEF Sleep
<1>16. CASE Supervise
  BY <1>16 DEF Supervise
<1>17. CASE StorageRaises
  <2>1. AlertsLost \subseteq Losses
    BY RowFacts DEF AlertsLost, Losses
  <2> QED
    BY <1>17, <2>1 DEF StorageRaises
<1>18. CASE Stop
  BY <1>18 DEF Stop
<1>19. CASE Start
  <2>1. clock' = clock + 1 /\ run' = run + 1 /\ pc' = "probe"
    BY <1>19 DEF Start
  <2>2. warnedSlow' \in BOOLEAN
    BY <1>19, Zenon DEF Start
  <2>3. /\ firstFailure' = 0 /\ incidentId' = 0 /\ incidentStarted' = 0
        /\ slowStreak' = 0 /\ lastUp' = 0
        /\ UNCHANGED <<faults, probe, incidents, events, lost>>
    BY <1>19 DEF Start
  <2> QED
    BY <2>1, <2>2, <2>3
<1>20. CASE UNCHANGED vars
  BY <1>20 DEF vars
<1> QED
  BY <1>1, <1>2, <1>3, <1>4, <1>5, <1>6, <1>7, <1>8, <1>9, <1>10, <1>11, <1>12, <1>13, <1>14, <1>15, <1>16, <1>17, <1>18, <1>19, <1>20 DEF Next, LoopStep

-----------------------------------------------------------------------------
(* The detector and the row it holds *)

\* The initial state holds no incident.
LEMMA OwnInit == Init => OwnInv
  BY DEF Init, OwnInv, OpenRowsOwned, RowsOf, Holding, NoTime, NoId

\* Every step keeps the detector on the last row of its run.
LEMMA OwnStep == TypeOK /\ OwnInv /\ [Next]_vars => OwnInv'
<1> SUFFICES ASSUME TypeOK, OwnInv, [Next]_vars PROVE OwnInv'
  OBVIOUS
<1>0. /\ Len(incidents) \in Nat /\ run \in Nat /\ incidentId \in Nat
      /\ probe.ts \in Nat /\ clock \in Nat \ {0}
      /\ \A i \in 1..Len(incidents) :
           incidents[i].run \in Nat /\ incidents[i].ended \in Nat
  BY RowFacts DEF TypeOK
<1> USE DEF OwnInv, OpenRowsOwned, RowsOf, Holding, NoTime, NoId,
            detector, tables, history
<1>1. CASE ProbeCore
  BY <1>0, <1>1 DEF ProbeCore
<1>2. CASE OnReachable
  BY <1>0, <1>2 DEF OnReachable
<1>3. CASE OnUnreachable
  BY <1>0, <1>3 DEF OnUnreachable, ShouldOpen
<1>4. CASE OpenRow
  BY <1>0, <1>4, OpenedRow DEF OpenRow
<1>5. CASE OpenEvent
  BY <1>0, <1>5 DEF OpenEvent
<1>6. CASE Freeze
  BY <1>0, <1>6, FreezeRow, HeldRow DEF Freeze
<1>7. CASE AlertDown
  BY <1>0, <1>7 DEF AlertDown
<1>8. CASE CloseRow
  BY <1>0, <1>8, ClosedRow, HeldRow DEF CloseRow
<1>9. CASE CloseEvent
  BY <1>0, <1>9 DEF CloseEvent
<1>10. CASE AlertUp
  BY <1>0, <1>10 DEF AlertUp
<1>11. CASE CheckLatency
  BY <1>0, <1>11 DEF CheckLatency, StreakEnds
<1>12. CASE SlowEvent
  BY <1>0, <1>12 DEF SlowEvent
<1>13. CASE AlertSlow
  BY <1>0, <1>13 DEF AlertSlow
<1>14. CASE WriteSample
  BY <1>0, <1>14 DEF WriteSample
<1>15. CASE Sleep
  BY <1>0, <1>15 DEF Sleep
<1>16. CASE Supervise
  BY <1>0, <1>16 DEF Supervise
<1>17. CASE StorageRaises
  <2>1. /\ pc' = "backoff" /\ lost' = lost \cup AlertsLost
        /\ UNCHANGED <<incidents, incidentId, run>>
    BY <1>17 DEF StorageRaises
  <2>2. \A l \in AlertsLost : l.row \in 1..Len(incidents)
    BY <1>0, <1>17, HeldRow DEF AlertsLost
  <2> QED
    BY <1>0, <2>1, <2>2
<1>18. CASE Stop
  BY <1>0, <1>18 DEF Stop
<1>19. CASE Start
  <2>1. \A i \in 1..Len(incidents') : incidents'[i].run < run'
    BY <1>0, <1>19 DEF Start
  <2> QED
    BY <1>0, <1>19, <2>1 DEF Start
<1>20. CASE UNCHANGED vars
  BY <1>20 DEF vars
<1> QED
  BY <1>1, <1>2, <1>3, <1>4, <1>5, <1>6, <1>7, <1>8, <1>9, <1>10, <1>11, <1>12, <1>13, <1>14, <1>15, <1>16, <1>17, <1>18, <1>19, <1>20 DEF Next, LoopStep

\* Type correctness, whatever the storage refuses and whenever the process stops.
THEOREM TypeCorrect == Spec => []TypeOK
<1>1. Init => TypeOK /\ OwnInv
  BY TypeInit, OwnInit
<1>2. TypeOK /\ OwnInv /\ [Next]_vars => TypeOK' /\ OwnInv'
  BY TypeStep, OwnStep
<1> QED
  BY <1>1, <1>2, PTL DEF Spec

\* No incident row of the running process is open behind the detector's back.
THEOREM OpenRowsAreOwned == Spec => []OpenRowsOwned
<1>1. Init => TypeOK /\ OwnInv
  BY TypeInit, OwnInit
<1>2. TypeOK /\ OwnInv /\ [Next]_vars => TypeOK' /\ OwnInv'
  BY TypeStep, OwnStep
<1>3. OwnInv => OpenRowsOwned
  BY DEF OwnInv
<1> QED
  BY <1>1, <1>2, <1>3, PTL DEF Spec

-----------------------------------------------------------------------------
(* The event log *)

\* Every core_down event of this run has been followed by a core_up event.
Answered ==
  \A k \in EventsOf(run, "core_down") : \E m \in EventsOf(run, "core_up") : k < m

\* It has, whenever the detector holds no incident or is about to tell of a new
\* one.  An incident whose core_down could not be written is closed all the same.
EventInv ==
  /\ \A k \in 1..Len(events) : events[k].run <= run
  /\ incidentId = NoId \/ pc = "openEvent" => Answered
  /\ EventsAlternate

\* What the type of the event table says of its rows.
LEMMA EventFacts ==
  ASSUME TypeOK
  PROVE  /\ Len(events) \in Nat /\ run \in Nat
         /\ \A k \in 1..Len(events) : events[k].run \in Nat
<1>1. \A k \in 1..Len(events) : events[k] \in Events
  BY DEF TypeOK
<1>2. \A e \in Events : e.run \in Nat
  BY DEF Events
<1> QED
  BY <1>1, <1>2 DEF TypeOK

\* What Record does to the table.
LEMMA RecordedEvent ==
  ASSUME TypeOK, NEW kind \in Kinds, Record(kind)
  PROVE  /\ Len(events') = Len(events) + 1
         /\ \A k \in 1..Len(events) : events'[k] = events[k]
         /\ events'[Len(events) + 1].run = run
         /\ events'[Len(events) + 1].kind = kind
<1> DEFINE event == [run |-> run, kind |-> kind]
<1>1. event \in Events /\ event.run = run /\ event.kind = kind
  BY DEF TypeOK, Events
<1>2. events' = Append(events, event)
  BY DEF Record
<1> HIDE DEF event
<1> QED
  BY <1>1, <1>2 DEF TypeOK

\* An event that is neither core_down nor core_up changes nothing; a core_up
\* answers all; a core_down may follow if all are answered.
LEMMA RecordKeepsOrder ==
  ASSUME TypeOK, EventInv, NEW kind \in Kinds, Record(kind), run' = run,
         kind = "core_down" => Answered
  PROVE  /\ \A k \in 1..Len(events') : events'[k].run <= run'
         /\ EventsAlternate'
         /\ kind = "core_up" \/ (kind # "core_down" /\ Answered) => Answered'
<1> DEFINE n == Len(events) + 1
<1>1. /\ n \in Nat /\ n > Len(events) /\ Len(events) \in Nat /\ Len(events') = n
      /\ \A k \in 1..Len(events) : events'[k] = events[k]
      /\ events'[n].run = run /\ events'[n].kind = kind
  BY RecordedEvent, EventFacts
<1>2. \A k \in 1..Len(events') : k \in 1..Len(events) \/ k = n
  BY <1>1
<1>3. n \in 1..Len(events') /\ \A k \in 1..Len(events) : k \in 1..Len(events') /\ k < n
  BY <1>1
<1> HIDE DEF n
<1>4. \A r \in 1..run, x \in {"core_down", "core_up"} :
        EventsOf(r, x)' = EventsOf(r, x) \cup
                            (IF r = run /\ x = kind THEN {n} ELSE {})
  BY <1>1, <1>2, <1>3 DEF EventsOf
<1>5. \A k \in 1..Len(events') : events'[k].run <= run'
  <2>1. run <= run
    BY EventFacts
  <2> QED
    BY <1>1, <1>2, <2>1 DEF EventInv
<1>6. EventsAlternate'
  <2> SUFFICES ASSUME NEW r \in 1..run, NEW j \in EventsOf(r, "core_down")',
                      NEW k \in EventsOf(r, "core_down")', j < k
               PROVE  \E m \in EventsOf(r, "core_up")' : j < m /\ m < k
    BY DEF EventsAlternate
  <2>1. j \in EventsOf(r, "core_down")
    BY <1>1, <1>3, <1>4 DEF EventsOf
  <2>2. CASE k \in EventsOf(r, "core_down")
    BY <1>4, <2>1, <2>2 DEF EventInv, EventsAlternate
  <2>3. CASE r = run /\ kind = "core_down" /\ k = n
    <3>1. PICK m \in EventsOf(run, "core_up") : j < m
      BY <2>1, <2>3 DEF Answered
    <3> QED
      BY <1>3, <1>4, <2>3, <3>1 DEF EventsOf
  <2> QED
    BY <1>4, <2>2, <2>3
<1>7. ASSUME kind = "core_up" \/ (kind # "core_down" /\ Answered) PROVE Answered'
  <2>0. run \in 1..run \/ run = 0
    BY EventFacts
  <2> SUFFICES ASSUME NEW k \in EventsOf(run, "core_down")'
               PROVE  \E m \in EventsOf(run, "core_up")' : k < m
    BY DEF Answered
  <2>1. kind # "core_down"
    BY <1>7
  <2>2. k \in 1..Len(events) /\ k \in EventsOf(run, "core_down")
    BY <1>1, <1>2, <2>1 DEF EventsOf
  <2>3. CASE kind = "core_up"
    <3>1. n \in EventsOf(run, "core_up")'
      BY <1>1, <1>3, <2>3 DEF EventsOf
    <3> QED
      BY <1>3, <2>2, <3>1
  <2>4. CASE kind # "core_up"
    <3>1. PICK m \in EventsOf(run, "core_up") : k < m
      BY <1>7, <2>2, <2>4 DEF Answered
    <3>2. m \in EventsOf(run, "core_up")'
      BY <1>1, <1>3, <3>1 DEF EventsOf
    <3> QED
      BY <3>1, <3>2
  <2> QED
    BY <2>3, <2>4
<1> QED
  BY <1>5, <1>6, <1>7

\* The initial log is empty.
LEMMA EventInit == Init => EventInv
  BY DEF Init, EventInv, Answered, EventsAlternate, EventsOf

\* Every step keeps the order of the events.
LEMMA EventStep ==
  ASSUME TypeOK, OwnInv, EventInv, [Next]_vars
  PROVE  EventInv'
<1>1. ASSUME UNCHANGED <<events, run>>,
             incidentId' = NoId \/ pc' = "openEvent" => incidentId = NoId \/ pc = "openEvent"
      PROVE  EventInv'
  BY <1>1 DEF EventInv, Answered, EventsAlternate, EventsOf
<1>2. ASSUME NEW kind \in Kinds \ {"core_down", "core_up"}, Record(kind),
             UNCHANGED <<run, incidentId>>, pc \in {"alertDown", "alertUp", "slowEvent", "alertSlow"},
             pc' # "openEvent"
      PROVE  EventInv'
  BY <1>2, RecordKeepsOrder DEF EventInv
<1>3. CASE OpenRow
  BY <1>1, <1>3 DEF OpenRow, OwnInv
<1>4. CASE OpenEvent
  <2>1. Answered /\ incidentId' = incidentId /\ incidentId # NoId /\ pc' = "freeze"
    BY <1>4 DEF OpenEvent, EventInv, OwnInv, Holding, detector
  <2>2. Record("core_down") /\ run' = run /\ "core_down" \in Kinds
    BY <1>4 DEF OpenEvent, Kinds
  <2> QED
    BY <2>1, <2>2, RecordKeepsOrder DEF EventInv
<1>5. CASE CloseEvent
  <2>1. Record("core_up") /\ run' = run /\ "core_up" \in Kinds
    BY <1>5 DEF CloseEvent, Kinds
  <2> QED
    BY <2>1, RecordKeepsOrder DEF EventInv
<1>6. CASE AlertDown \/ AlertUp \/ SlowEvent \/ AlertSlow
  BY <1>2, <1>6 DEF AlertDown, AlertUp, SlowEvent, AlertSlow, Kinds, detector
<1>7. CASE Start
  <2>1. /\ run' = run + 1 /\ events' = events
        /\ \A k \in 1..Len(events) : events[k].run < run'
    BY <1>7, EventFacts DEF Start, tables, EventInv
  <2>2. \A x : EventsOf(run, x)' = {}
    BY <2>1, EventFacts DEF EventsOf
  <2>3. \A r \in 1..run' : \A x :
          EventsOf(r, x)' = IF r = run' THEN {} ELSE EventsOf(r, x)
    BY <2>1, <2>2 DEF EventsOf
  <2>4. \A r \in 1..run' : r = run' \/ r \in 1..run
    BY <2>1, EventFacts
  <2>5. EventsAlternate'
    BY <2>3, <2>4 DEF EventInv, EventsAlternate
  <2>6. \A k \in 1..Len(events') : events'[k].run <= run'
    BY <2>1, EventFacts
  <2>7. Answered'
    BY <2>2 DEF Answered
  <2> QED
    BY <2>5, <2>6, <2>7 DEF EventInv
<1>8. CASE ProbeCore \/ OnReachable \/ OnUnreachable \/ Freeze \/ CloseRow
           \/ CheckLatency \/ WriteSample \/ Sleep \/ Supervise \/ StorageRaises \/ Stop
  BY <1>1, <1>8
     DEF ProbeCore, OnReachable, OnUnreachable, Freeze, CloseRow, CheckLatency,
         WriteSample, Sleep, Supervise, StorageRaises, Stop, detector, tables, history
<1>9. CASE UNCHANGED vars
  BY <1>1, <1>9 DEF vars, detector, tables
<1> QED
  BY <1>3, <1>4, <1>5, <1>6, <1>7, <1>8, <1>9 DEF Next, LoopStep

\* The event log never tells of two outages in a row, whatever the storage
\* refuses and whenever the process stops.
THEOREM EventsDoAlternate == Spec => []EventsAlternate
<1>1. Init => TypeOK /\ OwnInv /\ EventInv
  BY TypeInit, OwnInit, EventInit
<1>2. TypeOK /\ OwnInv /\ EventInv /\ [Next]_vars => (TypeOK /\ OwnInv /\ EventInv)'
  BY TypeStep, OwnStep, EventStep
<1>3. EventInv => EventsAlternate
  BY DEF EventInv
<1> QED
  BY <1>1, <1>2, <1>3, PTL DEF Spec

-----------------------------------------------------------------------------
(* Alerts *)

Opening == {"openEvent", "freeze", "alertDown"}

Down(i) == [row |-> i, word |-> "down"]

\* An incident without its alert is the one being opened, or one whose alert is lost.
AlertInv ==
  pc # "stopped" =>
    /\ Cardinality(RowsOf(run)) =
         Cardinality(EventsOf(run, "alert_down")) + Cardinality(Unalerted) +
           IF pc \in Opening THEN 1 ELSE 0
    /\ pc \in Opening => Down(incidentId) \notin lost

\* The sets that are counted are finite.
LEMMA CountedSets ==
  ASSUME TypeOK
  PROVE  /\ IsFiniteSet(RowsOf(run)) /\ IsFiniteSet(EventsOf(run, "alert_down"))
         /\ IsFiniteSet(Unalerted)
         /\ Cardinality(RowsOf(run)) \in Nat /\ Cardinality(Unalerted) \in Nat
         /\ Cardinality(EventsOf(run, "alert_down")) \in Nat
<1>1. Len(incidents) \in Nat /\ Len(events) \in Nat
  BY DEF TypeOK
<1>2. IsFiniteSet(1..Len(incidents)) /\ IsFiniteSet(1..Len(events))
  BY <1>1, FS_Interval
<1>3. /\ IsFiniteSet(RowsOf(run)) /\ IsFiniteSet(EventsOf(run, "alert_down"))
      /\ IsFiniteSet(Unalerted)
  BY <1>2, FS_Subset DEF RowsOf, EventsOf, Unalerted
<1> QED
  BY <1>3, FS_CardinalityType

\* A row of this run is one more; so is an alert, and no other event counts.
LEMMA OneMoreRow ==
  ASSUME TypeOK, OpenRow
  PROVE  Cardinality(RowsOf(run))' = Cardinality(RowsOf(run)) + 1
<1> DEFINE n == Len(incidents) + 1
<1>1. /\ Len(incidents) \in Nat /\ Len(incidents') = n /\ run' = run
      /\ \A i \in 1..Len(incidents) : incidents'[i] = incidents[i]
      /\ incidents'[n].run = run
  BY OpenedRow, RowFacts DEF OpenRow
<1>2. RowsOf(run)' = RowsOf(run) \cup {n} /\ n \notin RowsOf(run)
  BY <1>1 DEF RowsOf
<1> QED
  BY <1>2, CountedSets, FS_AddElement

LEMMA OneMoreEvent ==
  ASSUME TypeOK, NEW kind \in Kinds, Record(kind), run' = run
  PROVE  Cardinality(EventsOf(run, "alert_down"))' =
           Cardinality(EventsOf(run, "alert_down")) + IF kind = "alert_down" THEN 1 ELSE 0
<1> DEFINE n == Len(events) + 1
<1>1. /\ Len(events) \in Nat /\ Len(events') = n
      /\ \A k \in 1..Len(events) : events'[k] = events[k]
      /\ events'[n].run = run /\ events'[n].kind = kind
  BY RecordedEvent, EventFacts
<1>2. CASE kind = "alert_down"
  <2>1. EventsOf(run, "alert_down")' = EventsOf(run, "alert_down") \cup {n}
        /\ n \notin EventsOf(run, "alert_down")
    BY <1>1, <1>2 DEF EventsOf
  <2> QED
    BY <1>2, <2>1, CountedSets, FS_AddElement
<1>3. CASE kind # "alert_down"
  <2>1. EventsOf(run, "alert_down")' = EventsOf(run, "alert_down")
    BY <1>1, <1>3 DEF EventsOf
  <2> QED
    BY <1>3, <2>1, CountedSets
<1> QED
  BY <1>2, <1>3

\* Writing into a row does not change whose it is.
LEMMA SameRows ==
  ASSUME TypeOK, OwnInv, Freeze \/ CloseRow
  PROVE  RowsOf(run)' = RowsOf(run)
<1>1. /\ Len(incidents') = Len(incidents) /\ run' = run
      /\ \A i \in 1..Len(incidents) : incidents'[i].run = incidents[i].run
  BY FreezeRow, ClosedRow DEF Freeze, CloseRow
<1> QED
  BY <1>1 DEF RowsOf

LEMMA AlertInit == Init => AlertInv
<1> SUFFICES ASSUME Init PROVE AlertInv
  OBVIOUS
<1>1. RowsOf(run) = {} /\ EventsOf(run, "alert_down") = {} /\ Unalerted = {}
  BY DEF Init, RowsOf, EventsOf, Unalerted
<1>2. Cardinality(RowsOf(run)) = 0 /\ Cardinality(EventsOf(run, "alert_down")) = 0
      /\ Cardinality(Unalerted) = 0
  BY <1>1, FS_EmptySet
<1>3. pc = "probe"
  BY DEF Init
<1> QED
  BY <1>2, <1>3 DEF AlertInv, Opening

\* Every step keeps the count.
LEMMA AlertStep ==
  ASSUME TypeOK, OwnInv, EventInv, AlertInv, [Next]_vars
  PROVE  AlertInv'
<1>1. ASSUME UNCHANGED <<run, events>>, RowsOf(run)' = RowsOf(run), pc # "stopped",
             pc' \in Opening <=> pc \in Opening,
             pc \in Opening => incidentId' = incidentId,
             \A i : Down(i) \in lost' <=> Down(i) \in lost
      PROVE  AlertInv'
  <2>1. EventsOf(run, "alert_down")' = EventsOf(run, "alert_down")
    BY <1>1 DEF EventsOf
  <2>2. Unalerted' = Unalerted
    BY <1>1 DEF Unalerted, Down
  <2> QED
    BY <1>1, <2>1, <2>2 DEF AlertInv
<1>2. ASSUME UNCHANGED <<run, incidents, lost>>, pc # "stopped",
             NEW kind \in Kinds, Record(kind),
             pc' \in Opening <=> pc \in Opening /\ kind # "alert_down",
             pc' \in Opening => incidentId' = incidentId,
             kind = "alert_down" => pc \in Opening
      PROVE  AlertInv'
  <2>1. RowsOf(run)' = RowsOf(run)
    BY <1>2 DEF RowsOf
  <2>2. Unalerted' = Unalerted
    BY <1>2, <2>1 DEF Unalerted
  <2>3. run' = run /\ Record(kind)
    BY <1>2
  <2>4. Cardinality(EventsOf(run, "alert_down"))' =
          Cardinality(EventsOf(run, "alert_down")) + IF kind = "alert_down" THEN 1 ELSE 0
    BY <2>3, OneMoreEvent
  <2> QED
    BY <1>2, <2>1, <2>2, <2>4, CountedSets DEF AlertInv
<1>3. CASE OpenRow
  <2>1. EventsOf(run, "alert_down")' = EventsOf(run, "alert_down")
    BY <1>3 DEF OpenRow, EventsOf
  <2>2. Down(incidentId') \notin lost /\ lost' = lost /\ run' = run
    BY <1>3, RowFacts DEF OpenRow, OwnInv, Down, history
  <2>3. Unalerted' = Unalerted
    <3>1. /\ Len(incidents') = Len(incidents) + 1 /\ Len(incidents) \in Nat
          /\ \A i \in 1..Len(incidents) : incidents'[i] = incidents[i]
      BY <1>3, OpenedRow, RowFacts
    <3>2. incidentId' = Len(incidents) + 1
      BY <1>3 DEF OpenRow
    <3> QED
      BY <2>2, <3>1, <3>2 DEF Unalerted, RowsOf, Down
  <2> QED
    BY <1>3, <2>1, <2>2, <2>3, OneMoreRow, CountedSets DEF OpenRow, AlertInv, Opening
<1>4. CASE Freeze \/ CloseRow
  BY <1>1, <1>4, SameRows DEF Freeze, CloseRow, Opening, detector, history
<1>5. CASE OpenEvent \/ AlertDown \/ CloseEvent \/ AlertUp \/ SlowEvent \/ AlertSlow
  BY <1>2, <1>5
     DEF OpenEvent, AlertDown, CloseEvent, AlertUp, SlowEvent, AlertSlow, Kinds, Opening,
         detector, history
<1>6. CASE StorageRaises
  <2>1. /\ pc \in MayRaise /\ pc' = "backoff" /\ lost' = lost \cup AlertsLost
        /\ UNCHANGED <<run, events, incidents, incidentId>>
    BY <1>6, DetectorAssumption DEF StorageRaises, tables
  <2>2. RowsOf(run)' = RowsOf(run)
    BY <2>1 DEF RowsOf
  <2>3. CASE pc \in Opening
    <3>1. /\ incidentId \in RowsOf(run)
          /\ AlertsLost = {Down(incidentId)} /\ Down(incidentId) \notin lost
      BY <2>1, <2>3, HeldRow DEF RowsOf, OwnInv, Holding, Opening, AlertsLost, Down, AlertInv
    <3>2. Unalerted' = Unalerted \cup {incidentId} /\ incidentId \notin Unalerted
      BY <2>1, <2>2, <3>1 DEF Unalerted, Down
    <3>3. Cardinality(Unalerted') = Cardinality(Unalerted) + 1
      BY <3>2, CountedSets, FS_AddElement
    <3>4. EventsOf(run, "alert_down")' = EventsOf(run, "alert_down")
      BY <2>1 DEF EventsOf
    <3>5. pc # "stopped" /\ pc' \notin Opening
      BY <2>1 DEF MayRaise, Opening
    <3> QED
      BY <2>2, <2>3, <3>3, <3>4, <3>5, CountedSets DEF AlertInv
  <2>4. CASE pc \notin Opening
    <3>1. \A i : Down(i) \notin AlertsLost
      BY <2>4 DEF AlertsLost, Down, Opening
    <3> QED
      BY <1>1, <2>1, <2>2, <2>4, <3>1 DEF MayRaise, Opening
  <2> QED
    BY <2>3, <2>4
<1>7. CASE Stop
  BY <1>7 DEF Stop, AlertInv
<1>8. CASE Start
  <2>1. /\ run' = run + 1 /\ UNCHANGED <<incidents, events>> /\ pc' = "probe"
    BY <1>8 DEF Start, tables
  <2>2. RowsOf(run)' = {} /\ EventsOf(run, "alert_down")' = {}
    BY <2>1, RowFacts, EventFacts DEF OwnInv, EventInv, RowsOf, EventsOf
  <2>3. Unalerted' = {}
    BY <2>2 DEF Unalerted
  <2> QED
    BY <2>1, <2>2, <2>3, FS_EmptySet DEF AlertInv, Opening
<1>9. CASE ProbeCore \/ OnReachable \/ OnUnreachable \/ CheckLatency \/ WriteSample
           \/ Sleep \/ Supervise
  <2>1. RowsOf(run)' = RowsOf(run) /\ UNCHANGED <<run, events, lost>>
    BY <1>9 DEF ProbeCore, OnReachable, OnUnreachable, CheckLatency, WriteSample, Sleep,
                Supervise, tables, history, RowsOf
  <2> QED
    BY <1>1, <1>9, <2>1
       DEF ProbeCore, OnReachable, OnUnreachable, CheckLatency, WriteSample, Sleep, Supervise,
           Opening
<1>10. CASE UNCHANGED vars
  BY <1>10 DEF vars, tables, detector, history, AlertInv, RowsOf, EventsOf, Unalerted
<1> QED
  BY <1>3, <1>4, <1>5, <1>6, <1>7, <1>8, <1>9, <1>10 DEF Next, LoopStep

\* Whatever the storage refuses, an incident of the run has been alerted when the
\* loop comes back for another probe, unless its own opening raised before that.
THEOREM EveryOutageIsAlerted == Spec => []OutagesAlerted
<1>1. Init => TypeOK /\ OwnInv /\ EventInv /\ AlertInv
  BY TypeInit, OwnInit, EventInit, AlertInit
<1>2. TypeOK /\ OwnInv /\ EventInv /\ AlertInv /\ [Next]_vars
        => (TypeOK /\ OwnInv /\ EventInv /\ AlertInv)'
  BY TypeStep, OwnStep, EventStep, AlertStep
<1>3. TypeOK /\ AlertInv => OutagesAlerted
  BY CountedSets DEF AlertInv, OutagesAlerted, Opening
<1> QED
  BY <1>1, <1>2, <1>3, PTL DEF Spec

-----------------------------------------------------------------------------
(* Time *)

\* The initial state knows of no outage.
LEMMA TimeInit == Init => TimeInv
  BY DetectorAssumption
     DEF Init, TimeInv, IncidentsDisjoint, RowsOf, NoTime, NoId

\* Steps that write no row keep the incidents disjoint.
LEMMA DisjointKept ==
  ASSUME IncidentsDisjoint, incidents' = incidents, lost \subseteq lost'
  PROVE  IncidentsDisjoint'
  BY DEF IncidentsDisjoint, Untold

\* So does writing a bundle, or a later end, into the row held: it is the last.
LEMMA DisjointUpdate ==
  ASSUME TypeOK, OwnInv, IncidentsDisjoint, lost' = lost, incidentId # NoId,
         Len(incidents') = Len(incidents),
         \A i \in 1..Len(incidents) :
           /\ incidents'[i].run = incidents[i].run
           /\ incidents'[i].started = incidents[i].started
           /\ i # incidentId => incidents'[i] = incidents[i]
  PROVE  IncidentsDisjoint'
<1> SUFFICES ASSUME NEW i \in 1..Len(incidents), NEW j \in 1..Len(incidents),
                    i < j, incidents[i].run = incidents[j].run
             PROVE  /\ incidents'[i].ended # NoTime
                    /\ \/ incidents'[i].ended < incidents'[j].started
                       \/ /\ incidents'[i].started = incidents'[j].started
                          /\ \A k \in i..(j - 1) : Untold(k)'
  BY DEF IncidentsDisjoint
<1>1. i # incidentId
  BY RowFacts DEF OwnInv
<1>2. incidents'[i] = incidents[i] /\ incidents'[j].started = incidents[j].started
  BY <1>1
<1>3. \A k : Untold(k)' <=> Untold(k)
  BY DEF Untold
<1> QED
  BY <1>2, <1>3 DEF IncidentsDisjoint

\* A new row is disjoint from the rows of its run, or resumes the last of them.
LEMMA DisjointOpen ==
  ASSUME TypeOK, OwnInv, TimeInv, OpenRow
  PROVE  IncidentsDisjoint'
<1> DEFINE n == Len(incidents)
<1>0. /\ n \in Nat /\ firstFailure \in Nat /\ lastUp \in Nat
      /\ \A i \in 1..n : incidents[i].started \in Nat /\ incidents[i].ended \in Nat
  BY RowFacts DEF TypeOK
<1>1. /\ Len(incidents') = n + 1
      /\ \A i \in 1..n : incidents'[i] = incidents[i]
      /\ incidents'[n + 1].run = run
      /\ incidents'[n + 1].started = firstFailure
  BY OpenedRow
<1>2. /\ incidentId = NoId /\ firstFailure # NoTime /\ lost' = lost
      /\ lastUp < firstFailure \/ (StartOfLast /\ Untold(n))
  BY DEF OpenRow, OwnInv, TimeInv, history
<1>3. \A k : Untold(k)' <=> Untold(k)
  BY <1>2 DEF Untold
<1> SUFFICES ASSUME NEW i \in 1..(n + 1), NEW j \in 1..(n + 1),
                    i < j, incidents'[i].run = incidents'[j].run
             PROVE  /\ incidents'[i].ended # NoTime
                    /\ \/ incidents'[i].ended < incidents'[j].started
                       \/ /\ incidents'[i].started = incidents'[j].started
                          /\ \A k \in i..(j - 1) : Untold(k)'
  BY <1>1 DEF IncidentsDisjoint
<1>4. i \in 1..n /\ incidents'[i] = incidents[i] /\ (j = n + 1 \/ j \in 1..n)
  <2> HIDE DEF n
  <2>1. i \in 1..n /\ (j = n + 1 \/ j \in 1..n)
    BY <1>0
  <2> QED
    BY <1>1, <2>1
<1>5. CASE j \in 1..n
  <2>1. incidents'[j] = incidents[j]
    BY <1>1, <1>5
  <2> QED
    BY <1>3, <1>4, <1>5, <2>1 DEF TimeInv, IncidentsDisjoint
<1>6. CASE j = n + 1
  <2>1. i \in RowsOf(run) /\ i # incidentId
    BY <1>0, <1>1, <1>2, <1>4, <1>6 DEF RowsOf, NoId
  <2>2. incidents[i].ended # NoTime /\ incidents[i].ended <= lastUp
    BY <2>1 DEF OwnInv, OpenRowsOwned, TimeInv
  <2>3. CASE lastUp < firstFailure
    BY <1>0, <1>1, <1>4, <1>6, <2>2, <2>3
  <2>4. CASE StartOfLast /\ Untold(n)
    <3>1. n \in 1..n /\ incidents[n].run = run /\ incidents[n].started = firstFailure
      BY <1>0, <2>4 DEF StartOfLast
    <3>2. CASE i = n
      <4>1. \A k \in i..(j - 1) : k = n
        BY <1>0, <1>6, <3>2
      <4> QED
        BY <1>1, <1>3, <1>4, <1>6, <2>2, <2>4, <3>1, <3>2, <4>1
    <3>3. CASE i # n
      <4>1. i < n /\ incidents[i].run = incidents[n].run
        BY <1>0, <1>4, <2>1, <3>1, <3>3 DEF RowsOf
      <4>2. \/ incidents[i].ended < firstFailure
            \/ incidents[i].started = firstFailure /\ \A k \in i..(n - 1) : Untold(k)
        BY <1>4, <3>1, <4>1 DEF TimeInv, IncidentsDisjoint
      <4>3. (\A k \in i..(n - 1) : Untold(k)) => \A k \in i..(j - 1) : Untold(k)
        <5>1. \A k \in i..(j - 1) : k \in i..(n - 1) \/ k = n
          BY <1>0, <1>6
        <5> QED
          BY <2>4, <5>1
      <4> QED
        BY <1>1, <1>3, <1>4, <1>6, <2>2, <4>2, <4>3
    <3> QED
      BY <3>2, <3>3
  <2> QED
    BY <1>2, <2>3, <2>4
<1> QED
  BY <1>4, <1>5, <1>6

\* Every step keeps the order of times.
LEMMA TimeStep == TypeOK /\ OwnInv /\ TimeInv /\ [Next]_vars => TimeInv'
<1> SUFFICES ASSUME TypeOK, OwnInv, TimeInv, [Next]_vars PROVE TimeInv'
  OBVIOUS
<1>0. /\ Len(incidents) \in Nat /\ run \in Nat /\ incidentId \in Nat
      /\ probe.ts \in Nat /\ clock \in Nat \ {0}
      /\ firstFailure \in Nat /\ lastUp \in Nat
      /\ DownAfter \in Nat /\ MaxTime \in Nat /\ BackOff \in Nat \ {0}
      /\ \A i \in 1..Len(incidents) :
           /\ incidents[i].run \in Nat /\ incidents[i].started \in Nat
           /\ incidents[i].ended \in Nat
  BY RowFacts, DetectorAssumption DEF TypeOK
<1> USE DEF RowsOf, NoTime, NoId, detector, tables, history
\* A step that writes no row.
<1>a. ASSUME incidents' = incidents, run' = run, lost \subseteq lost'
      PROVE  /\ IncidentsDisjoint'
             /\ firstFailure' = firstFailure => (StartOfLast' <=> StartOfLast)
             /\ \A i : Untold(i) => Untold(i)'
  <2>1. IncidentsDisjoint
    BY DEF TimeInv
  <2> QED
    BY <1>a, <2>1, DisjointKept DEF StartOfLast, Untold
<1>1. CASE ProbeCore
  <2>1. /\ probe'.ts = clock /\ clock' >= clock /\ clock' <= MaxTime
        /\ pc = "probe" /\ pc' = "observe"
        /\ UNCHANGED <<run, firstFailure, incidentId, incidents, lastUp, lost>>
    BY <1>0, <1>1 DEF ProbeCore
  <2>2. \A i \in 1..Len(incidents) : incidents[i].started < clock
    BY <1>0, <2>1 DEF TimeInv
  <2>3. lastUp < clock /\ firstFailure < clock
    BY <1>0, <2>1 DEF TimeInv
  <2> QED
    BY <1>0, <1>a, <2>1, <2>2, <2>3 DEF TimeInv
<1>2. CASE OnReachable
  <2>1. /\ pc = "observe" /\ lastUp' = probe.ts
        /\ \/ incidentId # NoId /\ pc' = "closeRow" /\ firstFailure' = firstFailure
           \/ incidentId = NoId /\ pc' = "latency" /\ firstFailure' = NoTime
        /\ UNCHANGED <<clock, run, probe, incidentId, incidents, lost>>
    BY <1>2 DEF OnReachable
  <2>2. \A i \in RowsOf(run) : incidents[i].ended < probe.ts
    BY <1>0, <2>1 DEF TimeInv
  <2> QED
    BY <1>0, <1>a, <2>1, <2>2 DEF TimeInv
<1>3. CASE OnUnreachable
  <2>1. /\ pc = "observe" /\ pc' \in {"openRow", "sample"}
        /\ firstFailure' = IF firstFailure = NoTime THEN probe.ts ELSE firstFailure
        /\ pc' = "openRow" => incidentId = NoId /\ probe.ts - firstFailure' >= DownAfter
        /\ UNCHANGED <<clock, run, probe, incidentId, incidents, lastUp, lost>>
    BY <1>3 DEF OnUnreachable, ShouldOpen
  <2>2. incidentId # NoId => firstFailure # NoTime
    BY <1>0 DEF TimeInv, StartOfLast
  <2> QED
    BY <1>0, <1>a, <2>1, <2>2 DEF TimeInv
<1>4. CASE OpenRow
  <2>1. /\ incidentId = NoId /\ firstFailure # NoTime /\ firstFailure <= probe.ts
        /\ incidentId' = Len(incidents) + 1 /\ pc' = "openEvent"
        /\ UNCHANGED <<clock, run, probe, firstFailure, lastUp>>
    BY <1>4 DEF OpenRow, OwnInv, TimeInv
  <2>2. /\ Len(incidents') = Len(incidents) + 1
        /\ \A i \in 1..Len(incidents) : incidents'[i] = incidents[i]
        /\ incidents'[Len(incidents) + 1].run = run
        /\ incidents'[Len(incidents) + 1].started = firstFailure
        /\ incidents'[Len(incidents) + 1].ended = NoTime
    BY <1>4, OpenedRow
  <2>3. StartOfLast'
    BY <1>0, <2>1, <2>2 DEF StartOfLast
  <2>4. \A i \in 1..Len(incidents') :
          /\ incidents'[i].started # NoTime
          /\ incidents'[i].started <= probe'.ts
    BY <1>0, <2>1, <2>2 DEF TimeInv
  <2>5. \A i \in RowsOf(run)' : incidents'[i].ended <= lastUp'
    BY <1>0, <2>1, <2>2 DEF TimeInv
  <2>6. IncidentsDisjoint'
    BY <1>4, DisjointOpen
  <2> QED
    BY <1>0, <2>1, <2>3, <2>4, <2>5, <2>6 DEF TimeInv
<1>5. CASE OpenEvent \/ AlertDown
  BY <1>0, <1>5, <1>a DEF OpenEvent, AlertDown, TimeInv
<1>6. CASE Freeze
  <2>1. /\ incidentId # NoId /\ incidentId \in 1..Len(incidents)
        /\ incidentId = Len(incidents) /\ pc' = "alertDown"
        /\ UNCHANGED <<clock, run, probe, firstFailure, incidentId, lastUp, lost>>
    BY <1>6, HeldRow DEF Freeze, OwnInv, Holding
  <2>2. /\ Len(incidents') = Len(incidents)
        /\ \A i \in 1..Len(incidents) :
             /\ incidents'[i].run = incidents[i].run
             /\ incidents'[i].started = incidents[i].started
             /\ incidents'[i].ended = incidents[i].ended
             /\ i # incidentId => incidents'[i] = incidents[i]
    BY <1>6, <2>1, FreezeRow
  <2>3. IncidentsDisjoint'
    BY <2>1, <2>2, DisjointUpdate DEF TimeInv
  <2> QED
    BY <1>0, <2>1, <2>2, <2>3 DEF TimeInv, StartOfLast
<1>7. CASE CloseRow
  <2>1. /\ incidentId # NoId /\ incidentId \in 1..Len(incidents)
        /\ incidentId = Len(incidents)
        /\ lastUp = probe.ts /\ pc = "closeRow" /\ pc' = "closeEvent"
        /\ UNCHANGED <<clock, run, probe, firstFailure, incidentId, lastUp, lost>>
    BY <1>7, HeldRow DEF CloseRow, OwnInv, Holding, TimeInv
  <2>2. /\ Len(incidents') = Len(incidents)
        /\ incidents'[incidentId].ended = probe.ts
        /\ \A i \in 1..Len(incidents) :
             /\ incidents'[i].run = incidents[i].run
             /\ incidents'[i].started = incidents[i].started
             /\ i # incidentId => incidents'[i] = incidents[i]
    BY <1>7, ClosedRow
  <2>3. IncidentsDisjoint'
    BY <2>1, <2>2, DisjointUpdate DEF TimeInv
  <2>4. \A i \in RowsOf(run)' : incidents'[i].ended <= lastUp'
    BY <1>0, <2>1, <2>2 DEF TimeInv
  <2> QED
    BY <1>0, <2>1, <2>2, <2>3, <2>4 DEF TimeInv, StartOfLast
<1>8. CASE CloseEvent
  <2>1. /\ pc = "closeEvent" /\ pc' = "alertUp" /\ incidentId # NoId /\ incidentId' = NoId
        /\ UNCHANGED <<clock, run, probe, firstFailure, incidents, lastUp, lost>>
    BY <1>8 DEF CloseEvent, OwnInv, Holding
  <2> QED
    BY <1>0, <1>a, <2>1 DEF TimeInv
<1>9. CASE AlertUp
  <2>1. /\ pc = "alertUp" /\ pc' = "latency" /\ incidentId = NoId /\ firstFailure' = NoTime
        /\ UNCHANGED <<clock, run, probe, incidentId, incidents, lastUp, lost>>
    BY <1>9 DEF AlertUp, OwnInv
  <2> QED
    BY <1>0, <1>a, <2>1 DEF TimeInv
<1>10. CASE CheckLatency \/ SlowEvent \/ AlertSlow \/ WriteSample
  <2>1. /\ pc \in {"latency", "slowEvent", "alertSlow", "sample"}
        /\ pc' \in {"sample", "slowEvent", "alertSlow", "sleep"}
        /\ UNCHANGED <<clock, run, probe, firstFailure, incidentId, incidents, lastUp, lost>>
    BY <1>10 DEF CheckLatency, SlowEvent, AlertSlow, WriteSample
  <2>2. IncidentsDisjoint' /\ (StartOfLast' <=> StartOfLast)
        /\ \A i : Untold(i) => Untold(i)'
    BY <1>a, <2>1
  <2> QED
    BY <1>0, <2>1, <2>2 DEF TimeInv
<1>11. CASE Sleep \/ Supervise
  <2>1. /\ clock' \in Nat /\ clock' > clock /\ clock' <= MaxTime
        /\ pc \in {"sleep", "backoff"} /\ pc' = "probe"
        /\ UNCHANGED <<run, probe, firstFailure, incidentId, incidents, lastUp, lost>>
    BY <1>0, <1>11 DEF Sleep, Supervise
  <2>2. IncidentsDisjoint' /\ (StartOfLast' <=> StartOfLast)
        /\ \A i : Untold(i) => Untold(i)'
    BY <1>a, <2>1
  <2>3. probe.ts < clock' /\ probe.ts <= clock
    BY <1>0, <2>1 DEF TimeInv
  <2> QED
    BY <1>0, <2>1, <2>2, <2>3 DEF TimeInv
<1>12. CASE StorageRaises
  <2>1. /\ pc \in MayRaise /\ pc' = "backoff" /\ lost' = lost \cup AlertsLost
        /\ UNCHANGED <<clock, run, probe, firstFailure, incidentId, incidents, lastUp>>
    BY <1>12, DetectorAssumption DEF StorageRaises
  <2>2. pc = "alertUp" => StartOfLast' /\ Untold(Len(incidents))'
    BY <1>a, <2>1 DEF TimeInv, AlertsLost, Untold
  <2> QED
    BY <1>0, <1>a, <2>1, <2>2 DEF TimeInv, MayRaise
<1>13. CASE Stop
  <2>1. /\ pc' = "stopped"
        /\ UNCHANGED <<clock, run, probe, firstFailure, incidentId, incidents, lastUp, lost>>
    BY <1>13 DEF Stop
  <2> QED
    BY <1>0, <1>a, <2>1 DEF TimeInv
<1>14. CASE Start
  <2>1. /\ clock' = clock + 1 /\ clock < MaxTime /\ run' = run + 1 /\ pc' = "probe"
        /\ firstFailure' = NoTime /\ incidentId' = NoId /\ lastUp' = NoTime
        /\ UNCHANGED <<probe, incidents, lost>>
    BY <1>14 DEF Start
  <2>2. RowsOf(run)' = {}
    BY <1>0, <2>1 DEF OwnInv
  <2>3. IncidentsDisjoint'
    BY <2>1, DisjointKept DEF TimeInv
  <2> QED
    BY <1>0, <2>1, <2>2, <2>3 DEF TimeInv
<1>15. CASE UNCHANGED vars
  BY <1>15, <1>a DEF vars, TimeInv
<1> QED
  BY <1>1, <1>2, <1>3, <1>4, <1>5, <1>6, <1>7, <1>8, <1>9, <1>10, <1>11, <1>12, <1>13,
     <1>14, <1>15 DEF Next, LoopStep

\* The inductive invariant that the theorems below share.
LEMMA Invariance == Spec => [](TypeOK /\ OwnInv /\ TimeInv)
<1>1. Init => TypeOK /\ OwnInv /\ TimeInv
  BY TypeInit, OwnInit, TimeInit
<1>2. TypeOK /\ OwnInv /\ TimeInv /\ [Next]_vars => (TypeOK /\ OwnInv /\ TimeInv)'
  BY TypeStep, OwnStep, TimeStep
<1> QED
  BY <1>1, <1>2, PTL DEF Spec

\* Whatever the storage refuses, the incidents of one run are separate outages, or
\* the later one resumes an outage whose recovery alert raised.
THEOREM IncidentsAreDisjoint == Spec => []IncidentsDisjoint
<1>1. TimeInv => IncidentsDisjoint
  BY DEF TimeInv
<1> QED
  BY <1>1, Invariance, PTL

\* Whatever the storage refuses, an incident is opened only on an outage of
\* DownAfter that no reachable probe has interrupted, or resumes one.
THEOREM OpensOnlyOnSustainedOutage == Spec => OpensOnSustainedOutage
<1> DEFINE Sustained ==
      Len(incidents') > Len(incidents) =>
        LET row == incidents'[Len(incidents')]
        IN  /\ row.started + DownAfter <= probe.ts
            /\ row.started > lastUp \/ Resumes(row)
<1>1. TypeOK /\ OwnInv /\ TimeInv /\ [Next]_vars => [Sustained]_vars
  <2> SUFFICES ASSUME TypeOK, OwnInv, TimeInv, Next, Len(incidents') > Len(incidents)
               PROVE  LET row == incidents'[Len(incidents')]
                      IN  /\ row.started + DownAfter <= probe.ts
                          /\ row.started > lastUp \/ Resumes(row)
    OBVIOUS
  <2>0. Len(incidents) \in Nat /\ firstFailure \in Nat /\ lastUp \in Nat
    BY RowFacts DEF TypeOK
  <2>1. OpenRow
    <3>1. Freeze => Len(incidents') = Len(incidents)
      BY FreezeRow
    <3>2. CloseRow => Len(incidents') = Len(incidents)
      BY ClosedRow
    <3>3. incidents' = incidents \/ OpenRow \/ Freeze \/ CloseRow
      BY DEF Next, LoopStep, ProbeCore, OnReachable, OnUnreachable, OpenEvent, AlertDown,
             CloseEvent, AlertUp, CheckLatency, SlowEvent, AlertSlow, WriteSample, Sleep,
             StorageRaises, Supervise, Stop, Start, detector, tables
    <3> QED
      BY <2>0, <3>1, <3>2, <3>3
  <2>2. /\ Len(incidents') = Len(incidents) + 1
        /\ incidents'[Len(incidents) + 1].started = firstFailure
        /\ incidents'[Len(incidents) + 1].run = run
    BY <2>1, OpenedRow
  <2>3. /\ firstFailure + DownAfter <= probe.ts
        /\ lastUp < firstFailure \/ (StartOfLast /\ Untold(Len(incidents)))
    BY <2>1 DEF OpenRow, OwnInv, TimeInv
  <2> QED
    BY <2>0, <2>2, <2>3 DEF Resumes, StartOfLast
<1>2. OpensOnSustainedOutage <=> [][Sustained]_vars
  BY PTL DEF OpensOnSustainedOutage
<1> QED
  BY <1>1, <1>2, Invariance, PTL DEF Spec

-----------------------------------------------------------------------------
(* Refinement *)

\* The log changes where the incident table does, and only there.
LEMMA LogInitOk == Init => Log!LogInit
<1> SUFFICES ASSUME Init PROVE Log!LogInit
  OBVIOUS
<1>1. LogOf = <<>>
  <2>1. Len(incidents) = 0
    BY DEF Init
  <2> QED
    BY <2>1 DEF LogOf
<1> QED
  BY <1>1 DEF Init, Log!LogInit, NoId

\* LogOf holds the fields of the rows.
LEMMA LogFacts ==
  ASSUME TypeOK
  PROVE  /\ LogOf \in Seq([run : Nat, started : Nat, ended : Nat])
         /\ Len(LogOf) = Len(incidents)
         /\ \A i \in 1..Len(incidents) :
              /\ LogOf[i].run = incidents[i].run
              /\ LogOf[i].started = incidents[i].started
              /\ LogOf[i].ended = incidents[i].ended
         /\ \A i \in 1..Len(incidents) :
              LogOf[i] = [run |-> incidents[i].run, started |-> incidents[i].started,
                          ended |-> incidents[i].ended]
<1>1. Len(incidents) \in Nat
  BY RowFacts
<1>2. \A i \in 1..Len(incidents) :
        [run |-> incidents[i].run, started |-> incidents[i].started,
         ended |-> incidents[i].ended] \in [run : Nat, started : Nat, ended : Nat]
  BY RowFacts
<1>3. LogOf \in Seq([run : Nat, started : Nat, ended : Nat])
      /\ Len(LogOf) = Len(incidents)
  BY <1>1, <1>2 DEF LogOf
<1>4. \A i \in 1..Len(incidents) :
        LogOf[i] = [run |-> incidents[i].run, started |-> incidents[i].started,
                    ended |-> incidents[i].ended]
  BY DEF LogOf
<1>5. \A i \in 1..Len(incidents) :
        /\ LogOf[i].run = incidents[i].run
        /\ LogOf[i].started = incidents[i].started
        /\ LogOf[i].ended = incidents[i].ended
  BY DEF LogOf
<1> QED
  BY <1>3, <1>4, <1>5

\* The outages nobody was told the end of, as the log sees them.
UntoldOf == {i \in 1..Len(incidents) : Untold(i)}

\* Every step of the probe loop is a step of the log, or none.
LEMMA LogStep ==
  ASSUME TypeOK, TypeOK', OwnInv, OwnInv', TimeInv, [Next]_vars
  PROVE  [Log!LogNext]_(Log!logVars)
<1>0. /\ Len(incidents) \in Nat /\ incidentId \in Nat /\ run \in Nat
      /\ firstFailure \in Nat /\ probe.ts \in Nat /\ lastUp \in Nat
      /\ \A i \in 1..Len(incidents) : incidents[i].ended \in Nat
  BY RowFacts DEF TypeOK
<1> USE DEF Log!LogNext, UntoldOf
<1>1. CASE OpenRow
  <2>1. /\ LogOf' = Append(LogOf, [run |-> run, started |-> firstFailure, ended |-> 0])
        /\ Len(LogOf) = Len(incidents)
    BY <1>0, <1>1, OpenedRow, LogFacts DEF LogOf, NoTime
  <2>2. incidentId = 0 /\ incidentId' = Len(LogOf) + 1 /\ lost' = lost
    BY <1>0, <1>1, <2>1 DEF OpenRow, OwnInv, NoId, history
  <2>3. firstFailure \in 1..MaxTime
    BY <1>0, <1>1, DetectorAssumption DEF OpenRow, OwnInv, TimeInv, TypeOK, NoTime
  <2>a. \A i \in 1..Len(incidents) : /\ LogOf[i].run = incidents[i].run
                                     /\ LogOf[i].started = incidents[i].started
                                     /\ LogOf[i].ended = incidents[i].ended
    BY LogFacts
  <2>4. ASSUME lastUp < firstFailure PROVE Log!AllEndedBefore(firstFailure)
    <3> SUFFICES ASSUME NEW i \in 1..Len(incidents), incidents[i].run = run
                 PROVE  incidents[i].ended # 0 /\ incidents[i].ended < firstFailure
      BY <2>1, <2>a DEF Log!AllEndedBefore
    <3>1. incidents[i].ended # 0
      BY <1>0, <2>2 DEF OwnInv, OpenRowsOwned, RowsOf, NoTime
    <3>2. incidents[i].ended <= lastUp
      BY DEF TimeInv, RowsOf
    <3> QED
      BY <1>0, <2>4, <3>1, <3>2
  <2>5. ASSUME StartOfLast, Untold(Len(incidents)) PROVE Log!Resumes(firstFailure)
    BY <1>0, <2>1, <2>5, <2>a DEF Log!Resumes, StartOfLast
  <2>6. lastUp < firstFailure \/ (StartOfLast /\ Untold(Len(incidents)))
    BY <1>1 DEF OpenRow, OwnInv, TimeInv, NoId, NoTime
  <2>7. UntoldOf' = UntoldOf
    <3>1. Len(incidents') = Len(incidents) + 1 /\ ~Untold(Len(incidents) + 1)
      BY <1>0, <1>1, OpenedRow DEF OwnInv, Untold
    <3> QED
      BY <1>0, <2>2, <3>1 DEF Untold
  <2>8. run' = run
    BY <1>1 DEF OpenRow
  <2> QED
    BY <2>1, <2>2, <2>3, <2>4, <2>5, <2>6, <2>7, <2>8 DEF Log!Open
<1>2. CASE CloseRow
  <2>a. incidentId \in 1..Len(incidents) /\ incidentId # 0 /\ pc = "closeRow"
    BY <1>0, <1>2, HeldRow DEF CloseRow, OwnInv, Holding, NoId
  <2>b. /\ probe.ts # 0 /\ probe.ts <= clock /\ clock <= MaxTime
        /\ incidents[incidentId].started < probe.ts
        /\ incidents[incidentId].ended < probe.ts
    BY <2>a DEF OwnInv, TimeInv, RowsOf, NoId
  <2>c. clock \in Nat /\ MaxTime \in Nat
    BY DetectorAssumption DEF TypeOK
  <2>1. probe.ts \in 1..MaxTime
    BY <1>0, <2>b, <2>c
  <2>2. LogOf' = [LogOf EXCEPT ![incidentId].ended = probe.ts]
    <3>1. LogOf = [i \in 1..Len(incidents) |->
                     [run |-> incidents[i].run, started |-> incidents[i].started,
                      ended |-> incidents[i].ended]]
      BY DEF LogOf
    <3>2. /\ Len(incidents') = Len(incidents)
          /\ \A i \in 1..Len(incidents) :
               /\ incidents'[i].run = incidents[i].run
               /\ incidents'[i].started = incidents[i].started
               /\ incidents'[i].ended =
                    IF i = incidentId THEN probe.ts ELSE incidents[i].ended
      BY <1>2, ClosedRow
    <3>3. LogOf' = [i \in 1..Len(incidents) |->
                      [run |-> incidents[i].run, started |-> incidents[i].started,
                       ended |-> IF i = incidentId THEN probe.ts ELSE incidents[i].ended]]
      BY <3>2 DEF LogOf
    <3> QED
      BY <2>a, <3>1, <3>3
  <2>3. UNCHANGED <<incidentId, run>> /\ UntoldOf' = UntoldOf
    BY <1>2, ClosedRow DEF CloseRow, detector, history, Untold
  <2>4. LogOf[incidentId].started < probe.ts /\ LogOf[incidentId].ended < probe.ts
    BY <2>a, <2>b, LogFacts
  <2> QED
    BY <1>0, <2>a, <2>1, <2>2, <2>3, <2>4 DEF Log!Close
<1>3. CASE Start
  BY <1>3 DEF Log!NewRun, Start, tables, LogOf, NoId, Untold
<1>4. CASE Freeze
  <2>1. /\ Len(incidents') = Len(incidents) /\ incidentId \in 1..Len(incidents)
        /\ UNCHANGED <<incidentId, run, lost>>
    BY <1>4, FreezeRow, HeldRow DEF Freeze, OwnInv, Holding, detector, history
  <2>2. \A i \in 1..Len(incidents) :
          /\ incidents'[i].run = incidents[i].run
          /\ incidents'[i].started = incidents[i].started
          /\ incidents'[i].ended = incidents[i].ended
    BY <1>4, <2>1, FreezeRow
  <2>3. LogOf' = LogOf /\ UntoldOf' = UntoldOf
    BY <2>1, <2>2 DEF LogOf, Untold
  <2> QED
    BY <2>1, <2>3 DEF Log!logVars
<1>5. CASE CloseEvent
  <2>1. /\ incidentId # NoId /\ incidents[incidentId].ended # NoTime
        /\ UNCHANGED <<incidents, run, lost>> /\ incidentId' = NoId
        /\ incidentId \in 1..Len(incidents)
    BY <1>5, HeldRow DEF CloseEvent, OwnInv, Holding, history
  <2>2. LogOf' = LogOf /\ UntoldOf' = UntoldOf /\ LogOf[incidentId].ended # 0
    BY <2>1, LogFacts DEF LogOf, Untold, NoTime
  <2> QED
    BY <2>1, <2>2 DEF Log!Release, NoId
<1>6. CASE StorageRaises
  <2>1. /\ lost' = lost \cup AlertsLost /\ UNCHANGED <<incidents, incidentId, run>>
    BY <1>6 DEF StorageRaises, tables
  <2>2. LogOf' = LogOf
    BY <2>1 DEF LogOf
  <2>3. CASE pc = "alertUp"
    <3>1. /\ incidentId = 0 /\ Len(incidents) # 0 /\ incidents[Len(incidents)].run = run
          /\ incidents[Len(incidents)].ended # 0
      BY <1>0, <2>3 DEF OwnInv, OpenRowsOwned, RowsOf, NoId, NoTime
    <3>2. UntoldOf' = UntoldOf \cup {Len(incidents)}
      BY <1>0, <2>1, <2>3, <3>1 DEF AlertsLost, Untold
    <3>3. /\ Len(LogOf) = Len(incidents) /\ LogOf # <<>>
          /\ LogOf[Len(LogOf)].run = run /\ LogOf[Len(LogOf)].ended # 0
      BY <1>0, <3>1, LogFacts
    <3> QED
      BY <2>1, <2>2, <3>1, <3>2, <3>3 DEF Log!Lose
  <2>4. CASE pc # "alertUp"
    <3>1. UntoldOf' = UntoldOf
      BY <2>1, <2>4 DEF AlertsLost, Untold
    <3> QED
      BY <2>1, <2>2, <3>1 DEF Log!logVars
  <2> QED
    BY <2>3, <2>4
<1>7. CASE UNCHANGED <<incidents, incidentId, run, lost>>
  BY <1>7 DEF Log!logVars, LogOf, Untold
<1> QED
  BY <1>1, <1>2, <1>3, <1>4, <1>5, <1>6, <1>7
     DEF vars, Next, LoopStep, ProbeCore, OnReachable, OnUnreachable, OpenEvent, AlertDown,
         AlertUp, CheckLatency, SlowEvent, AlertSlow, WriteSample, Sleep, Supervise,
         Stop, detector, tables, history

\* The detector implements the abstract incident log, whatever the storage refuses
\* and whenever the process stops.
THEOREM DetectorImplementsLog == Spec => ImplementsLog
<1>1. Spec => [](TypeOK /\ OwnInv /\ TimeInv)
  BY Invariance
<1>2. (TypeOK /\ OwnInv /\ TimeInv) /\ (TypeOK /\ OwnInv /\ TimeInv)' /\ [Next]_vars
        => [Log!LogNext]_(Log!logVars)
  BY LogStep
<1> QED
  BY <1>1, <1>2, LogInitOk, PTL DEF Spec, ImplementsLog, Log!LogSpec

=============================================================================
