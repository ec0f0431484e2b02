--------------------------- MODULE NotifierProofs ---------------------------
(***************************************************************************)
(* What the limits of the notifier guarantee, for any number of callers,   *)
(* any titles and any value of the cap and of the windows: repeats stay    *)
(* apart, the cap holds, and silence has a cause.  With the detector as    *)
(* one of the callers, what its reader is left believing about Core.       *)
(***************************************************************************)
EXTENDS Alerting, FiniteSetTheorems, TLAPS

Numbers == 1..Len(admitted)

\* The clock never falls behind what was noted from it, and an alert falls in
\* the hour it was counted in.
ClockInv ==
  /\ hourStarted <= clock
  /\ \A i \in Numbers :
       /\ admitted[i].run <= run
       /\ 1 <= admitted[i].ts /\ admitted[i].ts <= clock
       /\ admitted[i].hour <= admitted[i].ts
       /\ admitted[i].ts < admitted[i].hour + Hour

\* What the notifier remembers covers every alert this run has admitted.
MemoryInv ==
  /\ hourCount <= MaxPerHour
  /\ \A i \in Numbers : admitted[i].run = run =>
       /\ admitted[i].ts <= recent[admitted[i].title]
       /\ \/ admitted[i].hour = hourStarted /\ i + hourCount > Len(admitted)
          \/ admitted[i].hour + Hour <= hourStarted

\* Of two alerts of a run, the later one is in a later hour, or they are fewer
\* than MaxPerHour apart.
OrderInv ==
  \A i, j \in Numbers : i < j =>
    /\ admitted[i].run <= admitted[j].run
    /\ admitted[i].run = admitted[j].run =>
         \/ admitted[i].hour + Hour <= admitted[j].hour
         \/ admitted[i].hour = admitted[j].hour /\ j < i + MaxPerHour

Inv == TypeOK /\ ClockInv /\ MemoryInv /\ OrderInv /\ RepeatsAreApart

-----------------------------------------------------------------------------

\* What the types say of the numbers the invariant compares.
Numeric ==
  /\ clock \in Nat \ {0} /\ run \in Nat
  /\ hourStarted \in Nat /\ hourCount \in Nat /\ Len(admitted) \in Nat
  /\ Hour \in Nat \ {0} /\ Dedupe \in Nat \ {0} /\ MaxPerHour \in Nat \ {0}
  /\ \A i \in Numbers : i \in Nat \ {0} /\ i <= Len(admitted)
  /\ \A i \in Nat : i >= 1 /\ i <= Len(admitted) => i \in Numbers
  /\ \A title \in Titles : recent[title] \in Nat
  /\ \A i \in Numbers :
       /\ admitted[i].run \in Nat /\ admitted[i].ts \in Nat
       /\ admitted[i].hour \in Nat /\ admitted[i].title \in Titles
       /\ admitted[i].critical \in BOOLEAN

\* A well-typed state has them.
LEMMA Fields == TypeOK => Numeric
<1> SUFFICES ASSUME TypeOK PROVE Numeric
  OBVIOUS
<1>1. Len(admitted) \in Nat /\ \A i \in Numbers : admitted[i] \in Admissions
  BY DEF TypeOK, Numbers
<1>2. \A a \in Admissions :
        /\ a.run \in Nat /\ a.ts \in Nat /\ a.hour \in Nat
        /\ a.title \in Titles /\ a.critical \in BOOLEAN
  BY DEF Admissions
<1> QED  BY <1>1, <1>2, NotifierAssumption DEF TypeOK, Numbers, Numeric

\* The state keeps its types.
LEMMA TypeStep == TypeOK /\ [Next]_vars => TypeOK'
<1> SUFFICES ASSUME TypeOK, [Next]_vars PROVE TypeOK'
  OBVIOUS
<1> USE NotifierAssumption DEF TypeOK
<1>1. CASE Tick
  BY <1>1 DEF Tick, limits
<1>2. CASE Restart
  BY <1>2 DEF Restart, NoTime
<1>3. ASSUME NEW t \in Tasks, Call(t) PROVE TypeOK'
  BY <1>3 DEF Call, limits
<1>4. ASSUME NEW t \in Tasks, Record(t) PROVE TypeOK'
  <2>1. pc' \in [Tasks -> {"idle", "record", "admit", "send"}]
    BY <1>4 DEF Record
  <2> QED  BY <1>4, <2>1 DEF Record, limits
<1>5. ASSUME NEW t \in Tasks, RecordFails(t) PROVE TypeOK'
  BY <1>5 DEF RecordFails, limits
<1>6. ASSUME NEW t \in Tasks, Admit(t) PROVE TypeOK'
  <2>1. alert[t] \in Alerts /\ alert[t].title \in Titles /\ alert[t].critical \in BOOLEAN
    BY DEF Alerts
  <2>2. HourNow \in Nat /\ CountNow \in Nat /\ SuppressedNow \in Nat
    BY DEF HourNow, CountNow, SuppressedNow
  <2>3. CASE Suppress(t)
    BY <1>6, <2>2, <2>3 DEF Admit, Suppress
  <2>4. CASE Accept(t)
    <3>1. [run |-> run, title |-> alert[t].title, critical |-> alert[t].critical,
           ts |-> clock, hour |-> HourNow] \in Admissions
      BY <2>1, <2>2 DEF Admissions
    <3>2. admitted' \in Seq(Admissions)
      BY <2>4, <3>1 DEF Accept
    <3> QED  BY <1>6, <2>1, <2>2, <2>4, <3>2 DEF Admit, Accept
  <2> QED  BY <1>6, <2>3, <2>4 DEF Admit
<1>7. ASSUME NEW t \in Tasks, Send(t) PROVE TypeOK'
  BY <1>7 DEF Send, limits
<1>8. CASE UNCHANGED vars
  BY <1>8 DEF vars, limits
<1> QED  BY <1>1, <1>2, <1>3, <1>4, <1>5, <1>6, <1>7, <1>8 DEF Next

\* The initial state satisfies the invariant.
LEMMA InitInv == Init => Inv
BY NotifierAssumption
   DEF Init, Inv, TypeOK, ClockInv, MemoryInv, OrderInv, RepeatsAreApart, Numbers,
       Alerts, Admissions, NoTime

\* A step that admits nothing, and leaves the limits alone, preserves it.
LEMMA QuietStep ==
  ASSUME Inv, TypeOK', UNCHANGED <<limits, admitted, run>>,
         clock' \in {clock, clock + 1}
  PROVE  Inv'
<1>0. /\ Numeric /\ Numbers' = Numbers /\ admitted' = admitted /\ run' = run
      /\ recent' = recent /\ hourStarted' = hourStarted /\ hourCount' = hourCount
  BY Fields DEF Inv, limits, Numbers
<1>1. ClockInv'
  BY <1>0 DEF Inv, ClockInv, Numeric
<1>2. MemoryInv' /\ OrderInv' /\ RepeatsAreApart'
  BY <1>0 DEF Inv, MemoryInv, OrderInv, RepeatsAreApart, Later
<1> QED  BY <1>1, <1>2 DEF Inv

\* A new run has admitted nothing yet.
LEMMA RestartStep == ASSUME Inv, TypeOK', Restart PROVE Inv'
<1>0. Numeric /\ Numbers' = Numbers /\ admitted' = admitted
  BY Fields DEF Inv, Restart, Numbers
<1>1. ClockInv'
  BY <1>0 DEF Inv, Numeric, ClockInv, Restart
<1>2. MemoryInv'
  BY <1>0 DEF Inv, Numeric, MemoryInv, ClockInv, Restart
<1>3. OrderInv' /\ RepeatsAreApart'
  BY <1>0 DEF Inv, OrderInv, RepeatsAreApart, Later, Restart
<1> QED  BY <1>1, <1>2, <1>3 DEF Inv

\* The hour as _admit sees it: it holds the clock, and the count covers the
\* alerts of this run that fall in it.
HourInv ==
  /\ HourNow \in Nat /\ CountNow \in Nat /\ CountNow <= MaxPerHour
  /\ HourNow <= clock /\ clock < HourNow + Hour
  /\ \A i \in Numbers : admitted[i].run = run =>
       \/ admitted[i].hour = HourNow /\ i + CountNow > Len(admitted)
       \/ admitted[i].hour + Hour <= HourNow

\* The invariant gives that, whether or not the hour is over.
LEMMA RollOver == Inv => HourInv
<1> SUFFICES ASSUME Inv PROVE HourInv
  OBVIOUS
<1>0. Numeric
  BY Fields DEF Inv
<1>1. CASE HourIsOver
  BY <1>0, <1>1 DEF Inv, Numeric, HourInv, HourNow, CountNow, HourIsOver, ClockInv, MemoryInv
<1>2. CASE ~HourIsOver
  BY <1>0, <1>2 DEF Inv, Numeric, HourInv, HourNow, CountNow, HourIsOver, ClockInv, MemoryInv
<1> QED  BY <1>1, <1>2

\* Suppressing an alert admits nothing, though the hour may roll over.
LEMMA SuppressStep ==
  ASSUME Inv, TypeOK', NEW t \in Tasks, Admit(t), Suppress(t) PROVE Inv'
<1>0. /\ Numeric /\ HourInv /\ Numbers' = Numbers /\ admitted' = admitted
      /\ recent' = recent /\ clock' = clock /\ run' = run
      /\ hourStarted' = HourNow /\ hourCount' = CountNow
  BY Fields, RollOver DEF Inv, Admit, Suppress, Numbers
<1>1. ClockInv'
  BY <1>0 DEF Inv, ClockInv, HourInv
<1>2. MemoryInv'
  BY <1>0 DEF Inv, MemoryInv, HourInv
<1>3. OrderInv' /\ RepeatsAreApart'
  BY <1>0 DEF Inv, OrderInv, RepeatsAreApart, Later
<1> QED  BY <1>1, <1>2, <1>3 DEF Inv

\* Admitting an alert.
LEMMA AcceptStep ==
  ASSUME Inv, TypeOK', NEW t \in Tasks, Admit(t), Accept(t),
         ~(Repeats(alert[t]) \/ CapIsReached)
  PROVE  Inv'
<1> DEFINE n == Len(admitted) + 1
           title == alert[t].title
           critical == alert[t].critical
<1>0. /\ Numeric /\ HourInv /\ CountNow < MaxPerHour
      /\ clock' = clock /\ run' = run
      /\ hourStarted' = HourNow /\ hourCount' = CountNow + 1
  BY Fields, RollOver DEF Inv, Admit, Accept, CapIsReached, HourInv, Numeric
<1>1. title \in Titles /\ critical \in BOOLEAN /\ recent \in [Titles -> Nat]
  BY DEF Inv, TypeOK, Alerts
<1>2. recent' = [recent EXCEPT ![title] = clock]
  BY DEF Accept
<1>3. /\ Len(admitted') = n
      /\ \A i \in Numbers : admitted'[i] = admitted[i]
      /\ admitted'[n] = [run |-> run, title |-> title, critical |-> critical,
                         ts |-> clock, hour |-> HourNow]
  BY DEF Accept, Numbers, Inv, TypeOK
<1>4. /\ n \in Nat \ {0} /\ n \in Numbers'
      /\ \A i \in Numbers : i # n /\ i \in Numbers'
      /\ \A i \in Numbers' : i # n => i \in Numbers
      /\ \A i, j \in Numbers' : i < j => i \in Numbers
  BY <1>0, <1>3 DEF Numbers, Numeric
<1>5. /\ admitted'[n].run = run /\ admitted'[n].title = title
      /\ admitted'[n].critical = critical /\ admitted'[n].ts = clock
      /\ admitted'[n].hour = HourNow
  BY <1>3
<1> HIDE DEF n, title, critical
<1>6. ClockInv'
  <2>1. ASSUME NEW i \in Numbers'
        PROVE  /\ admitted'[i].run <= run
               /\ 1 <= admitted'[i].ts /\ admitted'[i].ts <= clock
               /\ admitted'[i].hour <= admitted'[i].ts
               /\ admitted'[i].ts < admitted'[i].hour + Hour
    <3>1. CASE i = n
      BY <1>0, <1>5, <3>1 DEF HourInv, Numeric
    <3>2. CASE i # n
      BY <1>3, <1>4, <2>1, <3>2 DEF Inv, ClockInv
    <3> QED  BY <3>1, <3>2
  <2> QED  BY <1>0, <2>1 DEF ClockInv, HourInv
<1>7. MemoryInv'
  <2>1. ASSUME NEW i \in Numbers, admitted[i].run = run
        PROVE  /\ admitted[i].ts <= recent'[admitted[i].title]
               /\ \/ admitted[i].hour = HourNow /\ i + (CountNow + 1) > n
                  \/ admitted[i].hour + Hour <= HourNow
    <3>1. admitted[i].ts <= clock /\ admitted[i].ts <= recent[admitted[i].title]
      BY <1>0, <2>1 DEF Inv, MemoryInv, ClockInv, HourInv, Numeric
    <3>2. admitted[i].ts <= recent'[admitted[i].title]
      BY <1>0, <1>1, <1>2, <3>1 DEF Numeric
    <3> QED  BY <1>0, <2>1, <3>2 DEF HourInv, Numeric, n
  <2>2. clock <= recent'[title] /\ n + (CountNow + 1) > n
    BY <1>0, <1>1, <1>2, <1>4 DEF Numeric, HourInv
  <2>3. ASSUME NEW i \in Numbers', admitted'[i].run = run'
        PROVE  /\ admitted'[i].ts <= recent'[admitted'[i].title]
               /\ \/ admitted'[i].hour = hourStarted' /\ i + hourCount' > Len(admitted')
                  \/ admitted'[i].hour + Hour <= hourStarted'
    <3>1. CASE i = n
      BY <1>0, <1>3, <1>5, <2>2, <3>1
    <3>2. CASE i # n
      BY <1>0, <1>3, <1>4, <2>1, <2>3, <3>2
    <3> QED  BY <3>1, <3>2
  <2>4. hourCount' <= MaxPerHour
    BY <1>0 DEF HourInv, Numeric
  <2> QED  BY <2>3, <2>4 DEF MemoryInv
<1>8. OrderInv'
  <2>1. ASSUME NEW i \in Numbers
        PROVE  /\ admitted[i].run <= run
               /\ admitted[i].run = run =>
                    \/ admitted[i].hour + Hour <= HourNow
                    \/ admitted[i].hour = HourNow /\ n < i + MaxPerHour
    BY <1>0, <2>1 DEF Inv, ClockInv, HourInv, Numeric, n
  <2>2. ASSUME NEW i \in Numbers', NEW j \in Numbers', i < j
        PROVE  /\ admitted'[i].run <= admitted'[j].run
               /\ admitted'[i].run = admitted'[j].run =>
                    \/ admitted'[i].hour + Hour <= admitted'[j].hour
                    \/ admitted'[i].hour = admitted'[j].hour /\ j < i + MaxPerHour
    <3>1. i \in Numbers /\ admitted'[i] = admitted[i]
      BY <1>3, <1>4, <2>2
    <3>2. CASE j = n
      BY <1>5, <2>1, <3>1, <3>2
    <3>3. CASE j # n
      <4>1. j \in Numbers /\ admitted'[j] = admitted[j]
        BY <1>3, <1>4, <3>3
      <4> QED  BY <2>2, <3>1, <4>1 DEF Inv, OrderInv
    <3> QED  BY <3>2, <3>3
  <2> QED  BY <2>2 DEF OrderInv
<1>9. RepeatsAreApart'
  <2>1. ASSUME NEW i \in Numbers, admitted[i].run = run,
               admitted[i].title = title, ~critical
        PROVE  clock - admitted[i].ts >= Dedupe
    <3>1. 1 <= admitted[i].ts /\ admitted[i].ts <= recent[title]
      BY <2>1 DEF Inv, MemoryInv, ClockInv
    <3>2. recent[title] \in Nat /\ recent[title] # 0
      BY <1>0, <1>1, <2>1, <3>1 DEF Numeric
    <3>3. ~(clock - recent[title] < Dedupe)
      BY <2>1, <3>2 DEF Repeats, NoTime, title, critical
    <3> QED  BY <1>0, <2>1, <3>1, <3>2, <3>3 DEF Numeric
  <2>2. ASSUME NEW i \in Numbers', NEW j \in Numbers', i < j,
               admitted'[i].run = admitted'[j].run,
               admitted'[i].title = admitted'[j].title, ~admitted'[j].critical
        PROVE  admitted'[j].ts - admitted'[i].ts >= Dedupe
    <3>1. i \in Numbers /\ admitted'[i] = admitted[i]
      BY <1>3, <1>4, <2>2
    <3>2. CASE j = n
      BY <1>5, <2>1, <2>2, <3>1, <3>2
    <3>3. CASE j # n
      <4>1. j \in Numbers /\ admitted'[j] = admitted[j]
        BY <1>3, <1>4, <3>3
      <4> QED  BY <2>2, <3>1, <4>1 DEF Inv, RepeatsAreApart, Later, Numbers
    <3> QED  BY <3>2, <3>3
  <2> QED  BY <2>2 DEF RepeatsAreApart, Later, Numbers
<1> QED  BY <1>6, <1>7, <1>8, <1>9 DEF Inv

\* Every step preserves the invariant.
LEMMA InvStep == Inv /\ [Next]_vars => Inv'
<1> SUFFICES ASSUME Inv, [Next]_vars PROVE Inv'
  OBVIOUS
<1>0. TypeOK'
  BY TypeStep DEF Inv
<1>1. CASE Tick
  BY <1>0, <1>1, QuietStep DEF Tick
<1>2. CASE Restart
  BY <1>0, <1>2, RestartStep
<1>3. ASSUME NEW t \in Tasks, Call(t) \/ Record(t) \/ RecordFails(t) \/ Send(t)
      PROVE  Inv'
  BY <1>0, <1>3, QuietStep DEF Call, Record, RecordFails, Send
<1>4. ASSUME NEW t \in Tasks, Admit(t) PROVE Inv'
  BY <1>0, <1>4, SuppressStep, AcceptStep DEF Admit
<1>5. CASE UNCHANGED vars
  BY <1>0, <1>5, QuietStep DEF vars
<1> QED  BY <1>1, <1>2, <1>3, <1>4, <1>5 DEF Next

\* The state keeps its types.
THEOREM TypeCorrect == Spec => []TypeOK
<1>1. Init => TypeOK
  BY InitInv DEF Inv
<1> QED  BY <1>1, TypeStep, PTL DEF Spec

\* An alert that is not critical never repeats a title within the dedupe window,
\* whichever of the loops raise it.
THEOREM RepeatsStayApart == Spec => []RepeatsAreApart
<1>1. Inv => RepeatsAreApart
  BY DEF Inv
<1> QED  BY <1>1, InitInv, InvStep, PTL DEF Spec

\* An alert of the hour that begins at x and one of the second hour after it are
\* more than an hour apart.
LEMMA TwoHours ==
  ASSUME NEW a \in Nat, NEW x \in Nat, NEW y \in Nat, NEW z \in Nat,
         NEW b \in Nat, NEW h \in Nat,
         a < x + h, x + h <= y, y + h <= z, z <= b
  PROVE  b > a + h
OBVIOUS

\* In any hour of a run, at most twice the cap is admitted.
THEOREM CapIsKept == Spec => []CapHolds
<1>1. Inv => CapHolds
  <2> SUFFICES ASSUME Inv, NEW i \in Numbers,
                      i + 2 * MaxPerHour <= Len(admitted),
                      Later(i, i + 2 * MaxPerHour)
               PROVE  admitted[i + 2 * MaxPerHour].ts > admitted[i].ts + Hour
    BY DEF CapHolds, Numbers
  <2>0. Numeric
    BY Fields DEF Inv
  <2>1. PICK m \in Numbers, j \in Numbers :
          i < m /\ m = i + MaxPerHour /\ m < j /\ j = m + MaxPerHour /\ j = i + 2 * MaxPerHour
    BY <2>0 DEF Numeric
  <2>2. admitted[i].run <= admitted[m].run /\ admitted[m].run <= admitted[j].run
    BY <2>1 DEF Inv, OrderInv
  <2>3. admitted[i].run = admitted[m].run /\ admitted[m].run = admitted[j].run
    BY <2>0, <2>1, <2>2 DEF Later, Numeric
  <2>4. ~(m < i + MaxPerHour) /\ ~(j < m + MaxPerHour)
    BY <2>0, <2>1 DEF Numeric
  <2>5. /\ admitted[i].hour + Hour <= admitted[m].hour
        /\ admitted[m].hour + Hour <= admitted[j].hour
    BY <2>1, <2>3, <2>4 DEF Inv, OrderInv
  <2>6. admitted[i].ts < admitted[i].hour + Hour /\ admitted[j].hour <= admitted[j].ts
    BY <2>1 DEF Inv, ClockInv
  <2>7. admitted[j].ts > admitted[i].ts + Hour
    <3>1. /\ admitted[i].ts \in Nat /\ admitted[j].ts \in Nat
          /\ admitted[i].hour \in Nat /\ admitted[m].hour \in Nat
          /\ admitted[j].hour \in Nat /\ Hour \in Nat
      BY <2>0, <2>1 DEF Numeric
    <3> QED  BY <2>5, <2>6, <3>1, TwoHours
  <2> QED  BY <2>1, <2>7
<1> QED  BY <1>1, InitInv, InvStep, PTL DEF Spec

-----------------------------------------------------------------------------
(* Silence has a cause *)

\* What the notifier remembers is of alerts this run has admitted, the counter
\* of the last ones.
CauseInv ==
  /\ \A title \in Titles : recent[title] # NoTime =>
       \E i \in Numbers : /\ admitted[i].run = run /\ admitted[i].title = title
                          /\ admitted[i].ts = recent[title]
  /\ hourCount <= Len(admitted)
  /\ \A i \in Numbers : i + hourCount > Len(admitted) =>
       admitted[i].run = run /\ admitted[i].hour = hourStarted

\* Why an alert is suppressed.
Repeated(title) ==
  \E i \in Numbers : /\ admitted[i].run = run /\ admitted[i].title = title
                     /\ admitted[i].ts <= clock /\ clock - admitted[i].ts < Dedupe

Crowded ==
  /\ Len(admitted) >= MaxPerHour
  /\ \A i \in (Len(admitted) - MaxPerHour + 1)..Len(admitted) :
       /\ i \in Numbers /\ admitted[i].run = run
       /\ admitted[i].ts <= clock /\ clock - admitted[i].ts < Hour

\* An alert that may be suppressed has one of the two causes, and only one that is
\* not critical the first.
LEMMA CauseOfSilence ==
  ASSUME Inv, CauseInv, NEW t \in Tasks, Repeats(alert[t]) \/ CapIsReached
  PROVE  (~alert[t].critical /\ Repeated(alert[t].title)) \/ Crowded
<1>0. Numeric /\ alert[t].title \in Titles
  BY Fields DEF Inv, TypeOK, Alerts
<1>1. CASE Repeats(alert[t])
  <2>1. PICK i \in Numbers : /\ admitted[i].run = run /\ admitted[i].title = alert[t].title
                             /\ admitted[i].ts = recent[alert[t].title]
    BY <1>0, <1>1 DEF CauseInv, Repeats
  <2>2. admitted[i].ts <= clock
    BY <2>1 DEF Inv, ClockInv
  <2> QED  BY <1>1, <2>1, <2>2 DEF Repeats, Repeated
<1>2. CASE CapIsReached
  <2>1. ~HourIsOver /\ hourCount >= MaxPerHour
    BY <1>0, <1>2 DEF CapIsReached, CountNow, Numeric
  <2>2. Len(admitted) >= MaxPerHour /\ hourStarted <= clock /\ clock - hourStarted < Hour
    BY <1>0, <2>1 DEF CauseInv, Inv, ClockInv, HourIsOver, Numeric
  <2>3. ASSUME NEW i \in (Len(admitted) - MaxPerHour + 1)..Len(admitted)
        PROVE  /\ i \in Numbers /\ admitted[i].run = run
               /\ admitted[i].ts <= clock /\ clock - admitted[i].ts < Hour
    <3>1. i \in Numbers /\ i + hourCount > Len(admitted)
      BY <1>0, <2>1, <2>2 DEF Numeric, Numbers
    <3>2. /\ admitted[i].run = run /\ admitted[i].hour = hourStarted
          /\ admitted[i].hour <= admitted[i].ts /\ admitted[i].ts <= clock
      BY <3>1 DEF CauseInv, Inv, ClockInv
    <3> QED  BY <1>0, <2>2, <3>1, <3>2 DEF Numeric
  <2> QED  BY <2>2, <2>3 DEF Crowded
<1> QED  BY <1>1, <1>2

\* Nothing is remembered at first.
LEMMA CauseInit == Init => CauseInv
BY DEF Init, CauseInv, NoTime, Numbers

\* An alert that is admitted is remembered with its time, and it is the last.
LEMMA AcceptCause ==
  ASSUME Inv, CauseInv, NEW t \in Tasks, Admit(t), Accept(t) PROVE CauseInv'
<1> DEFINE n == Len(admitted) + 1
           title == alert[t].title
<1>0. /\ Numeric /\ HourInv /\ run' = run
      /\ hourStarted' = HourNow /\ hourCount' = CountNow + 1
  BY Fields, RollOver DEF Inv, Admit, Accept
<1>1. title \in Titles /\ recent' = [recent EXCEPT ![title] = clock]
      /\ recent \in [Titles -> Nat]
  BY DEF Inv, TypeOK, Alerts, Accept
<1>2. /\ Len(admitted') = n
      /\ \A i \in Numbers : admitted'[i] = admitted[i]
      /\ admitted'[n] = [run |-> run, title |-> title, critical |-> alert[t].critical,
                         ts |-> clock, hour |-> HourNow]
  BY DEF Accept, Numbers, Inv, TypeOK
<1>3. /\ n \in Nat \ {0} /\ n \in Numbers' /\ n > Len(admitted)
      /\ \A i \in Numbers : i \in Numbers'
      /\ \A i \in Numbers' : i # n => i \in Numbers
  BY <1>0, <1>2 DEF Numbers, Numeric
<1>4. /\ admitted'[n].run = run /\ admitted'[n].title = title
      /\ admitted'[n].ts = clock /\ admitted'[n].hour = HourNow
  BY <1>2
<1> HIDE DEF title
<1>5. ASSUME NEW x \in Titles, recent'[x] # NoTime
      PROVE  \E i \in Numbers' : /\ admitted'[i].run = run' /\ admitted'[i].title = x
                                 /\ admitted'[i].ts = recent'[x]
  <2>1. CASE x = title
    BY <1>0, <1>1, <1>3, <1>4, <2>1
  <2>2. CASE x # title
    <3>1. recent'[x] = recent[x]
      BY <1>1, <2>2
    <3>2. PICK i \in Numbers : /\ admitted[i].run = run /\ admitted[i].title = x
                               /\ admitted[i].ts = recent[x]
      BY <1>5, <3>1 DEF CauseInv
    <3> QED  BY <1>0, <1>2, <1>3, <3>1, <3>2
  <2> QED  BY <2>1, <2>2
<1>6. CountNow <= Len(admitted) /\ \A i \in Numbers : i + CountNow > Len(admitted) =>
        admitted[i].run = run /\ admitted[i].hour = HourNow
  <2>1. CASE HourIsOver
    BY <1>0, <2>1 DEF CountNow, Numeric
  <2>2. CASE ~HourIsOver
    BY <2>2 DEF CountNow, HourNow, CauseInv
  <2> QED  BY <2>1, <2>2
<1>7. hourCount' <= Len(admitted')
  BY <1>0, <1>2, <1>6 DEF HourInv, Numeric
<1>8. ASSUME NEW i \in Numbers', i + hourCount' > Len(admitted')
      PROVE  admitted'[i].run = run' /\ admitted'[i].hour = hourStarted'
  <2>1. CASE i = n
    BY <1>0, <1>4, <2>1
  <2>2. CASE i # n
    <3>1. i \in Numbers /\ admitted'[i] = admitted[i] /\ i + CountNow > Len(admitted)
      BY <1>0, <1>2, <1>3, <1>8, <2>2 DEF HourInv, Numeric
    <3> QED  BY <1>0, <1>6, <3>1
  <2> QED  BY <2>1, <2>2
<1> QED  BY <1>5, <1>7, <1>8 DEF CauseInv

\* Every step keeps what is remembered.
LEMMA CauseStep == ASSUME Inv, CauseInv, [Next]_vars PROVE CauseInv'
<1>0. Numeric
  BY Fields DEF Inv
<1>1. ASSUME UNCHANGED <<run, admitted, recent, hourStarted, hourCount>> PROVE CauseInv'
  BY <1>1 DEF CauseInv, Numbers
<1>2. CASE Tick
  BY <1>1, <1>2 DEF Tick, limits
<1>3. CASE Restart
  BY <1>0, <1>3 DEF Restart, CauseInv, Numbers, Numeric
<1>4. ASSUME NEW t \in Tasks, Call(t) \/ Record(t) \/ RecordFails(t) \/ Send(t)
      PROVE  CauseInv'
  BY <1>1, <1>4 DEF Call, Record, RecordFails, Send, limits
<1>5. ASSUME NEW t \in Tasks, Admit(t) PROVE CauseInv'
  <2>1. CASE Accept(t)
    BY <1>5, <2>1, AcceptCause
  <2>2. CASE Suppress(t)
    <3>1. /\ UNCHANGED <<run, admitted, recent>>
          /\ hourStarted' = HourNow /\ hourCount' = CountNow
      BY <1>5, <2>2 DEF Admit, Suppress
    <3>2. CASE HourIsOver
      BY <1>0, <3>1, <3>2 DEF CauseInv, CountNow, Numbers, Numeric
    <3>3. CASE ~HourIsOver
      BY <1>1, <3>1, <3>3 DEF CountNow, HourNow
    <3> QED  BY <3>2, <3>3
  <2> QED  BY <1>5, <2>1, <2>2 DEF Admit
<1>6. CASE UNCHANGED vars
  BY <1>1, <1>6 DEF vars, limits
<1> QED  BY <1>2, <1>3, <1>4, <1>5, <1>6 DEF Next

\* An alert is suppressed only on account of alerts that were admitted, by this
\* run and recently: silence does not prolong itself.
THEOREM SilenceHasCause == Spec => SuppressedForCause
<1> DEFINE Caused ==
      \A t \in Tasks :
        (pc[t] = "admit" /\ pc'[t] = "idle" /\ run' = run) =>
          \/ \E i \in 1..Len(admitted) :
               /\ admitted[i].run = run /\ admitted[i].title = alert[t].title
               /\ clock - admitted[i].ts < Dedupe
          \/ /\ Len(admitted) >= MaxPerHour
             /\ \A i \in (Len(admitted) - MaxPerHour + 1)..Len(admitted) :
                  admitted[i].run = run /\ clock - admitted[i].ts < Hour
<1>1. ASSUME Inv, CauseInv, [Next]_vars PROVE [Caused]_vars
  <2> SUFFICES ASSUME NEW t \in Tasks, pc[t] = "admit", pc'[t] = "idle", run' = run
               PROVE  Repeated(alert[t].title) \/ Crowded
    BY DEF Repeated, Crowded, Numbers
  <2>0. pc \in [Tasks -> {"idle", "record", "admit", "send"}] /\ run \in Nat
    BY <1>1 DEF Inv, TypeOK
  <2>1. ~Tick /\ ~Restart /\ ~UNCHANGED vars
    BY <2>0 DEF Tick, Restart, vars
  <2>2. \A x \in Tasks : ~Call(x) /\ ~Record(x) /\ ~RecordFails(x) /\ ~Send(x)
    BY <2>0 DEF Call, Record, RecordFails, Send
  <2>3. PICK x \in Tasks : Admit(x)
    BY <1>1, <2>1, <2>2 DEF Next
  <2>4. x = t /\ ~Accept(t)
    BY <2>0, <2>3 DEF Admit, Suppress, Accept
  <2>5. Repeats(alert[t]) \/ CapIsReached
    BY <2>3, <2>4 DEF Admit
  <2> QED  BY <1>1, <2>5, CauseOfSilence
<1>2. Init => Inv /\ CauseInv
  BY InitInv, CauseInit
<1>3. Inv /\ CauseInv /\ [Next]_vars => (Inv /\ CauseInv)'
  BY InvStep, CauseStep
<1>4. Inv /\ CauseInv /\ [Next]_vars => [Caused]_vars
  BY <1>1
<1> QED  BY <1>2, <1>3, <1>4, PTL DEF Spec, SuppressedForCause

-----------------------------------------------------------------------------
(* The last word about Core *)

\* The alert under way tells of the turn the incident has just taken, and is not
\* decided until it is admitted or suppressed.
WordInv ==
  /\ open \in BOOLEAN /\ decided \in Nat /\ fate \in Fates
  /\ pc[Detector] # "idle" =>
       alert[Detector] = [title |-> IF open THEN Down ELSE Up, critical |-> open]
  /\ pc[Detector] \in {"record", "admit"} => decided = NoTime
  /\ LastWordIsTrue

AllInv == Inv /\ CauseInv /\ WordInv

\* The detector and the other loops are callers like any.
LEMMA AlertingStep == [AlertingNext]_<<vars, core>> => [Next]_vars
BY AlertingAssumption
   DEF AlertingNext, Turn, NewRun, OtherCall, Decide, Deliver, Next

LEMMA AlertingStart == AlertingInit => AllInv
<1> SUFFICES ASSUME AlertingInit PROVE AllInv
  OBVIOUS
<1>1. Inv /\ CauseInv
  BY InitInv, CauseInit DEF AlertingInit
<1>2. WordInv
  BY AlertingAssumption DEF AlertingInit, Init, WordInv, LastWordIsTrue, NoTime, Fates
<1> QED  BY <1>1, <1>2 DEF AllInv

\* MaxPerHour alerts in a row are MaxPerHour alerts.
LEMMA CrowdCounted ==
  ASSUME Numeric, NEW A, A = (Len(admitted) - MaxPerHour + 1)..Len(admitted),
         Len(admitted) >= MaxPerHour, NEW B \in SUBSET Numbers, A \subseteq B
  PROVE  Cardinality(B) >= MaxPerHour
<1>1. Len(admitted) \in Nat /\ MaxPerHour \in Nat \ {0}
  BY DEF Numeric
<1>2. IsFiniteSet(Numbers)
  BY <1>1, FS_Interval DEF Numbers
<1>3. IsFiniteSet(B) /\ Cardinality(B) \in Nat
  BY <1>2, FS_Subset, FS_CardinalityType
<1>4. Cardinality(A) = MaxPerHour
  BY <1>1, FS_Interval
<1>5. Cardinality(A) <= Cardinality(B)
  BY <1>3, FS_Subset
<1> QED  BY <1>1, <1>3, <1>4, <1>5

\* The alerts that excuse a wrong word excuse it for good.
LEMMA ExcusesStay ==
  ASSUME TypeOK, LastWordIsTrue, UNCHANGED <<open, word, decided, fate, run>>,
         pc'[Detector] = "idle" => pc[Detector] = "idle",
         \/ admitted' = admitted
         \/ \E a \in Admissions : admitted' = Append(admitted, a)
  PROVE  LastWordIsTrue'
<1> DEFINE Crowd == {i \in 1 .. Len(admitted) : Recent(i, Hour)}
<1>1. /\ Len(admitted) \in Nat /\ Len(admitted') \in Nat
      /\ \A i \in Numbers : i \in Numbers' /\ admitted'[i] = admitted[i]
  BY DEF TypeOK, Numbers
<1>2. Crowd \subseteq Crowd'
  BY <1>1 DEF Recent, Numbers
<1>3. IsFiniteSet(Crowd')
  <2>1. IsFiniteSet(1 .. Len(admitted'))
    BY <1>1, FS_Interval
  <2> QED  BY <2>1, FS_Subset
<1>4. /\ Cardinality(Crowd) <= Cardinality(Crowd')
      /\ Cardinality(Crowd) \in Nat /\ Cardinality(Crowd') \in Nat
  BY <1>2, <1>3, FS_Subset, FS_CardinalityType
<1>5. Cardinality(Crowd) >= MaxPerHour => Cardinality(Crowd') >= MaxPerHour
  BY <1>4, NotifierAssumption
<1>6. ASSUME NEW i \in Numbers, admitted[i].title = Up, Recent(i, Dedupe)
      PROVE  i \in Numbers' /\ admitted'[i].title = Up /\ Recent(i, Dedupe)'
  BY <1>1, <1>6 DEF Recent
<1> HIDE DEF Crowd
<1> QED  BY <1>5, <1>6 DEF LastWordIsTrue, Numbers, Crowd

\* When the detector's alert is suppressed, there is an excuse for it.
LEMMA SuppressedExcused ==
  ASSUME Inv, CauseInv, WordInv, Decide(Detector), ~Accept(Detector)
  PROVE  LastWordIsTrue'
<1> USE AlertingAssumption
<1>0. /\ Numeric /\ UNCHANGED <<clock, run, alert, open, word>>
      /\ decided' = clock /\ admitted' = admitted
      /\ fate' = "suppressed" /\ pc'[Detector] = "idle"
  BY Fields DEF Decide, Admit, Suppress, Inv, TypeOK
<1>1. alert[Detector].critical = open /\ (~open => alert[Detector].title = Up)
  BY DEF WordInv, Decide, Admit
<1>2. (~alert[Detector].critical /\ Repeated(alert[Detector].title)) \/ Crowded
  BY CauseOfSilence DEF Decide, Admit
<1>3. CASE ~alert[Detector].critical /\ Repeated(alert[Detector].title)
  <2>1. ~open' /\ \E i \in 1 .. Len(admitted') :
                    admitted'[i].title = Up /\ Recent(i, Dedupe)'
    BY <1>0, <1>1, <1>3 DEF Repeated, Numbers, Recent
  <2> QED  BY <1>0, <2>1 DEF LastWordIsTrue
<1>4. CASE Crowded
  <2> DEFINE A == (Len(admitted) - MaxPerHour + 1)..Len(admitted)
             B == {i \in 1 .. Len(admitted') : Recent(i, Hour)'}
  <2>1. A \subseteq B /\ B \in SUBSET Numbers /\ Len(admitted) >= MaxPerHour
    BY <1>0, <1>4 DEF Crowded, Recent, Numbers
  <2>2. Cardinality(B) >= MaxPerHour
    <3> HIDE DEF B
    <3> QED  BY <1>0, <2>1, CrowdCounted
  <2> QED  BY <1>0, <2>2 DEF LastWordIsTrue
<1> QED  BY <1>2, <1>3, <1>4

\* Every step keeps the detector's word.
LEMMA WordStep ==
  ASSUME AllInv, TypeOK', [AlertingNext]_<<vars, core>> PROVE WordInv'
<1> USE AlertingAssumption DEF AllInv
<1>0. /\ pc \in [Tasks -> {"idle", "record", "admit", "send"}]
      /\ pc' \in [Tasks -> {"idle", "record", "admit", "send"}]
      /\ alert \in [Tasks -> Alerts] /\ clock \in Nat
  BY DEF Inv, TypeOK
<1>1. ASSUME UNCHANGED <<core, run, admitted>>, alert'[Detector] = alert[Detector],
             pc'[Detector] = pc[Detector]
      PROVE  WordInv'
  BY <1>1, ExcusesStay DEF Inv, WordInv, core
<1>2. CASE Turn
  <2>1. /\ open' = ~open /\ decided' = NoTime /\ fate' = "none"
        /\ pc'[Detector] = "record"
        /\ alert'[Detector] = [title |-> IF open THEN Up ELSE Down, critical |-> ~open]
    BY <1>0, <1>2 DEF Turn, Call
  <2> QED  BY <2>1 DEF WordInv, LastWordIsTrue, NoTime, Fates
<1>3. CASE NewRun
  BY <1>0, <1>3 DEF NewRun, Restart, WordInv, LastWordIsTrue, NoTime, Fates
<1>4. CASE Tick /\ UNCHANGED core
  BY <1>1, <1>4 DEF Tick
<1>5. ASSUME NEW t \in Tasks, OtherCall(t) PROVE WordInv'
  BY <1>0, <1>1, <1>5 DEF OtherCall, Call
<1>6. ASSUME NEW t \in Tasks, (Record(t) \/ RecordFails(t)) /\ UNCHANGED core PROVE WordInv'
  <2>1. CASE t = Detector
    <3>1. /\ decided = NoTime /\ UNCHANGED <<core, alert>>
          /\ pc'[Detector] \in {"admit", "idle"}
      BY <1>0, <1>6, <2>1 DEF Record, RecordFails, WordInv
    <3> QED  BY <1>0, <1>6, <2>1, <3>1 DEF Record, RecordFails, WordInv, LastWordIsTrue, core
  <2>2. CASE t # Detector
    BY <1>0, <1>1, <1>6, <2>2 DEF Record, RecordFails
  <2> QED  BY <2>1, <2>2
<1>7. ASSUME NEW t \in Tasks, Decide(t) PROVE WordInv'
  <2>1. CASE t # Detector
    <3>1. /\ UNCHANGED <<open, word, decided, fate, run>> /\ alert' = alert
          /\ pc'[Detector] = pc[Detector]
      BY <1>0, <1>7, <2>1 DEF Decide, Admit, Suppress, Accept
    <3>2. \/ admitted' = admitted
          \/ \E a \in Admissions : admitted' = Append(admitted, a)
      <4>1. HourNow \in Nat /\ run \in Nat /\ clock \in Nat /\ alert[t] \in Alerts
        BY RollOver DEF HourInv, Inv, TypeOK
      <4>2. [run |-> run, title |-> alert[t].title, critical |-> alert[t].critical,
             ts |-> clock, hour |-> HourNow] \in Admissions
        BY <4>1 DEF Admissions, Alerts
      <4> QED  BY <1>7, <4>2 DEF Decide, Admit, Suppress, Accept
    <3> QED  BY <3>1, <3>2, ExcusesStay DEF Inv, WordInv
  <2>2. CASE t = Detector /\ Accept(Detector)
    BY <1>0, <1>7, <2>2 DEF Decide, Admit, Accept, WordInv, LastWordIsTrue, Fates
  <2>3. CASE t = Detector /\ ~Accept(Detector)
    <3>1. LastWordIsTrue'
      BY <1>7, <2>3, SuppressedExcused
    <3>2. /\ pc'[Detector] = "idle" /\ open' = open /\ decided' = clock
          /\ fate' = "suppressed"
      BY <1>0, <1>7, <2>3 DEF Decide, Admit, Suppress
    <3> QED  BY <1>0, <3>1, <3>2 DEF WordInv, Fates
  <2> QED  BY <2>1, <2>2, <2>3
<1>8. ASSUME NEW t \in Tasks, Deliver(t) PROVE WordInv'
  <2>1. CASE t = Detector
    <3>1. /\ pc'[Detector] = "idle" /\ UNCHANGED <<open, decided>>
          /\ \/ word' = (IF open THEN Down ELSE Up) /\ UNCHANGED fate
             \/ fate' = "missed"
      BY <1>0, <1>8, <2>1 DEF Deliver, Send, WordInv
    <3> QED  BY <3>1 DEF WordInv, LastWordIsTrue, Fates
  <2>2. CASE t # Detector
    BY <1>0, <1>1, <1>8, <2>2 DEF Deliver, Send, core
  <2> QED  BY <2>1, <2>2
<1>9. CASE UNCHANGED <<vars, core>>
  BY <1>1, <1>9 DEF vars
<1> QED  BY <1>2, <1>3, <1>4, <1>5, <1>6, <1>7, <1>8, <1>9 DEF AlertingNext

\* The system of detector and notifier is one of the notifier's.
LEMMA AlertingIsNotifier == AlertingSpec => Spec
<1>1. AlertingInit => Init
  BY DEF AlertingInit
<1> QED  BY <1>1, AlertingStep, PTL DEF AlertingSpec, Spec

\* When the detector has nothing under way, the reader's last word about Core is
\* true, unless the alert that would have corrected it was admitted and reached
\* nobody, was suppressed as the hour's alerts are used up, or Core has recovered twice in a row
\* within the dedupe window; whatever the other loops have to say and whatever
\* the storage refuses.
THEOREM LastWordStaysTrue == AlertingSpec => []LastWordIsTrue
<1>1. AllInv /\ [AlertingNext]_<<vars, core>> => AllInv'
  <2> SUFFICES ASSUME AllInv, [AlertingNext]_<<vars, core>> PROVE AllInv'
    OBVIOUS
  <2>1. Inv' /\ CauseInv'
    BY AlertingStep, InvStep, CauseStep DEF AllInv
  <2>2. WordInv'
    BY <2>1, WordStep DEF Inv
  <2> QED  BY <2>1, <2>2 DEF AllInv
<1>2. AllInv => LastWordIsTrue
  BY DEF AllInv, WordInv
<1> QED  BY <1>1, <1>2, AlertingStart, PTL DEF AlertingSpec

=============================================================================
