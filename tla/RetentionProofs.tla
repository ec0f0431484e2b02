---------------------------- MODULE RetentionProofs ----------------------------
(***************************************************************************)
(* For any periods of retention that leave a pass the time it takes, any   *)
(* number of loops, faults and passes, and samples however late: none is   *)
(* lost between the two tables, and no row is replaced by a poorer one.    *)
(***************************************************************************)
EXTENDS Retention, TLAPS

\* A raw sample is kept for two minutes and a pass, and the first watermark is
\* synced before the window of the first rollup is over.
InTime ==
  /\ RawKeep >= 2 * Minute + MaxPass
  /\ FirstWindow >= MaxFirst

\* A sample is raw or too old for that, and is counted, too old or late.
Accounted(s, d, t, l) ==
  /\ s \in d.raw \/ s.ts + RawKeep < t
  /\ \/ Bucket(s) + RollupKeep < t
     \/ s.ts < d.last /\ s \in d.rolled
     \/ s.ts >= d.last /\ s \in d.raw
     \/ s \in l

\* What holds of each view of the database at time t, with the samples l late.
Good(d, t, l) ==
  /\ d \in Databases /\ d.last % Minute = 0 /\ d.last + Minute <= t
  /\ \A s \in d.raw : StartTime <= s.ts
  /\ \A s \in d.rolled : Bucket(s) + 2 * Minute <= t /\ (s.ts >= d.last => s \in d.raw)
  /\ \A s \in d.written : Accounted(s, d, t, l)

\* A row of d is in e too, or it was purged for good: what is still to be folded
\* is of other minutes.
Grown(d, e) ==
  \A s \in d.rolled : s \in e.rolled \/ (s.ts < e.last /\ ~SameRow(s, e.rolled))

\* The views never run ahead of one another, and the window of the first rollup
\* is open as long as a rollup can be the first.
ViewsInv ==
  /\ Good(conn, clock, late) /\ Good(disk, clock, late) /\ Good(durable, clock, late)
  /\ Grown(disk, conn)
  /\ durable.last <= disk.last /\ disk.last <= conn.last
  /\ durable.written \subseteq disk.written /\ disk.written \subseteq conn.written
  /\ durable.last = 0 => clock <= StartTime + MaxFirst

\* A sample in hand has not been inserted yet.
HandsInv ==
  \A m \in Metrics : taken[m] # NoSample =>
    StartTime <= taken[m] /\ [ts |-> taken[m], metric |-> m] \notin conn.written

\* The pass ends at a minute that is over.  What the rollup is about to mark as
\* folded is folded, or late.
PassInv ==
  /\ task # "idle" => /\ now <= clock /\ clock <= now + MaxPass
                      /\ end + Minute <= now /\ now < end + 2 * Minute
                      /\ end % Minute = 0
                      /\ \A s \in conn.rolled : s.ts < end
  /\ task \in {"insert", "mark"} => conn.last < end
  /\ task = "purge" => end <= conn.last
  /\ task = "mark" =>
       \A s \in conn.raw : conn.last <= s.ts /\ s.ts < end => s \in conn.rolled \/ s \in late

Types ==
  /\ clock \in Nat /\ StartTime <= clock /\ count \in Nat /\ faults \in Nat
  /\ taken \in [Metrics -> Nat]
  /\ task \in {"idle", "insert", "mark", "purge"}
  /\ now \in Nat /\ end \in Nat /\ late \subseteq Samples

Inv == Types /\ ViewsInv /\ HandsInv /\ PassInv

-----------------------------------------------------------------------------
(* Minutes *)

\* Rounding down to a multiple of n.
LEMMA RoundDown ==
  ASSUME NEW t \in Nat, NEW n \in Nat \ {0}
  PROVE  /\ (t \div n) * n \in Nat /\ (t \div n) * n <= t /\ t < (t \div n) * n + n
         /\ ((t \div n) * n) % n = 0
<1> DEFINE q == t \div n
<1>1. q \in Nat /\ t = n * q + (t % n) /\ t % n \in 0 .. n - 1
  OBVIOUS
<1>2. q * n \in Nat /\ q * n = n * q
  BY <1>1
<1> HIDE DEF q
<1>3. (q * n) % n = 0
  BY <1>1, <1>2
<1>4. q * n <= t /\ t < q * n + n
  BY <1>1, <1>2
<1> QED
  BY <1>2, <1>3, <1>4 DEF q

\* No multiple of n lies between a number and what it is rounded down to.
LEMMA NoneBetween ==
  ASSUME NEW n \in Nat \ {0}, NEW t \in Nat, NEW b \in Nat, b % n = 0, b <= t
  PROVE  b <= (t \div n) * n
<1> DEFINE k == b \div n
           q == t \div n
<1>1. k \in Nat /\ b = n * k /\ q \in Nat /\ t = n * q + (t % n) /\ t % n \in 0 .. n - 1
  OBVIOUS
<1> HIDE DEF k, q
<1>2. ~(k >= q + 1)
  <2> SUFFICES ASSUME k >= q + 1 PROVE FALSE
    OBVIOUS
  <2>1. n * k >= n * (q + 1)
    BY <1>1
  <2> QED
    BY <1>1, <2>1
<1>3. n * k <= n * q
  BY <1>1, <1>2
<1> QED
  BY <1>1, <1>3 DEF q

LEMMA NextMultiple ==
  ASSUME NEW n \in Nat \ {0}, NEW t \in Nat, NEW b \in Nat, b % n = 0, t < b
  PROVE  (t \div n) * n + n <= b
<1> DEFINE k == b \div n
           q == t \div n
<1>1. k \in Nat /\ b = n * k /\ q \in Nat /\ t = n * q + (t % n) /\ t % n \in 0 .. n - 1
  OBVIOUS
<1> HIDE DEF k, q
<1>2. ~(k <= q)
  <2> SUFFICES ASSUME k <= q PROVE FALSE
    OBVIOUS
  <2>1. n * k <= n * q
    BY <1>1
  <2> QED
    BY <1>1, <2>1
<1>3. n * (q + 1) <= n * k
  BY <1>1, <1>2
<1>4. n * (q + 1) = q * n + n
  BY <1>1
<1> QED
  BY <1>1, <1>3, <1>4 DEF q

\* The minute of a sample, and the end of the minutes that are over.
LEMMA BucketBelow ==
  ASSUME NEW s, s.ts \in Nat
  PROVE  Bucket(s) \in Nat /\ Bucket(s) <= s.ts
  BY RoundDown, RetentionAssumption DEF Bucket

LEMMA EndFacts ==
  ASSUME NEW t \in Nat, StartTime <= t
  PROVE  /\ End(t) \in Nat /\ End(t) % Minute = 0
         /\ End(t) + Minute <= t /\ t < End(t) + 2 * Minute
<1>1. t - Minute \in Nat /\ Minute \in Nat \ {0}
  BY RetentionAssumption
<1>2. /\ End(t) \in Nat /\ End(t) % Minute = 0
      /\ End(t) <= t - Minute /\ t - Minute < End(t) + Minute
  BY <1>1, RoundDown DEF End
<1> QED
  BY <1>1, <1>2

\* A minute with a sample before b has ended by b, and one that ended a minute ago
\* is over for the rollup.
LEMMA BucketEnds ==
  ASSUME NEW s, s.ts \in Nat, NEW b \in Nat, b % Minute = 0, s.ts < b
  PROVE  Bucket(s) + Minute <= b
  BY NextMultiple, RetentionAssumption DEF Bucket

LEMMA OverByEnd ==
  ASSUME NEW s, s.ts \in Nat, NEW t \in Nat, StartTime <= t, Bucket(s) + 2 * Minute <= t
  PROVE  s.ts < End(t)
<1>1. /\ End(t) \in Nat /\ End(t) % Minute = 0 /\ t < End(t) + 2 * Minute
      /\ Bucket(s) \in Nat /\ Bucket(s) <= s.ts
  BY EndFacts, BucketBelow
<1>2. ~(End(t) <= s.ts)
  <2> SUFFICES ASSUME End(t) <= s.ts PROVE FALSE
    BY <1>1
  <2>1. End(t) <= Bucket(s)
    BY <1>1, NoneBetween, RetentionAssumption DEF Bucket
  <2> QED
    BY <1>1, <2>1, RetentionAssumption
<1> QED
  BY <1>1, <1>2

\* Samples of a row lie on the same side of the watermark.
LEMMA SameSide ==
  ASSUME NEW s, NEW t, s.ts \in Nat, t.ts \in Nat, NEW b \in Nat, b % Minute = 0,
         Bucket(s) = Bucket(t), b <= t.ts
  PROVE  b <= s.ts
<1>1. b <= Bucket(t)
  BY NoneBetween, RetentionAssumption DEF Bucket
<1> QED
  BY <1>1, BucketBelow

-----------------------------------------------------------------------------
(* The views *)

LEMMA Members ==
  ASSUME NEW d \in Databases
  PROVE  /\ d.last \in Nat
         /\ \A s \in d.raw \cup d.rolled \cup d.written : s \in Samples /\ s.ts \in Nat
  BY DEF Databases, Samples

\* Time only makes samples older, and more of them late.
LEMMA GoodLater ==
  ASSUME NEW t \in Nat, NEW d, NEW l, Good(d, t, l)
  PROVE  Good(d, t + 1, l)
<1>1. d.last \in Nat /\ \A s \in d.written : s.ts \in Nat
  BY Members DEF Good
<1>2. \A s \in d.written \cup d.rolled : Bucket(s) \in Nat
  BY Members, BucketBelow DEF Good
<1> QED
  BY <1>1, <1>2, RetentionAssumption DEF Good, Accounted

LEMMA GoodLate ==
  ASSUME NEW t, NEW d, NEW l, NEW k, l \subseteq k, Good(d, t, l)
  PROVE  Good(d, t, k)
  BY DEF Good, Accounted

\* A sample that is inserted is ahead of the watermark and of the pass, or late.
LEMMA InsertedGood ==
  ASSUME Inv, NEW m \in Metrics, taken[m] # NoSample, conn' = Inserted(m)
  PROVE  /\ Good(Inserted(m), clock, late \cup LateNow)
         /\ Inserted(m).last = conn.last /\ Grown(disk, Inserted(m))
         /\ Inserted(m).rolled = conn.rolled
         /\ \A s \in Inserted(m).raw : \/ s \in conn.raw
                                       \/ Passed(s) => s \in late \cup LateNow
         /\ Inserted(m).written =
              conn.written \cup {[ts |-> taken[m], metric |-> m]}
<1> DEFINE new == [ts |-> taken[m], metric |-> m]
           d == Inserted(m)
<1>1. Good(conn, clock, late) /\ conn \in Databases /\ conn.last \in Nat
  BY Members DEF Inv, ViewsInv, Good
<1>2. new \in Samples /\ StartTime <= new.ts /\ new.ts \in Nat
  BY DEF Inv, Types, HandsInv, Samples
<1>5. ~(new \in conn.written)
  BY DEF Inv, HandsInv
<1> HIDE DEF new
<1>3. /\ d.raw = conn.raw \cup {new} /\ d.written = conn.written \cup {new}
      /\ d.rolled = conn.rolled /\ d.last = conn.last /\ d \in Databases
  BY <1>1, <1>2 DEF Inserted, Databases, new
<1>4. Good(conn, clock, late \cup LateNow)
  BY <1>1, GoodLate
<1>10. Passed(new) => new \in LateNow
  <2> SUFFICES ASSUME Passed(new), ~(new.ts + Minute < clock) PROVE FALSE
    BY <1>3, <1>5 DEF LateNow
  <2>1. /\ clock \in Nat /\ end \in Nat /\ conn.last + Minute <= clock
        /\ task = "mark" => end + Minute <= clock
    BY <1>1, RetentionAssumption DEF Good, Inv, Types, PassInv
  <2> QED
    BY <1>1, <1>2, <2>1, RetentionAssumption DEF Passed
<1>6. ASSUME NEW s \in d.written
      PROVE  Accounted(s, d, clock, late \cup LateNow)
  <2>1. CASE s \in conn.written
    BY <1>3, <1>4, <2>1 DEF Good, Accounted
  <2>2. CASE s = new
    BY <1>1, <1>2, <1>3, <1>10, <2>2 DEF Accounted, Passed
  <2> QED
    BY <1>3, <2>1, <2>2
<1>7. Grown(disk, d)
  BY <1>3 DEF Grown, SameRow, Inv, ViewsInv
<1>8. \A s \in d.raw : StartTime <= s.ts
  BY <1>1, <1>2, <1>3 DEF Good
<1>9. Good(d, clock, late \cup LateNow)
  BY <1>1, <1>3, <1>6, <1>8 DEF Good
<1> QED
  BY <1>3, <1>7, <1>9, <1>10 DEF new

\* The rollup selects all that the watermark calls for, the first one too, whose
\* window is still open.
LEMMA AllSelected ==
  ASSUME Inv, InTime, task = "insert", NEW s \in conn.raw, conn.last <= s.ts, s.ts < end
  PROVE  s \in Selected
<1>1. /\ s.ts \in Nat /\ StartTime <= s.ts
      /\ conn.last \in Nat /\ disk.last \in Nat /\ durable.last \in Nat
  BY Members DEF Inv, ViewsInv, Good
<1>2. conn.last = 0 => clock <= StartTime + MaxFirst
  BY <1>1 DEF Inv, ViewsInv
<1>3. clock \in Nat /\ now \in Nat /\ end \in Nat /\ end + Minute <= now /\ now <= clock
  BY DEF Inv, Types, PassInv
<1>4. conn.last = 0 => s.ts + FirstWindow >= end
  BY <1>1, <1>2, <1>3, RetentionAssumption DEF InTime
<1> QED
  BY <1>1, <1>4 DEF Selected, FromStart

\* Folding replaces no row by a smaller one: a row from before the watermark is of
\* another minute, and one from after it is computed again from all it had.
LEMMA FoldedGood ==
  ASSUME Inv, InTime, task = "insert"
  PROVE  /\ Good(Folded, clock, late) /\ Folded.last = conn.last /\ Folded.raw = conn.raw
         /\ Folded.written = conn.written
         /\ Selected \subseteq Folded.rolled /\ \A s \in Folded.rolled : s.ts < end
         /\ Grown(disk, Folded)
<1> DEFINE d == Folded
<1>1. /\ Good(conn, clock, late) /\ conn \in Databases /\ conn.last \in Nat /\ clock \in Nat
      /\ end \in Nat /\ end % Minute = 0 /\ end + Minute <= clock
  BY Members, RetentionAssumption DEF Inv, Types, PassInv, ViewsInv, Good
<1>2. Selected \subseteq conn.raw /\ conn.raw \subseteq Samples /\ conn.rolled \subseteq Samples
  BY <1>1 DEF Selected, Databases
<1>3. /\ d.raw = conn.raw /\ d.written = conn.written /\ d.last = conn.last
      /\ d.rolled = {s \in conn.rolled : ~SameRow(s, Selected)} \cup Selected
      /\ d \in Databases
  BY <1>1, <1>2 DEF Folded, Databases
<1>4. ASSUME NEW s \in Samples, SameRow(s, Selected)
      PROVE  conn.last <= s.ts
  <2>1. PICK t \in Selected : Bucket(t) = Bucket(s)
    BY <1>4 DEF SameRow
  <2>2. s.ts \in Nat /\ t.ts \in Nat /\ t \in conn.raw
    BY <1>2, <2>1 DEF Samples
  <2>3. conn.last <= t.ts
    BY <1>1, <2>1, <2>2 DEF Selected, FromStart
  <2> QED
    BY <1>1, <2>1, <2>2, <2>3, SameSide DEF Good
<1>5. conn.rolled \subseteq d.rolled
  <2> SUFFICES ASSUME NEW s \in conn.rolled, SameRow(s, Selected) PROVE s \in Selected
    BY <1>3
  <2>1. s \in Samples /\ conn.last <= s.ts
    BY <1>2, <1>4
  <2>2. s \in conn.raw /\ s.ts < end
    BY <1>1, <2>1 DEF Good, Samples, Inv, PassInv
  <2> QED
    BY <2>1, <2>2, AllSelected
<1>6. \A s \in d.rolled : s.ts < end
  BY <1>3 DEF Selected, Inv, PassInv
<1>7. ASSUME NEW s \in d.rolled
      PROVE  Bucket(s) + 2 * Minute <= clock /\ (s.ts >= d.last => s \in d.raw)
  <2>1. s.ts \in Nat /\ s.ts < end /\ Bucket(s) \in Nat
    BY <1>2, <1>3, <1>6, BucketBelow DEF Samples
  <2>2. Bucket(s) + Minute <= end
    BY <1>1, <2>1, BucketEnds
  <2>3. s \in conn.rolled \/ s \in conn.raw
    BY <1>2, <1>3
  <2> QED
    BY <1>1, <1>3, <2>1, <2>2, <2>3, RetentionAssumption DEF Good
<1>8. \A s \in d.written : Accounted(s, d, clock, late)
  BY <1>1, <1>3, <1>5 DEF Good, Accounted
<1>9. Grown(disk, d)
  <2> SUFFICES ASSUME NEW s \in disk.rolled, ~(s \in d.rolled)
               PROVE  s.ts < d.last /\ ~SameRow(s, d.rolled)
    BY DEF Grown
  <2>1. s \in Samples /\ s.ts \in Nat /\ s.ts < conn.last /\ ~SameRow(s, conn.rolled)
    BY <1>5, Members DEF Inv, ViewsInv, Good, Grown
  <2>2. ~SameRow(s, Selected)
    BY <1>1, <1>4, <2>1
  <2> QED
    BY <1>3, <2>1, <2>2 DEF SameRow
<1> HIDE DEF d
<1> QED
  BY <1>1, <1>3, <1>6, <1>7, <1>8, <1>9 DEF Good, d

\* What lies before the new watermark has been folded.
LEMMA MarkedGood ==
  ASSUME Inv, task = "mark"
  PROVE  /\ Good(Marked, clock, late) /\ Marked.last = end /\ conn.last < end
         /\ Marked.rolled = conn.rolled /\ Marked.written = conn.written
         /\ Grown(disk, Marked)
<1> DEFINE d == Marked
<1>1. Good(conn, clock, late) /\ conn \in Databases /\ conn.last \in Nat
  BY Members DEF Inv, ViewsInv, Good
<1>2. end \in Nat /\ end % Minute = 0 /\ end + Minute <= clock /\ conn.last < end
  BY RetentionAssumption DEF Inv, Types, PassInv
<1>3. /\ d.raw = conn.raw /\ d.written = conn.written /\ d.last = end
      /\ d.rolled = conn.rolled /\ d \in Databases
  BY <1>1, <1>2 DEF Marked, Databases
<1>4. ASSUME NEW s \in d.written
      PROVE  Accounted(s, d, clock, late)
  <2>1. s \in conn.written /\ s.ts \in Nat /\ Accounted(s, conn, clock, late)
    BY <1>1, <1>3, Members DEF Good
  <2>2. CASE s.ts < conn.last /\ s \in conn.rolled
    BY <1>1, <1>2, <1>3, <2>1, <2>2 DEF Accounted
  <2>3. CASE s.ts >= conn.last /\ s \in conn.raw
    <3>1. s.ts < end => s \in conn.rolled \/ s \in late
      BY <2>3 DEF Inv, PassInv
    <3> QED
      BY <1>2, <1>3, <2>1, <2>3, <3>1 DEF Accounted
  <2> QED
    BY <1>1, <1>3, <2>1, <2>2, <2>3 DEF Accounted
<1>5. Grown(disk, d)
  <2> SUFFICES ASSUME NEW s \in disk.rolled, s.ts < conn.last
               PROVE  s.ts < end
    BY <1>3 DEF Grown, SameRow, Inv, ViewsInv
  <2> QED
    BY <1>1, <1>2, Members DEF Inv, ViewsInv, Good
<1>6. ASSUME NEW s \in d.rolled, s.ts >= d.last
      PROVE  s \in d.raw
  <2>1. s \in conn.rolled /\ s.ts \in Nat
    BY <1>1, <1>3, Members
  <2> QED
    BY <1>1, <1>2, <1>3, <1>6, <2>1 DEF Good
<1> HIDE DEF d
<1> QED
  BY <1>1, <1>2, <1>3, <1>4, <1>5, <1>6 DEF Good, d

\* What is purged has been folded, or is too old to be kept.
LEMMA PurgedGood ==
  ASSUME Inv, InTime, task = "purge", NEW d \in {RawPurged, Purged}
  PROVE  /\ Good(d, clock, late) /\ d.last = conn.last /\ Grown(disk, d)
         /\ d.written = conn.written
<1>1. Good(conn, clock, late) /\ conn \in Databases /\ conn.last \in Nat /\ clock \in Nat
  BY Members DEF Inv, Types, ViewsInv, Good
<1>2. /\ RawPurged.raw = {s \in conn.raw : s.ts + RawKeep >= clock}
      /\ RawPurged.rolled = conn.rolled /\ RawPurged.written = conn.written
      /\ RawPurged.last = conn.last /\ RawPurged \in Databases
  BY <1>1 DEF RawPurged, Databases
<1>3. /\ d.raw = RawPurged.raw /\ d.written = conn.written /\ d.last = conn.last
      /\ d.rolled \subseteq conn.rolled /\ d \in Databases
      /\ \/ d.rolled = conn.rolled
         \/ d.rolled = {s \in conn.rolled : Bucket(s) + RollupKeep >= clock}
  <2>1. CASE d = RawPurged
    BY <1>2, <2>1
  <2>2. CASE d = Purged
    <3> HIDE DEF RawPurged
    <3> QED
      BY <1>2, <2>2 DEF Purged, Databases
  <2> QED
    BY <2>1, <2>2
<1>4. ASSUME NEW s \in conn.raw, s.ts >= conn.last
      PROVE  s.ts + RawKeep >= clock
  <2>1. s.ts \in Nat
    BY <1>1, Members
  <2>2. /\ now \in Nat /\ end \in Nat /\ clock <= now + MaxPass
        /\ now < end + 2 * Minute /\ end <= conn.last
    BY DEF Inv, Types, PassInv
  <2> QED
    BY <1>1, <1>4, <2>1, <2>2, RetentionAssumption DEF InTime
<1>5. ASSUME NEW s \in d.written
      PROVE  Accounted(s, d, clock, late)
  <2>1. s \in conn.written /\ s.ts \in Nat /\ Bucket(s) \in Nat
    BY <1>1, <1>3, Members, BucketBelow
  <2>2. Bucket(s) + RollupKeep < clock \/ Bucket(s) + RollupKeep >= clock
    BY <1>1, <2>1, RetentionAssumption
  <2>3. s.ts + RawKeep < clock \/ s.ts + RawKeep >= clock
    BY <1>1, <2>1, RetentionAssumption
  <2> QED
    BY <1>1, <1>2, <1>3, <1>4, <2>1, <2>2, <2>3 DEF Good, Accounted
<1>6. Grown(disk, d)
  <2> SUFFICES ASSUME NEW s \in disk.rolled, ~(s \in d.rolled)
               PROVE  s.ts < d.last /\ ~SameRow(s, d.rolled)
    BY DEF Grown
  <2>1. CASE s \in conn.rolled
    <3>1. s.ts \in Nat /\ end \in Nat /\ s.ts < end /\ end <= conn.last
      BY <1>1, <2>1, Members DEF Inv, Types, PassInv
    <3>2. ~SameRow(s, d.rolled)
      BY <1>3, <2>1 DEF SameRow
    <3> QED
      BY <1>1, <1>3, <3>1, <3>2
  <2>2. CASE ~(s \in conn.rolled)
    BY <1>3, <2>2 DEF Grown, SameRow, Inv, ViewsInv
  <2> QED
    BY <2>1, <2>2
<1>7. ASSUME NEW s \in d.rolled
      PROVE  Bucket(s) + 2 * Minute <= clock /\ (s.ts >= d.last => s \in d.raw)
  BY <1>1, <1>2, <1>3, <1>4 DEF Good
<1> QED
  BY <1>1, <1>2, <1>3, <1>5, <1>6, <1>7 DEF Good

-----------------------------------------------------------------------------
(* The steps *)

LEMMA InvImplies == Inv => EverySampleCounted
<1> SUFFICES ASSUME Inv PROVE EverySampleCounted
  OBVIOUS
<1>1. TypeOK
  BY DEF Inv, Types, ViewsInv, Good, TypeOK
<1>2. ASSUME NEW d \in {conn, disk, durable}, NEW s \in d.written
      PROVE  \/ Expired(s)
             \/ s.ts < d.last /\ s \in d.rolled
             \/ s.ts >= d.last /\ s \in d.raw
             \/ s \in late /\ (s \in d.raw \/ s.ts + RawKeep < clock)
  BY <1>2 DEF Inv, ViewsInv, Good, Accounted, Expired
<1> QED
  BY <1>1, <1>2 DEF EverySampleCounted

LEMMA InitInv == Init => Inv
<1> SUFFICES ASSUME Init PROVE Inv
  OBVIOUS
<1>1. Good(Empty, StartTime, {})
  BY RetentionAssumption DEF Empty, Good, Databases
<1>2. Types
  BY RetentionAssumption DEF Init, Types, NoSample
<1>3. ViewsInv
  BY <1>1, RetentionAssumption DEF Init, ViewsInv, Empty, Grown
<1>4. HandsInv /\ PassInv
  BY DEF Init, HandsInv, PassInv
<1> QED
  BY <1>2, <1>3, <1>4 DEF Inv

\* The views after a step that leaves the clock alone.
LEMMA ViewsCommitted ==
  ASSUME Inv, clock' = clock, late \subseteq late', NEW d, Good(d, clock, late'),
         conn.last <= d.last, conn.written \subseteq d.written, Commit(d)
  PROVE  ViewsInv'
<1>1. /\ conn.last \in Nat /\ disk.last \in Nat /\ durable.last \in Nat /\ d.last \in Nat
  BY Members DEF Inv, ViewsInv, Good
<1>2. Good(durable, clock, late')
  BY GoodLate DEF Inv, ViewsInv
<1> QED
  BY <1>1, <1>2 DEF Inv, ViewsInv, Commit, Grown

LEMMA ViewsAbandoned ==
  ASSUME Inv, clock' = clock, late \subseteq late', NEW ds, Abandon(ds),
         \A d \in ds : /\ Good(d, clock, late') /\ conn.last <= d.last
                      /\ conn.written \subseteq d.written /\ Grown(disk, d)
  PROVE  ViewsInv'
<1>1. /\ conn.last \in Nat /\ disk.last \in Nat /\ conn'.last \in Nat
      /\ Good(conn', clock, late') /\ conn.last <= conn'.last /\ Grown(disk, conn')
      /\ conn.written \subseteq conn'.written
  BY Members DEF Inv, ViewsInv, Good, Abandon
<1>2. Good(disk, clock, late') /\ Good(durable, clock, late')
  BY GoodLate DEF Inv, ViewsInv
<1> QED
  BY <1>1, <1>2 DEF Inv, ViewsInv, Abandon, Grown, SameRow, Bucket

LEMMA TickStep == ASSUME UNCHANGED late, Inv, Tick PROVE Inv'
<1>1. clock \in Nat /\ clock' = clock + 1 /\ StartTime \in Nat /\ MaxFirst \in Nat
      /\ MaxPass \in Nat
  BY RetentionAssumption DEF Inv, Types, Tick
<1>2. Types'
  BY <1>1 DEF Inv, Types, Tick, rollup
<1>3. ViewsInv'
  <2>1. /\ Good(conn, clock + 1, late) /\ Good(disk, clock + 1, late)
        /\ Good(durable, clock + 1, late)
    BY <1>1, GoodLater DEF Inv, ViewsInv
  <2> QED
    BY <1>1, <2>1 DEF Inv, ViewsInv, Tick, db
<1>4. HandsInv'
  BY <1>1 DEF Inv, Types, HandsInv, Tick, db
<1>5. PassInv'
  BY <1>1 DEF Inv, Types, PassInv, Tick, rollup, db
<1> QED
  BY <1>2, <1>3, <1>4, <1>5 DEF Inv

LEMMA TakeStep == ASSUME UNCHANGED late, Inv, NEW m \in Metrics, Take(m) PROVE Inv'
<1>1. Types' /\ ViewsInv' /\ PassInv'
  BY DEF Inv, Types, ViewsInv, PassInv, Take, rollup, db
<1>2. HandsInv'
  BY RetentionAssumption DEF Inv, Types, HandsInv, Take, db
<1> QED
  BY <1>1, <1>2 DEF Inv

\* A loop that has written its sample, or failed to.
LEMMA WriteStep ==
  ASSUME Inv, NEW m \in Metrics, Write(m) \/ WriteFails(m), late' = late \cup LateNow
  PROVE  Inv'
<1>1. taken[m] # NoSample /\ clock' = clock /\ conn.last \in Nat
      /\ taken' = [taken EXCEPT ![m] = NoSample] /\ UNCHANGED <<task, now, end, count>>
  BY Members DEF Write, WriteFails, rollup, Inv, ViewsInv, Good
<1>2. conn' = conn \/ conn' = Inserted(m)
  BY DEF Write, WriteFails, Commit, Abandon
<1>3. late \subseteq late' /\ late' \subseteq Samples
  <2>1. conn'.written \subseteq Samples
    BY <1>1, <1>2, InsertedGood DEF Inv, ViewsInv, Good, Databases
  <2> QED
    BY <2>1 DEF LateNow, Inv, Types
<1>4. CASE conn' = conn
  <2>1. Good(conn, clock, late') /\ Grown(disk, conn)
    BY <1>3, GoodLate DEF Inv, ViewsInv
  <2>2. ViewsInv'
    <3>1. CASE Write(m)
      <4>1. Commit(conn) /\ conn.last <= conn.last
        BY <1>1, <1>4, <3>1 DEF Write, Commit
      <4> QED
        BY <1>1, <1>3, <2>1, <4>1, ViewsCommitted
    <3>2. CASE WriteFails(m)
      <4>1. Abandon({conn})
        BY <1>4, <3>2 DEF WriteFails, Abandon
      <4>2. conn.last <= conn.last
        BY <1>1
      <4> QED
        BY <1>1, <1>3, <2>1, <4>1, <4>2, ViewsAbandoned
    <3> QED
      BY <3>1, <3>2
  <2>3. Types' /\ HandsInv' /\ PassInv'
    BY <1>1, <1>3, <1>4 DEF Inv, Types, HandsInv, PassInv, NoSample, Write, WriteFails, Fault
  <2> QED
    BY <2>2, <2>3 DEF Inv
<1>5. CASE conn' = Inserted(m)
  <2>1. /\ Good(conn', clock, late') /\ conn'.last = conn.last /\ Grown(disk, conn')
        /\ conn'.rolled = conn.rolled
        /\ \A s \in conn'.raw : s \in conn.raw \/ (Passed(s) => s \in late')
        /\ conn'.written = conn.written \cup {[ts |-> taken[m], metric |-> m]}
    BY <1>1, <1>5, InsertedGood
  <2>2. ViewsInv'
    <3>1. Good(disk, clock, late') /\ Good(durable, clock, late')
      BY <1>3, GoodLate DEF Inv, ViewsInv
    <3>2. disk' \in {disk, conn'} /\ durable' = durable
      BY DEF Write, WriteFails, Commit, Abandon
    <3>3. conn.last \in Nat /\ disk.last \in Nat /\ durable.last \in Nat
      BY Members DEF Inv, ViewsInv, Good
    <3> QED
      BY <1>1, <2>1, <3>1, <3>2, <3>3 DEF Inv, ViewsInv, Grown
  <2>3. Types'
    BY <1>1, <1>3 DEF Inv, Types, NoSample, Write, WriteFails, Fault
  <2>4. HandsInv'
    <3> SUFFICES ASSUME NEW q \in Metrics, taken'[q] # NoSample
                 PROVE  /\ StartTime <= taken'[q]
                        /\ [ts |-> taken'[q], metric |-> q] \notin conn'.written
      BY DEF HandsInv
    <3>1. q # m /\ taken'[q] = taken[q]
      BY <1>1 DEF Inv, Types, NoSample
    <3> QED
      BY <2>1, <3>1 DEF Inv, HandsInv
  <2>5. PassInv'
    <3>1. task = "mark" => \A s \in conn'.raw :
            conn.last <= s.ts /\ s.ts < end => s \in conn.rolled \/ s \in late'
      BY <1>3, <2>1 DEF Inv, PassInv, Passed
    <3> QED
      BY <1>1, <2>1, <3>1 DEF Inv, PassInv
  <2> QED
    BY <2>2, <2>3, <2>4, <2>5 DEF Inv
<1> QED
  BY <1>2, <1>4, <1>5

LEMMA BeginStep == ASSUME UNCHANGED late, Inv, BeginPass PROVE Inv'
<1>1. /\ clock' = clock /\ conn' = conn /\ now' = clock /\ end' = End(clock)
      /\ clock \in Nat /\ StartTime <= clock /\ conn.last \in Nat
  BY Members DEF BeginPass, db, Inv, Types, ViewsInv, Good
<1>2. /\ end' \in Nat /\ end' % Minute = 0
      /\ end' + Minute <= clock /\ clock < end' + 2 * Minute
  BY <1>1, EndFacts
<1>3. Types' /\ ViewsInv' /\ HandsInv'
  BY <1>1, <1>2 DEF Inv, Types, ViewsInv, HandsInv, BeginPass, db
<1>4. \A s \in conn.rolled : s.ts < End(clock)
  BY <1>1, OverByEnd, Members DEF Inv, ViewsInv, Good
<1>5. PassInv'
  BY <1>1, <1>2, <1>4, RetentionAssumption DEF PassInv, BeginPass
<1> QED
  BY <1>3, <1>5 DEF Inv

LEMMA InsertStep == ASSUME UNCHANGED late, Inv, InTime, Insert PROVE Inv'
<1>1. /\ Good(Folded, clock, late) /\ Folded.written = conn.written /\ Folded.last = conn.last /\ Folded.raw = conn.raw
      /\ Selected \subseteq Folded.rolled /\ conn.last \in Nat
      /\ \A s \in Folded.rolled : s.ts < end
  BY FoldedGood, Members DEF Insert, Inv, ViewsInv, Good
<1>2. conn' = Folded /\ clock' = clock /\ now' = now /\ end' = end
  BY DEF Insert, Commit, rollup
<1>3. ViewsInv'
  BY <1>1, <1>2, ViewsCommitted DEF Insert
<1>4. Types' /\ HandsInv'
  BY <1>1, <1>2 DEF Inv, Types, HandsInv, Insert, rollup
<1>5. PassInv'
  BY <1>1, <1>2, AllSelected DEF Inv, PassInv, Insert
<1> QED
  BY <1>3, <1>4, <1>5 DEF Inv

LEMMA MarkStep == ASSUME UNCHANGED late, Inv, Mark PROVE Inv'
<1>1. /\ Good(Marked, clock, late) /\ Marked.written = conn.written /\ Marked.last = end /\ conn.last < end
      /\ Marked.rolled = conn.rolled /\ conn.last \in Nat /\ end \in Nat
  BY MarkedGood, Members DEF Mark, Inv, Types, ViewsInv, Good
<1>2. conn' = Marked /\ clock' = clock /\ now' = now /\ end' = end
  BY DEF Mark, Commit, rollup
<1>3. ViewsInv'
  BY <1>1, <1>2, ViewsCommitted DEF Mark
<1>4. Types' /\ HandsInv'
  BY <1>1, <1>2 DEF Inv, Types, HandsInv, Mark, rollup
<1>5. PassInv'
  BY <1>1, <1>2 DEF Inv, PassInv, Mark
<1> QED
  BY <1>3, <1>4, <1>5 DEF Inv

LEMMA PurgeStep == ASSUME UNCHANGED late, Inv, InTime, Purge PROVE Inv'
<1>1. Good(Purged, clock, late) /\ Purged.written = conn.written /\ Purged.last = conn.last /\ conn.last \in Nat
  BY PurgedGood, Members DEF Purge, Inv, ViewsInv, Good
<1>2. ViewsInv'
  BY <1>1, ViewsCommitted DEF Purge
<1>3. Types' /\ HandsInv' /\ PassInv'
  BY <1>1 DEF Inv, Types, HandsInv, PassInv, Purge, PassEnds, Commit
<1> QED
  BY <1>2, <1>3 DEF Inv

LEMMA PassFailsStep == ASSUME UNCHANGED late, Inv, InTime, PassFails PROVE Inv'
<1>1. Good(conn, clock, late) /\ conn.last \in Nat /\ Grown(disk, conn)
  BY Members DEF Inv, ViewsInv, Good
<1>2. ViewsInv'
  <2>1. CASE task = "insert" /\ Abandon({conn, Folded})
    BY <1>1, <2>1, FoldedGood, ViewsAbandoned DEF PassFails
  <2>2. CASE task = "mark" /\ Abandon({conn, Marked})
    BY <1>1, <2>2, MarkedGood, ViewsAbandoned DEF PassFails, Inv, Types
  <2>3. CASE task = "purge" /\ Abandon({conn, RawPurged, Purged})
    BY <1>1, <2>3, PurgedGood, ViewsAbandoned DEF PassFails
  <2> QED
    BY <2>1, <2>2, <2>3 DEF PassFails
<1>3. conn'.written = conn.written
  BY <1>1, FoldedGood, MarkedGood, PurgedGood DEF PassFails, Abandon
<1>4. Types' /\ HandsInv' /\ PassInv'
  BY <1>3 DEF Inv, Types, HandsInv, PassInv, PassFails, PassEnds, Fault
<1> QED
  BY <1>2, <1>4 DEF Inv

LEMMA EndStep == ASSUME UNCHANGED late, Inv, Crash \/ Checkpoint \/ PowerLoss PROVE Inv'
<1>1. conn.last \in Nat /\ disk.last \in Nat /\ durable.last \in Nat /\ clock' = clock
  BY Members DEF Inv, ViewsInv, Good, Crash, Checkpoint, PowerLoss
<1>2. CASE Checkpoint
  BY <1>1, <1>2 DEF Inv, Types, ViewsInv, HandsInv, PassInv, Checkpoint, rollup
<1>3. CASE Crash \/ PowerLoss
  <2>1. ViewsInv'
    BY <1>1, <1>3 DEF Inv, ViewsInv, Crash, PowerLoss, Grown
  <2>2. Types' /\ HandsInv' /\ PassInv'
    BY <1>3 DEF Inv, Types, HandsInv, PassInv, Crash, PowerLoss, Restarted, PassEnds,
                Fault, NoSample
  <2> QED
    BY <2>1, <2>2 DEF Inv
<1> QED
  BY <1>2, <1>3

\* Only a write adds to the samples that are late.
LEMMA LateStays ==
  ASSUME Inv, InTime, late' = late \cup LateNow,
         \/ UNCHANGED conn
         \/ Insert \/ Mark \/ Purge \/ PassFails \/ Crash \/ PowerLoss
  PROVE  UNCHANGED late
<1>1. conn'.written \subseteq conn.written
  BY FoldedGood, MarkedGood, PurgedGood
     DEF Insert, Mark, Purge, PassFails, Crash, PowerLoss, Commit, Abandon, Inv, ViewsInv
<1> QED
  BY <1>1 DEF LateNow

LEMMA InvStep == ASSUME Inv, InTime, [Next]_vars PROVE Inv'
<1>1. CASE UNCHANGED vars
  BY <1>1 DEF Inv, Types, ViewsInv, HandsInv, PassInv, vars, db, rollup
<1>2. CASE Next
  <2>1. late' = late \cup LateNow /\ Step
    BY <1>2 DEF Next
  <2>2. ASSUME NEW m \in Metrics, Take(m)
        PROVE  Inv'
    <3>1. UNCHANGED late
      BY <2>1, <2>2, LateStays DEF Take, db
    <3> QED
      BY <2>2, <3>1, TakeStep
  <2>3. ASSUME NEW m \in Metrics, Write(m) \/ WriteFails(m)
        PROVE  Inv'
    BY <2>1, <2>3, WriteStep
  <2>4. CASE BeginPass \/ Tick \/ Checkpoint
    <3>1. UNCHANGED late
      BY <2>1, <2>4, LateStays DEF BeginPass, Tick, Checkpoint, db
    <3> QED
      BY <2>4, <3>1, BeginStep, TickStep, EndStep
  <2>5. CASE Insert \/ Mark \/ Purge \/ PassFails \/ Crash \/ PowerLoss
    <3>1. UNCHANGED late
      BY <2>1, <2>5, LateStays
    <3> QED
      BY <2>5, <3>1, InsertStep, MarkStep, PurgeStep, PassFailsStep, EndStep
  <2> QED
    BY <2>1, <2>2, <2>3, <2>4, <2>5 DEF Step
<1> QED
  BY <1>1, <1>2

LEMMA Invariance == ASSUME InTime PROVE Spec => []Inv
<1>1. Inv /\ [Next]_vars => Inv'
  BY InvStep
<1> QED
  BY <1>1, InitInv, PTL DEF Spec

\* For any minute, numbers of loops, samples, faults and passes, and any delay from
\* a sample's stamp to its INSERT: if a raw sample outlives the pass that folds its
\* minute and the first watermark is synced in time, none is lost between the two
\* tables, and one that came late is kept as long as raw samples are.
THEOREM SamplesAreCounted == ASSUME InTime PROVE Spec => []EverySampleCounted
  BY Invariance, InvImplies, PTL

\* What a commit makes of the rows.
LEMMA DiskStep ==
  ASSUME Inv, InTime, [Next]_vars
  PROVE  disk' = disk \/ disk' = durable \/ Grown(disk, disk')
<1>1. ASSUME NEW m \in Metrics, Write(m)
      PROVE  Grown(disk, disk')
  BY <1>1, InsertedGood DEF Write, Commit
<1>2. CASE Insert
  BY <1>2, FoldedGood DEF Insert, Commit
<1>3. CASE Mark
  BY <1>3, MarkedGood DEF Mark, Commit
<1>4. CASE Purge
  BY <1>4, PurgedGood DEF Purge, Commit
<1>5. CASE PowerLoss
  BY <1>5 DEF PowerLoss
<1>6. CASE Checkpoint \/ Crash \/ PassFails \/ BeginPass \/ Tick
  BY <1>6 DEF Checkpoint, Crash, PassFails, Abandon, BeginPass, Tick, db
<1>7. ASSUME NEW m \in Metrics, Take(m) \/ WriteFails(m)
      PROVE  disk' = disk
  BY <1>7 DEF Take, WriteFails, Abandon, db
<1>8. CASE UNCHANGED vars
  BY <1>8 DEF vars, db
<1> QED
  BY <1>1, <1>2, <1>3, <1>4, <1>5, <1>6, <1>7, <1>8 DEF Next, Step

\* Under the same condition no row is ever replaced by a poorer one.
THEOREM RowsGrow == ASSUME InTime PROVE Spec => RowsOnlyGrow
<1>1. Inv /\ [Next]_vars =>
        [disk' # durable =>
           \A s \in disk.rolled : s \in disk'.rolled \/ ~SameRow(s, disk'.rolled)]_vars
  BY DiskStep DEF Grown
<1> QED
  BY <1>1, Invariance, PTL DEF Spec, RowsOnlyGrow

================================================================================
