---------------------------- MODULE PollersProofs ----------------------------
(***************************************************************************)
(* For any add-ons, devices, interfaces and versions: the events of a run  *)
(* tell all that its watchers know and nothing that did not happen, the    *)
(* restarts counted happened, and no version replaces another without its  *)
(* event.                                                                  *)
(*                                                                         *)
(* What a watcher knows was read at a moment of the past that is still on  *)
(* record, and the changes that wait to be recorded lead from what has     *)
(* been told to what is known.                                             *)
(***************************************************************************)
EXTENDS Pollers, FiniteSetTheorems, TLAPS

Values == UNION {Readings(i) : i \in Things}
Database == [meta : [Keys -> Values], event : [Keys -> Seq(Values)]]

\* The types that TypeOK leaves open.
Shape ==
  /\ world \in [Things -> Values] /\ past \in [Watched -> Seq(Values)]
  /\ known \in [Watched -> Values] /\ told \in [Watched -> Values]
  /\ info \in [Keys -> Values]
  /\ {conn, disk, durable} \subseteq Database
  /\ \A c \in pending :
       /\ c = [item |-> c.item, part |-> c.part, from |-> c.from, to |-> c.to]
       /\ c.from \in Readings(c.item) /\ c.to \in Readings(c.item)

\* An interface that is there and was there changes in parts, all else as a whole.
Pairs == {"up", "down"} \X Settings
InParts(i, was, is) == i \in Interfaces /\ was \in Pairs /\ is \in Pairs

\* The changes that wait lead from what has been told to what is known.
TellInv ==
  /\ \A c \in pending :
       /\ c.to = known[c.item]
       /\ IF InParts(c.item, c.from, c.to) THEN c.part \in 1 .. 2 ELSE c.part = 0
  /\ \A c, d \in pending : c.item = d.item => c.from = d.from
  /\ \A i \in Watched \ gaps :
       \/ told[i] = known[i]
       \/ \E c \in pending : c.item = i /\ c.part = 0
       \/ /\ told[i] \in Pairs /\ known[i] \in Pairs /\ i \in Interfaces
          /\ \A n \in 1 .. 2 : told[i][n] # known[i][n] =>
               \E c \in pending : c.item = i /\ c.part = n

\* How often an add-on had been started by its n-th reading.
Starts(s, n) == Cardinality({m \in DOMAIN s : s[m] = <<"started">> /\ m <= n})

One(condition) == IF condition THEN 1 ELSE 0

\* The moment at which a watcher read what it knows of a thing: the restarts
\* counted are starts before it.
ReadAt(i, n) ==
  /\ n \in DOMAIN past[i] /\ past[i][n] = known[i]
  /\ i \in Addons => restarts[i] + One(known[i] = <<"started">>) <= Starts(past[i], n)

PastInv ==
  /\ pc = "off" => primed = {} /\ \A i \in Watched : past[i] = <<>>
  /\ pc # "off" => \A i \in Watched : past[i] # <<>> /\ past[i][Len(past[i])] = world[i]
  /\ \A p \in primed : \A i \in Of(p) : \E n \in 1 .. Len(past[i]) : ReadAt(i, n)
  /\ "addons" \notin primed => \A a \in Addons : restarts[a] = 0
  /\ NoPhantomChange

\* What is not committed is what the system reads, and has its event.
OsInv ==
  /\ pc = "off" \/ noted # {} => conn = disk
  /\ todo # {} => \A k \in Keys : info[k] = world[k]
  /\ \A k \in noted : conn.event[k] = <<conn.meta[k], info[k]>>
  /\ \A k \in Keys : conn.meta[k] # disk.meta[k] =>
       /\ conn.meta[k] = world[k]
       /\ disk.meta[k] # Missing => conn.event[k] = <<disk.meta[k], conn.meta[k]>>

Inv == TypeOK /\ Shape /\ TellInv /\ PastInv /\ OsInv


-----------------------------------------------------------------------------
(* Readings *)

LEMMA Kinds ==
  /\ \A i \in Addons : i \in Watched /\ i \notin Interfaces
       /\ Readings(i) = {Missing} \cup {<<s>> : s \in {"started", "stopped", "error"}}
  /\ \A i \in Interfaces : i \in Watched /\ Readings(i) = {Missing} \cup Pairs
  /\ \A i \in Things : Missing \in Readings(i) /\ Readings(i) \subseteq Values
  /\ Missing \notin Pairs
  /\ \A k \in Keys : k \notin Watched
<1>1. \A i \in Addons : Readings(i) = {Missing} \cup {<<s>> : s \in {"started", "stopped", "error"}}
  BY PollersAssumption DEF Readings
<1>2. \A i \in Interfaces : Readings(i) = {Missing} \cup Pairs
  BY PollersAssumption DEF Readings, Pairs
<1>3. \A i \in Things : Missing \in Readings(i) /\ Readings(i) \subseteq Values
  BY DEF Readings, Values
<1>4. Missing \notin Pairs
  BY DEF Missing, Pairs
<1> QED
  BY <1>1, <1>2, <1>3, <1>4, PollersAssumption DEF Watched

LEMMA Owners ==
  /\ \A p \in Pollers : Of(p) \subseteq Watched /\ After(p) \in Pollers \cup {"os"} /\ p # "off"
  /\ Of("off") = {} /\ Of("os") = {} /\ Of("check") = {} /\ Of("census") = {}
  /\ \A i \in Watched : \E p \in Pollers : i \in Of(p)
  /\ \A p, q \in Pollers : p # q => Of(p) \cap Of(q) = {}
  /\ \A p \in Pollers : Of(p) \cap Addons # {} => p = "addons"
  BY PollersAssumption DEF Of, Pollers, Watched, After

\* Two interfaces that are there differ in a part.
LEMMA PairsDiffer ==
  ASSUME NEW x \in Pairs, NEW y \in Pairs, x # y
  PROVE  \E n \in 1 .. 2 : x[n] # y[n]
  BY DEF Pairs

\* A pair with one part replaced.
Patch(x, y, k) == [n \in DOMAIN x |-> IF n = k THEN y[n] ELSE x[n]]

LEMMA PairSet ==
  ASSUME NEW x \in Pairs, NEW y \in Pairs, NEW k \in 1 .. 2
  PROVE  /\ Patch(x, y, k) \in Pairs /\ Patch(x, y, k)[k] = y[k]
         /\ \A n \in 1 .. 2 : n # k => Patch(x, y, k)[n] = x[n]
         /\ x = y => Patch(x, y, k) = y
<1> DEFINE z == [n \in DOMAIN x |-> IF n = k THEN y[n] ELSE x[n]]
<1>1. /\ DOMAIN x = 1 .. 2 /\ x[1] \in {"up", "down"} /\ x[2] \in Settings
      /\ DOMAIN y = 1 .. 2 /\ y[1] \in {"up", "down"} /\ y[2] \in Settings
  BY DEF Pairs
<1>2. /\ DOMAIN z = 1 .. 2 /\ z[k] = y[k]
      /\ \A n \in 1 .. 2 : n # k => z[n] = x[n]
  BY <1>1
<1>3. z = <<z[1], z[2]>>
  BY <1>2
<1>4. z \in Pairs
  BY <1>1, <1>2, <1>3 DEF Pairs
<1>5. x = y => z = y
  <2>1. y = <<y[1], y[2]>>
    BY DEF Pairs
  <2> QED
    BY <1>2, <1>3, <2>1
<1> QED
  BY <1>2, <1>4, <1>5 DEF Patch

-----------------------------------------------------------------------------
(* Types *)

\* A change that waits is about a thing of the watcher whose turn it is.
LEMMA Waiting ==
  ASSUME TypeOK
  PROVE  /\ \A c \in pending : c.item \in Watched /\ c.item \in Of(pc) /\ pc \in Pollers
         /\ pc \notin Pollers => pending = {} /\ ~alerting
         /\ pc # "check" => todo = {} /\ noted = {}
<1>1. \A c \in pending : c.item \in Of(pc) /\ pc \in Pollers
  BY Owners DEF TypeOK
<1> QED
  BY <1>1, Owners DEF TypeOK

\* The world changes.
LEMMA TypeChange ==
  ASSUME TypeOK, Shape, NEW i \in Things, Change(i)
  PROVE  TypeOK' /\ Shape'
<1>1. PICK r \in Readings(i) \ {world[i]} :
        /\ world' = [world EXCEPT ![i] = r]
        /\ past' = IF i \in Keys \/ pc = "off" THEN past
                   ELSE [past EXCEPT ![i] = Append(@, r)]
  BY DEF Change
<1>2. changes' \in 0 .. MaxChanges /\ UNCHANGED <<pc, watchers, os, db, history, faults>>
  BY PollersAssumption DEF Change, TypeOK
<1>3. r \in Values /\ r \in Readings(i) /\ (i \in Keys \/ i \in Watched)
  BY Kinds DEF Things
<1>4. world' \in [Things -> Values] /\ \A j \in Things : world'[j] \in Readings(j)
  <2>1. world' = [world EXCEPT ![i] = r] /\ world \in [Things -> Values]
    BY <1>1 DEF Shape
  <2>2. \A j \in Things : world[j] \in Readings(j)
    BY DEF TypeOK
  <2> QED
    BY <1>3, <2>1, <2>2
<1>5. past' \in [Watched -> Seq(Values)]
  <2>1. past \in [Watched -> Seq(Values)]
    BY DEF Shape
  <2>2. CASE i \in Keys \/ pc = "off"
    BY <1>1, <2>1, <2>2
  <2>3. CASE i \notin Keys /\ pc # "off"
    <3>1. Append(past[i], r) \in Seq(Values) /\ past' = [past EXCEPT ![i] = Append(past[i], r)]
      BY <1>1, <1>3, <2>1, <2>3
    <3> QED
      BY <2>1, <3>1
  <2> QED
    BY <2>2, <2>3
<1> QED
  BY <1>2, <1>4, <1>5 DEF TypeOK, Shape, watchers, os, db, history

\* What of the types concerns the operating system.
OsTypes ==
  /\ pc \in Pollers \cup {"os", "check", "census", "off"}
  /\ \A k \in Keys : info[k] \in Readings(k)
  /\ todo \subseteq Keys /\ noted \subseteq todo
  /\ (todo # {} <=> pc = "check")
  /\ \A d \in {conn, disk, durable} : \A k \in Keys : d.meta[k] \in Readings(k)
  /\ info \in [Keys -> Values]
  /\ {conn, disk, durable} \subseteq Database

\* What concerns the watchers.
WatcherTypes ==
  /\ \A i \in Watched : known[i] \in Readings(i) /\ told[i] \in Readings(i)
  /\ primed \subseteq Pollers /\ gaps \subseteq Watched
  /\ \A c \in pending :
       /\ c.item \in Of(pc) /\ c.from # c.to
       /\ c = [item |-> c.item, part |-> c.part, from |-> c.from, to |-> c.to]
       /\ c.from \in Readings(c.item) /\ c.to \in Readings(c.item)
  /\ alerting \in BOOLEAN /\ (alerting => pc \in Pollers)
  /\ restarts \in [Addons -> Nat]
  /\ known \in [Watched -> Values] /\ told \in [Watched -> Values]

LEMMA TypeParts ==
  TypeOK /\ Shape <=>
    /\ OsTypes /\ WatcherTypes
    /\ changes \in 0 .. MaxChanges /\ faults \in 0 .. MaxFaults
    /\ \A i \in Things : world[i] \in Readings(i)
    /\ world \in [Things -> Values] /\ past \in [Watched -> Seq(Values)]
  BY DEF TypeOK, Shape, OsTypes, WatcherTypes

\* The empty answer and the empty database.
LEMMA Empty ==
  /\ NoAnswer \in [Keys -> Values] /\ \A k \in Keys : NoAnswer[k] \in Readings(k)
  /\ NothingKnown \in [Watched -> Values]
  /\ \A i \in Watched : NothingKnown[i] \in Readings(i) /\ NothingKnown[i] = Missing
  BY Kinds DEF NoAnswer, NothingKnown, Things

\* Writing an event, and a version.
LEMMA Written ==
  ASSUME OsTypes, NEW k \in Keys
  PROVE  /\ OsEvent(k) \in Database /\ StoredOs(k) \in Database
         /\ OsEvent(k).meta = conn.meta /\ StoredOs(k).event = conn.event
         /\ OsEvent(k).event[k] = <<conn.meta[k], info[k]>>
         /\ \A j \in Keys : j # k => OsEvent(k).event[j] = conn.event[j]
         /\ StoredOs(k).meta[k] = info[k]
         /\ \A j \in Keys : j # k => StoredOs(k).meta[j] = conn.meta[j]
         /\ \A j \in Keys : /\ OsEvent(k).meta[j] \in Readings(j)
                            /\ StoredOs(k).meta[j] \in Readings(j)
<1>1. /\ conn \in Database /\ info[k] \in Values /\ conn.meta[k] \in Values
      /\ conn.meta \in [Keys -> Values] /\ conn.event \in [Keys -> Seq(Values)]
      /\ info[k] \in Readings(k) /\ \A j \in Keys : conn.meta[j] \in Readings(j)
  BY DEF OsTypes, Database
<1>2. <<conn.meta[k], info[k]>> \in Seq(Values)
  BY <1>1
<1>3. /\ OsEvent(k) = [meta |-> conn.meta,
                       event |-> [conn.event EXCEPT ![k] = <<conn.meta[k], info[k]>>]]
      /\ StoredOs(k) = [meta |-> [conn.meta EXCEPT ![k] = info[k]], event |-> conn.event]
  <2>1. conn = [meta |-> conn.meta, event |-> conn.event]
    BY <1>1 DEF Database
  <2> QED
    BY <2>1 DEF OsEvent, StoredOs
<1>4. [conn.event EXCEPT ![k] = <<conn.meta[k], info[k]>>] \in [Keys -> Seq(Values)]
  BY <1>1, <1>2
<1>5. [conn.meta EXCEPT ![k] = info[k]] \in [Keys -> Values]
  BY <1>1
<1> QED
  BY <1>1, <1>3, <1>4, <1>5 DEF Database

\* The check of the operating system.
LEMMA TypeCheck ==
  ASSUME TypeOK, Shape,
         \/ Check \/ AskOsFails \/ Census \/ CensusFails \/ Checkpoint
         \/ \E k \in Keys : CheckFails(k)
  PROVE  TypeOK' /\ Shape'
<1>1. OsTypes /\ WatcherTypes /\ (pc \notin Pollers => pending = {} /\ ~alerting)
  BY TypeParts, Waiting
<1>2. CASE AskOs
  <2>1. /\ info' = [k \in Keys |-> world[k]] /\ todo' = Keys /\ pc' = "check" /\ pc = "os"
        /\ UNCHANGED <<outside, watchers, noted, db, history, faults>>
    BY <1>2 DEF AskOs
  <2>2. info' \in [Keys -> Values] /\ \A k \in Keys : info'[k] \in Readings(k)
    BY <2>1 DEF TypeOK, Shape, Things
  <2>3. OsTypes'
    BY <1>1, <2>1, <2>2, PollersAssumption DEF OsTypes, db
  <2>4. WatcherTypes'
    BY <1>1, <2>1, Owners DEF WatcherTypes, watchers, history, Pollers
  <2> QED
    BY <2>1, <2>3, <2>4 DEF TypeOK, Shape, OsTypes, WatcherTypes, outside
<1>3. ASSUME NEW k \in Keys, NoteOsChange(k) \/ SetMeta(k) \/ Unchanged(k) \/ CheckFails(k)
      PROVE  TypeOK' /\ Shape'
  <2>1. /\ pc = "check" /\ pc' \in {"check", "census", "os"}
        /\ pending' = {} /\ alerting' = FALSE /\ UNCHANGED <<outside, known, primed, restarts, told>>
        /\ gaps' = gaps /\ faults' \in 0 .. MaxFaults
    <3>1. pc = "check" /\ pending = {} /\ alerting = FALSE
      BY <1>1, <1>3
         DEF NoteOsChange, SetMeta, Unchanged, CheckFails, OsTypes, Pollers, WatcherTypes
    <3>2. faults' \in 0 .. MaxFaults
      BY <1>3, PollersAssumption
         DEF NoteOsChange, SetMeta, Unchanged, CheckFails, Fault, TypeOK
    <3> QED
      BY <1>1, <1>3, <3>1, <3>2
         DEF NoteOsChange, SetMeta, Unchanged, CheckFails, Checked, CutPass, watchers, history
  <2>2. /\ todo' \subseteq Keys /\ noted' \subseteq todo'
        /\ (todo' # {} <=> pc' = "check")
        /\ info' \in {info, NoAnswer}
    BY <1>1, <1>3
       DEF NoteOsChange, SetMeta, Unchanged, CheckFails, Checked, CutPass, OsTypes
  <2>3. {conn', disk', durable'} \subseteq {conn, disk, durable, OsEvent(k), StoredOs(k)}
    BY <1>3 DEF NoteOsChange, SetMeta, Unchanged, CheckFails, Commit, Abandon, db
  <2>4. OsTypes'
    <3>1. /\ {conn', disk', durable'} \subseteq Database
          /\ \A d \in {conn', disk', durable'} : \A j \in Keys : d.meta[j] \in Readings(j)
      BY <1>1, <2>3, Written DEF OsTypes
    <3> QED
      BY <1>1, <2>1, <2>2, <3>1, Empty DEF OsTypes
  <2>5. WatcherTypes'
    BY <1>1, <2>1 DEF WatcherTypes
  <2> QED
    BY <2>1, <2>4, <2>5 DEF TypeOK, Shape, OsTypes, WatcherTypes, outside
<1>4. CASE AskOsFails \/ Census \/ CensusFails
  <2>1. /\ pc \in {"os", "census"} /\ pc' \in {"census", "addons", "os"}
        /\ pending' = {} /\ alerting' = FALSE
        /\ info' \in {info, NoAnswer} /\ todo' = {} /\ noted' = {}
        /\ UNCHANGED <<outside, known, primed, restarts, told, db>>
        /\ gaps' = gaps /\ faults' \in 0 .. MaxFaults
    <3>1. /\ pc \in {"os", "census"} /\ pending = {} /\ alerting = FALSE
          /\ todo = {} /\ noted = {}
      BY <1>1, <1>4
         DEF AskOsFails, Census, CensusFails, OsTypes, Pollers, WatcherTypes
    <3>2. faults' \in 0 .. MaxFaults
      BY <1>4, PollersAssumption DEF AskOsFails, Census, CensusFails, Fault, TypeOK
    <3> QED
      BY <1>4, <3>1, <3>2
         DEF AskOsFails, Census, CensusFails, CutPass, watchers, os, history
  <2>2. OsTypes' /\ WatcherTypes'
    BY <1>1, <2>1, Empty DEF OsTypes, WatcherTypes, db, Pollers
  <2> QED
    BY <2>1, <2>2 DEF TypeOK, Shape, OsTypes, WatcherTypes, outside
<1>5. CASE Checkpoint
  BY <1>5 DEF Checkpoint, TypeOK, Shape, outside, watchers, os, history
<1> QED
  BY <1>2, <1>3, <1>4, <1>5 DEF Check

\* What has been told once a change is recorded.
LEMMA TellType ==
  ASSUME TypeOK, Shape, TellInv, NEW c \in pending
  PROVE  /\ Told(c) \in Readings(c.item)
         /\ c.part = 0 => Told(c) = c.to
         /\ (c.part # 0 /\ told[c.item] \in Pairs) =>
              /\ Told(c) \in Pairs /\ Told(c)[c.part] = c.to[c.part]
              /\ \A n \in 1 .. 2 : n # c.part => Told(c)[n] = told[c.item][n]
              /\ told[c.item] = c.to => Told(c) = c.to
<1>1. /\ c.item \in Watched /\ c.to \in Readings(c.item) /\ told[c.item] \in Readings(c.item)
  BY Waiting DEF TypeOK, Shape
<1>2. CASE c.part = 0
  BY <1>1, <1>2 DEF Told
<1>3. CASE c.part # 0
  <2>1. c.part \in 1 .. 2 /\ c.item \in Interfaces /\ c.to \in Pairs
    BY <1>3 DEF TellInv, InParts
  <2>2. Told(c) = Patch(told[c.item], c.to, c.part)
    BY <1>3 DEF Told, Patch
  <2>3. CASE told[c.item] \in Pairs
    BY <1>3, <2>1, <2>2, <2>3, PairSet, Kinds
  <2>4. CASE told[c.item] = Missing
    <3>1. Told(c) = Missing
      BY <2>2, <2>4 DEF Missing, Patch
    <3> QED
      BY <1>3, <2>1, <2>4, <3>1, Kinds
  <2> QED
    BY <1>1, <2>1, <2>3, <2>4, Kinds
<1> QED
  BY <1>2, <1>3

-----------------------------------------------------------------------------
(* Comparing *)

\* The things that a watcher sees changed.
Seen(p) == {i \in Of(p) : ~Ignored(i, known[i], world[i])}

\* What a poll does, thing by thing.
LEMMA Compared ==
  ASSUME TypeOK, Shape, NEW p \in Pollers, Poll(p)
  PROVE  /\ pc = p /\ pending = {} /\ ~alerting
         /\ pc' \in {p, After(p)} /\ (pending' # {} => pc' = p)
         /\ known' = [i \in Watched |-> IF i \in Of(p) THEN world[i] ELSE known[i]]
         /\ primed' = primed \cup {p}
         /\ UNCHANGED <<outside, alerting, os, db, faults>>
         /\ p \in primed =>
              /\ \A c \in pending' :
                   \E i \in Seen(p) : \E k \in Parts(i, known[i], world[i]) :
                     c = [item |-> i, part |-> k, from |-> known[i], to |-> world[i]]
              /\ \A i \in Seen(p) : \A k \in Parts(i, known[i], world[i]) :
                   [item |-> i, part |-> k, from |-> known[i], to |-> world[i]] \in pending'
              /\ restarts' = [a \in Addons |->
                   IF a \in Seen(p) /\ Stops(known[a], world[a]) THEN restarts[a] + 1
                                                                 ELSE restarts[a]]
              /\ gaps' = gaps \cup {i \in Of(p) \ Seen(p) : known[i] # world[i]}
              /\ told' = told
         /\ p \notin primed =>
              /\ told' = [i \in Watched |-> IF i \in Of(p) THEN world[i] ELSE told[i]]
              /\ UNCHANGED <<pending, restarts, gaps>>
<1>1. /\ pc = p /\ pending = {} /\ ~alerting /\ Compare(p, world)
      /\ UNCHANGED <<outside, alerting, os, db, faults>>
  BY DEF Poll
<1>2. /\ known' = [i \in Watched |-> IF i \in Of(p) THEN world[i] ELSE known[i]]
      /\ primed' = primed \cup {p}
      /\ pc' = IF pending' = {} THEN After(p) ELSE p
  BY <1>1 DEF Compare
<1>3. CASE p \notin primed
  BY <1>1, <1>2, <1>3 DEF Compare
<1>4. CASE p \in primed
  <2>1. /\ pending' = UNION {Found(i, known[i], world[i]) : i \in Seen(p)}
        /\ restarts' = [a \in Addons |->
             IF a \in Seen(p) /\ Stops(known[a], world[a]) THEN restarts[a] + 1
                                                           ELSE restarts[a]]
        /\ gaps' = gaps \cup {i \in Of(p) \ Seen(p) : known[i] # world[i]}
        /\ told' = told
    BY <1>1, <1>4 DEF Compare, Seen
  <2>2. \A c \in pending' :
          \E i \in Seen(p) : \E k \in Parts(i, known[i], world[i]) :
            c = [item |-> i, part |-> k, from |-> known[i], to |-> world[i]]
    <3>1. \A c \in pending' : \E i \in Seen(p) : c \in Found(i, known[i], world[i])
      BY <2>1
    <3>2. \A i : \A c \in Found(i, known[i], world[i]) :
            \E k \in Parts(i, known[i], world[i]) :
              c = [item |-> i, part |-> k, from |-> known[i], to |-> world[i]]
      BY DEF Found
    <3> QED
      BY <3>1, <3>2
  <2>3. \A i \in Seen(p) : \A k \in Parts(i, known[i], world[i]) :
          [item |-> i, part |-> k, from |-> known[i], to |-> world[i]] \in pending'
    <3>1. \A i \in Seen(p) : Found(i, known[i], world[i]) \subseteq pending'
      BY <2>1
    <3>2. \A i : \A k \in Parts(i, known[i], world[i]) :
            [item |-> i, part |-> k, from |-> known[i], to |-> world[i]]
              \in Found(i, known[i], world[i])
      BY DEF Found
    <3> QED
      BY <3>1, <3>2
  <2> QED
    BY <1>1, <1>2, <1>4, <2>1, <2>2, <2>3
<1> QED
  BY <1>3, <1>4

\* A thing that is seen changed has parts that changed.
LEMMA SeenParts ==
  ASSUME TypeOK, NEW p \in Pollers, NEW i \in Seen(p)
  PROVE  /\ i \in Watched /\ i \in Of(p) /\ known[i] # world[i]
         /\ known[i] \in Readings(i) /\ world[i] \in Readings(i)
         /\ InParts(i, known[i], world[i]) =>
              /\ Parts(i, known[i], world[i]) \subseteq 1 .. 2
              /\ \A n \in 1 .. 2 : known[i][n] # world[i][n] =>
                   n \in Parts(i, known[i], world[i])
         /\ ~InParts(i, known[i], world[i]) => Parts(i, known[i], world[i]) = {0}
<1>1. /\ i \in Watched /\ i \in Of(p) /\ known[i] # world[i]
      /\ known[i] \in Readings(i) /\ world[i] \in Readings(i)
  BY Owners DEF Seen, Ignored, TypeOK, Things
<1>2. i \in Interfaces => (known[i] \in Pairs <=> known[i] # Missing)
                          /\ (world[i] \in Pairs <=> world[i] # Missing)
  BY <1>1, Kinds
<1> QED
  BY <1>1, <1>2 DEF InParts, Parts

\* The watchers.
LEMMA TypeWatch ==
  ASSUME TypeOK, Shape, TellInv,
         Watch \/ RecordFails \/ \E p \in Pollers : PollFails(p)
  PROVE  TypeOK' /\ Shape'
<1>0. /\ OsTypes /\ WatcherTypes /\ \A p \in Pollers : After(p) \in Pollers \cup {"os"}
      /\ faults \in 0 .. MaxFaults
  BY TypeParts, Owners
<1>1. ASSUME NEW p \in Pollers, Poll(p)
      PROVE  TypeOK' /\ Shape'
  <2>1. /\ pc = p /\ pending = {} /\ ~alerting
        /\ pc' \in {p, After(p)} /\ (pending' # {} => pc' = p)
        /\ known' = [i \in Watched |-> IF i \in Of(p) THEN world[i] ELSE known[i]]
        /\ primed' = primed \cup {p}
        /\ UNCHANGED <<outside, alerting, os, db, faults>>
    BY <1>1, Compared
  <2>2. \A i \in Watched : world[i] \in Readings(i) /\ world[i] \in Values
    BY Kinds DEF TypeOK, Things
  <2>3. known' \in [Watched -> Values] /\ \A i \in Watched : known'[i] \in Readings(i)
    BY <1>0, <2>1, <2>2 DEF WatcherTypes
  <2>4. told' \in [Watched -> Values] /\ \A i \in Watched : told'[i] \in Readings(i)
    <3>1. told' \in {told, [i \in Watched |-> IF i \in Of(p) THEN world[i] ELSE told[i]]}
      BY <1>1, Compared
    <3> QED
      BY <1>0, <2>2, <3>1 DEF WatcherTypes
  <2>5. restarts' \in [Addons -> Nat] /\ gaps' \subseteq Watched
    BY <1>0, <1>1, Compared, Owners DEF WatcherTypes
  <2>6. \A c \in pending' :
          /\ c.item \in Of(pc') /\ c.from # c.to
          /\ c = [item |-> c.item, part |-> c.part, from |-> c.from, to |-> c.to]
          /\ c.from \in Readings(c.item) /\ c.to \in Readings(c.item)
    <3> SUFFICES ASSUME NEW c \in pending'
                 PROVE  /\ c.item \in Of(pc') /\ c.from # c.to
                        /\ c = [item |-> c.item, part |-> c.part, from |-> c.from, to |-> c.to]
                        /\ c.from \in Readings(c.item) /\ c.to \in Readings(c.item)
      OBVIOUS
    <3>1. p \in primed /\ pc' = p
      BY <1>1, <2>1, Compared
    <3>2. PICK i \in Seen(p) : \E k \in Parts(i, known[i], world[i]) :
            c = [item |-> i, part |-> k, from |-> known[i], to |-> world[i]]
      BY <1>1, <3>1, Compared
    <3> QED
      BY <3>1, <3>2, SeenParts
  <2>7. WatcherTypes' /\ OsTypes'
    <3>1. WatcherTypes'
      BY <1>0, <2>1, <2>3, <2>4, <2>5, <2>6 DEF WatcherTypes
    <3>2. OsTypes'
      BY <1>0, <2>1, Owners DEF OsTypes, os, db, Pollers
    <3> QED
      BY <3>1, <3>2
  <2> QED
    BY <2>1, <2>7 DEF TypeOK, Shape, OsTypes, WatcherTypes, outside
<1>2. ASSUME NEW c \in pending, Record(c)
      PROVE  TypeOK' /\ Shape'
  <2>1. /\ pending' = pending \ {c} /\ told' = [told EXCEPT ![c.item] = Told(c)]
        /\ alerting' \in BOOLEAN /\ (pc' = pc \/ (pending' = {} /\ ~alerting' /\ pc' = After(pc)))
        /\ UNCHANGED <<outside, known, primed, restarts, os, db, gaps, faults>>
    <3>1. IsAlert(c) \in BOOLEAN
      BY DEF IsAlert
    <3>2. alerting' \in BOOLEAN
      BY <1>2, <3>1 DEF Record
    <3>3. pc' = pc \/ (pending' = {} /\ ~alerting' /\ pc' = After(pc))
      BY <1>2 DEF Record
    <3> QED
      BY <1>2, <3>2, <3>3 DEF Record
  <2>2. pc \in Pollers /\ c.item \in Watched /\ After(pc) \in Pollers \cup {"os"}
    BY Waiting, Owners
  <2>3. Told(c) \in Readings(c.item)
    BY TellType
  <2>4. told' \in [Watched -> Values] /\ \A i \in Watched : told'[i] \in Readings(i)
    <3>1. Told(c) \in Values
      BY <2>2, <2>3, Kinds DEF Things
    <3> QED
      BY <1>0, <2>1, <2>2, <2>3, <3>1 DEF WatcherTypes
  <2>5. WatcherTypes'
    BY <1>0, <2>1, <2>2, <2>4 DEF WatcherTypes
  <2>6. OsTypes'
    BY <1>0, <2>1, <2>2 DEF OsTypes, os, db, Pollers
  <2> QED
    BY <2>1, <2>5, <2>6 DEF TypeOK, Shape, OsTypes, WatcherTypes, outside
<1>3. ASSUME Alert \/ RecordFails \/ \E p \in Pollers : PollFails(p)
      PROVE  TypeOK' /\ Shape'
  <2>1. /\ pc \in Pollers /\ pending' \subseteq pending /\ alerting' = FALSE
        /\ pc' \in Pollers \cup {"os"} /\ (pending' # {} => pc' = pc)
        /\ UNCHANGED <<outside, known, primed, restarts, told, db>>
        /\ info' \in {info, NoAnswer} /\ todo' = {} /\ noted' = {}
    BY <1>0, <1>3, Waiting
       DEF Alert, RecordFails, PollFails, CutPass, watchers, os, history, Pollers
  <2>2. faults' \in 0 .. MaxFaults
    BY <1>0, <1>3, PollersAssumption DEF Alert, RecordFails, PollFails, Fault
  <2>3. gaps' \subseteq Watched
    <3>1. gaps' \subseteq gaps \cup {c.item : c \in pending}
      BY <1>3 DEF Alert, RecordFails, PollFails, CutPass, history
    <3> QED
      BY <1>0, <3>1, Waiting DEF WatcherTypes
  <2>4. WatcherTypes'
    BY <1>0, <2>1, <2>3 DEF WatcherTypes
  <2>5. OsTypes'
    BY <1>0, <2>1, Empty DEF OsTypes, db, Pollers
  <2> QED
    BY <2>1, <2>2, <2>4, <2>5 DEF TypeOK, Shape, OsTypes, WatcherTypes, outside
<1> QED
  BY <1>1, <1>2, <1>3 DEF Watch

\* The process.
LEMMA TypeProcess ==
  ASSUME TypeOK, Shape, Start \/ Crash \/ PowerLoss
  PROVE  TypeOK' /\ Shape'
<1>0. OsTypes /\ WatcherTypes /\ pending \subseteq {c \in pending : pc \in Pollers}
  BY TypeParts, Waiting
<1>1. CASE Start
  <2>1. /\ pc' = "addons" /\ past' = [i \in Watched |-> <<world[i]>>] /\ pending = {}
        /\ UNCHANGED <<world, changes, watchers, os, db, history, faults>>
    BY <1>0, <1>1 DEF Start, Pollers
  <2>2. past' \in [Watched -> Seq(Values)]
    BY <2>1 DEF Shape, Things
  <2>3. OsTypes' /\ WatcherTypes'
    BY <1>0, <1>1, <2>1
       DEF Start, OsTypes, WatcherTypes, watchers, os, db, history, Pollers
  <2> QED
    BY <2>1, <2>2, <2>3 DEF TypeOK, Shape, OsTypes, WatcherTypes
<1>2. CASE Crash \/ PowerLoss
  <2>1. /\ pc' = "off" /\ known' = NothingKnown /\ primed' = {} /\ pending' = {}
        /\ alerting' = FALSE /\ restarts' = [a \in Addons |-> 0]
        /\ info' = NoAnswer /\ todo' = {} /\ noted' = {}
        /\ told' = NothingKnown /\ gaps' = {} /\ past' = [i \in Watched |-> <<>>]
        /\ UNCHANGED <<world, changes>>
        /\ {conn', disk', durable'} \subseteq {conn, disk, durable}
    BY <1>2 DEF Crash, PowerLoss, Ends
  <2>2. faults' \in 0 .. MaxFaults
    BY <1>2, PollersAssumption DEF Crash, PowerLoss, Ends, Fault, TypeOK
  <2>3. past' \in [Watched -> Seq(Values)]
    BY <2>1
  <2>4. OsTypes'
    BY <1>0, <2>1, Empty DEF OsTypes
  <2>5. WatcherTypes'
    BY <2>1, Empty DEF WatcherTypes
  <2> QED
    BY <2>1, <2>2, <2>3, <2>4, <2>5 DEF TypeOK, Shape, OsTypes, WatcherTypes
<1> QED
  BY <1>1, <1>2

LEMMA TypeStep ==
  ASSUME TypeOK, Shape, TellInv, [Next]_vars
  PROVE  TypeOK' /\ Shape'
<1>1. CASE UNCHANGED vars
  BY <1>1 DEF vars, outside, watchers, os, db, history, TypeOK, Shape
<1> QED
  BY <1>1, TypeChange, TypeCheck, TypeWatch, TypeProcess DEF Next

-----------------------------------------------------------------------------
(* What is told *)

\* The steps that leave the watchers and the world as they are.
Aside ==
  \/ AskOs \/ (\E k \in Keys : NoteOsChange(k) \/ SetMeta(k) \/ Unchanged(k))
  \/ AskOsFails \/ Census \/ Alert \/ (\E p \in Pollers : PollFails(p))

LEMMA AsideLeaves ==
  ASSUME TypeOK, Aside
  PROVE  /\ UNCHANGED <<world, past, known, told, gaps, pending, primed, restarts>>
         /\ pc # "off" /\ pc' # "off"
<1>1. CASE AskOs \/ AskOsFails \/ Census
  BY <1>1 DEF AskOs, AskOsFails, Census, outside, watchers, history
<1>2. CASE \E k \in Keys : NoteOsChange(k) \/ SetMeta(k) \/ Unchanged(k)
  <2>1. pc = "check"
    BY <1>2 DEF NoteOsChange, SetMeta, Unchanged, TypeOK
  <2> QED
    BY <1>2, <2>1
       DEF NoteOsChange, SetMeta, Unchanged, Checked, outside, watchers, history
<1>3. CASE Alert \/ \E p \in Pollers : PollFails(p)
  <2>1. pc \in Pollers
    BY <1>3 DEF Alert, PollFails, TypeOK
  <2> QED
    BY <1>3, <2>1, Owners DEF Alert, PollFails, outside, watchers, history, Pollers
<1> QED
  BY <1>1, <1>2, <1>3 DEF Aside

\* The steps that cut a pass short.
Cut == CensusFails \/ RecordFails \/ \E k \in Keys : CheckFails(k)

LEMMA CutLeaves ==
  ASSUME TypeOK, Cut
  PROVE  /\ UNCHANGED <<world, past, known, told, primed, restarts>>
         /\ pc # "off" /\ pc' # "off"
         /\ pending' = {} /\ gaps' = gaps \cup {c.item : c \in pending}
         /\ todo' = {} /\ noted' = {} /\ info' = NoAnswer
<1>1. pc # "off"
  BY Waiting DEF Cut, CensusFails, RecordFails, CheckFails, TypeOK, Pollers
<1> QED
  BY <1>1 DEF Cut, CensusFails, RecordFails, CheckFails, CutPass, outside

\* Where nothing waits and nothing was dropped, all has been told.
LEMMA Settled ==
  ASSUME TellInv, NEW i \in Watched \ gaps, \A c \in pending : c.item # i
  PROVE  told[i] = known[i]
<1>1. told[i] \in Pairs /\ known[i] \in Pairs /\ told[i] # known[i] =>
        \E n \in 1 .. 2 : told[i][n] # known[i][n]
  BY PairsDiffer
<1> QED
  BY <1>1 DEF TellInv

LEMMA TellPoll ==
  ASSUME TypeOK, Shape, TellInv, NEW p \in Pollers, Poll(p)
  PROVE  TellInv'
<1>1. /\ pending = {} /\ primed' = primed \cup {p} /\ gaps \subseteq gaps'
      /\ known' = [i \in Watched |-> IF i \in Of(p) THEN world[i] ELSE known[i]]
  BY Compared
<1>2. \A i \in Watched \ gaps : told[i] = known[i]
  BY <1>1, Settled
<1>3. CASE p \notin primed
  <2>1. /\ told' = [i \in Watched |-> IF i \in Of(p) THEN world[i] ELSE told[i]]
        /\ pending' = {} /\ gaps' = gaps
    BY <1>1, <1>3, Compared
  <2>2. \A i \in Watched \ gaps : told'[i] = known'[i]
    BY <1>1, <1>2, <2>1
  <2> QED
    BY <2>1, <2>2 DEF TellInv
<1>4. CASE p \in primed
  <2>1. /\ told' = told /\ gaps' = gaps \cup {i \in Of(p) \ Seen(p) : known[i] # world[i]}
        /\ \A c \in pending' :
             \E i \in Seen(p) : \E k \in Parts(i, known[i], world[i]) :
               c = [item |-> i, part |-> k, from |-> known[i], to |-> world[i]]
        /\ \A i \in Seen(p) : \A k \in Parts(i, known[i], world[i]) :
             [item |-> i, part |-> k, from |-> known[i], to |-> world[i]] \in pending'
    BY <1>4, Compared
  <2>2. ASSUME NEW c \in pending'
        PROVE  /\ c.item \in Watched /\ c.to = known'[c.item] /\ c.from = known[c.item]
               /\ IF InParts(c.item, c.from, c.to) THEN c.part \in 1 .. 2 ELSE c.part = 0
    <3>1. PICK i \in Seen(p) : \E k \in Parts(i, known[i], world[i]) :
            c = [item |-> i, part |-> k, from |-> known[i], to |-> world[i]]
      BY <2>1
    <3>2. PICK k \in Parts(i, known[i], world[i]) :
            c = [item |-> i, part |-> k, from |-> known[i], to |-> world[i]]
      BY <3>1
    <3> QED
      BY <1>1, <3>2, SeenParts
  <2>3. ASSUME NEW i \in Watched \ gaps'
        PROVE  \/ told'[i] = known'[i]
               \/ \E c \in pending' : c.item = i /\ c.part = 0
               \/ /\ told'[i] \in Pairs /\ known'[i] \in Pairs /\ i \in Interfaces
                  /\ \A n \in 1 .. 2 : told'[i][n] # known'[i][n] =>
                       \E c \in pending' : c.item = i /\ c.part = n
    <3>1. told'[i] = known[i]
      BY <1>1, <1>2, <2>1
    <3>2. CASE i \notin Seen(p)
      BY <1>1, <2>1, <3>1, <3>2
    <3>3. CASE i \in Seen(p)
      <4>1. known'[i] = world[i]
        BY <1>1, <3>3, SeenParts
      <4>2. CASE InParts(i, known[i], world[i])
        <5>1. ASSUME NEW n \in 1 .. 2, known[i][n] # world[i][n]
              PROVE  \E c \in pending' : c.item = i /\ c.part = n
          <6>1. n \in Parts(i, known[i], world[i])
            BY <3>3, <4>2, <5>1, SeenParts
          <6> QED
            BY <2>1, <3>3, <6>1
        <5> QED
          BY <3>1, <4>1, <4>2, <5>1 DEF InParts
      <4>3. CASE ~InParts(i, known[i], world[i])
        <5>1. 0 \in Parts(i, known[i], world[i])
          BY <3>3, <4>3, SeenParts
        <5> QED
          BY <2>1, <3>3, <5>1
      <4> QED
        BY <4>2, <4>3
    <3> QED
      BY <3>2, <3>3
  <2> QED
    BY <2>2, <2>3 DEF TellInv
<1> QED
  BY <1>3, <1>4

LEMMA TellRecord ==
  ASSUME TypeOK, Shape, TellInv, NEW c \in pending, Record(c)
  PROVE  TellInv'
<1>1. /\ pending' = pending \ {c} /\ told' = [told EXCEPT ![c.item] = Told(c)]
      /\ UNCHANGED <<known, gaps>>
  BY DEF Record
<1>2. /\ told \in [Watched -> Values] /\ c.item \in Watched /\ c.to = known[c.item]
  BY Waiting DEF Shape, TellInv
<1>3. ASSUME NEW i \in Watched \ gaps
      PROVE  \/ told'[i] = known'[i]
             \/ \E d \in pending' : d.item = i /\ d.part = 0
             \/ /\ told'[i] \in Pairs /\ known'[i] \in Pairs /\ i \in Interfaces
                /\ \A n \in 1 .. 2 : told'[i][n] # known'[i][n] =>
                     \E d \in pending' : d.item = i /\ d.part = n
  <2>1. CASE i # c.item
    <3>1. told'[i] = told[i] /\ \A d \in pending : d.item = i => d \in pending'
      BY <1>1, <1>2, <2>1
    <3> QED
      BY <1>1, <3>1 DEF TellInv
  <2>2. CASE i = c.item
    <3>1. told'[i] = Told(c)
      BY <1>1, <1>2, <2>2
    <3>2. CASE c.part = 0
      BY <1>1, <1>2, <2>2, <3>1, <3>2, TellType
    <3>3. CASE c.part # 0
      <4>1. InParts(i, c.from, c.to) /\ known[i] \in Pairs /\ c.part \in 1 .. 2
        BY <1>2, <2>2, <3>3 DEF TellInv, InParts
      <4>2. \A d \in pending : d.item = i => d.part # 0
        <5>1. \A d \in pending : d.item = i => d.from = c.from /\ d.to = c.to
          BY <1>2, <2>2 DEF TellInv
        <5> QED
          BY <4>1, <5>1 DEF TellInv
      <4>3. told[i] \in Pairs /\ \A n \in 1 .. 2 : told[i][n] # known[i][n] =>
              \E d \in pending : d.item = i /\ d.part = n
        BY <4>1, <4>2 DEF TellInv
      <4>4. /\ told'[i] \in Pairs /\ told'[i][c.part] = known[i][c.part]
            /\ \A n \in 1 .. 2 : n # c.part => told'[i][n] = told[i][n]
        BY <1>2, <2>2, <3>1, <3>3, <4>3, TellType
      <4>5. ASSUME NEW n \in 1 .. 2, told'[i][n] # known[i][n]
            PROVE  \E d \in pending' : d.item = i /\ d.part = n
        <5>1. n # c.part
          BY <4>4, <4>5
        <5>2. PICK d \in pending : d.item = i /\ d.part = n
          BY <4>3, <4>4, <4>5, <5>1
        <5> QED
          BY <1>1, <5>1, <5>2
      <4> QED
        BY <1>1, <4>1, <4>4, <4>5 DEF InParts
    <3> QED
      BY <3>2, <3>3
  <2> QED
    BY <2>1, <2>2
<1> QED
  BY <1>1, <1>3 DEF TellInv

LEMMA TellStep ==
  ASSUME TypeOK, Shape, TellInv, [Next]_vars
  PROVE  TellInv'
<1>1. CASE Aside
  BY <1>1, AsideLeaves DEF TellInv
<1>2. CASE (\E i \in Things : Change(i)) \/ Start \/ Checkpoint \/ UNCHANGED vars
  <2>1. UNCHANGED <<known, told, gaps, pending>>
    BY <1>2 DEF Change, Start, Checkpoint, vars, watchers, history
  <2> QED
    BY <2>1 DEF TellInv
<1>3. CASE Cut
  <2>1. /\ UNCHANGED <<known, told>> /\ pending' = {}
        /\ gaps' = gaps \cup {c.item : c \in pending}
    BY <1>3, CutLeaves
  <2>2. \A i \in Watched \ gaps' : \A c \in pending : c.item # i
    BY <2>1
  <2>3. \A i \in Watched \ gaps' : told[i] = known[i]
    BY <2>1, <2>2, Settled
  <2> QED
    BY <2>1, <2>3 DEF TellInv
<1>4. CASE \E p \in Pollers : Poll(p)
  BY <1>4, TellPoll
<1>5. CASE \E c \in pending : Record(c)
  BY <1>5, TellRecord
<1>6. CASE Crash \/ PowerLoss
  BY <1>6 DEF Crash, PowerLoss, Ends, TellInv
<1> QED
  BY <1>1, <1>2, <1>3, <1>4, <1>5, <1>6 DEF Next, Check, Watch, Aside, Cut

-----------------------------------------------------------------------------
(* What happened *)

\* The past only grows: what was read at a moment stays there.
LEMMA Grows ==
  ASSUME NEW s \in Seq(Values), NEW r \in Values
  PROVE  LET t == Append(s, r)
         IN  /\ Len(t) = Len(s) + 1 /\ t[Len(t)] = r /\ t # <<>>
             /\ \A n \in 1 .. Len(s) : n \in 1 .. Len(t) /\ t[n] = s[n] /\ Starts(t, n) = Starts(s, n)
<1> DEFINE t == Append(s, r)
<1>1. /\ Len(s) \in Nat /\ Len(t) = Len(s) + 1 /\ t[Len(t)] = r /\ t # <<>>
      /\ \A n \in 1 .. Len(s) : n \in 1 .. Len(t) /\ t[n] = s[n]
      /\ DOMAIN s = 1 .. Len(s) /\ DOMAIN t = 1 .. Len(t)
  OBVIOUS
<1>2. ASSUME NEW n \in 1 .. Len(s)
      PROVE  Starts(t, n) = Starts(s, n)
  <2>1. {m \in DOMAIN t : t[m] = <<"started">> /\ m <= n}
          = {m \in DOMAIN s : s[m] = <<"started">> /\ m <= n}
    BY <1>1
  <2> QED
    BY <2>1 DEF Starts
<1> QED
  BY <1>1, <1>2

\* More starts lie before a later reading, and the reading itself may be one.
LEMMA MoreStarts ==
  ASSUME NEW s \in Seq(Values), NEW n \in 1 .. Len(s), NEW m \in 1 .. Len(s), m <= n
  PROVE  /\ Starts(s, n) \in Nat /\ Starts(s, m) <= Starts(s, n)
         /\ (m < n /\ s[n] = <<"started">>) => Starts(s, m) + 1 <= Starts(s, n)
         /\ s[n] = <<"started">> => 1 <= Starts(s, n)
<1> DEFINE at(k) == {j \in DOMAIN s : s[j] = <<"started">> /\ j <= k}
<1>1. Len(s) \in Nat /\ DOMAIN s = 1 .. Len(s)
  OBVIOUS
<1>2. IsFiniteSet(at(n)) /\ at(m) \subseteq at(n)
  <2>1. IsFiniteSet(1 .. Len(s))
    BY <1>1, FS_Interval
  <2>2. at(n) \subseteq 1 .. Len(s)
    BY <1>1
  <2>3. \A j \in 1 .. Len(s) : j <= m => j <= n
    BY <1>1
  <2>4. at(m) \subseteq at(n)
    BY <1>1, <2>3
  <2> QED
    BY <2>1, <2>2, <2>4, FS_Subset
<1>3. /\ IsFiniteSet(at(m)) /\ Cardinality(at(m)) \in Nat /\ Cardinality(at(n)) \in Nat
      /\ Cardinality(at(m)) <= Cardinality(at(n))
  BY <1>2, FS_Subset, FS_CardinalityType
<1>4. ASSUME m < n, s[n] = <<"started">> PROVE Cardinality(at(m)) + 1 <= Cardinality(at(n))
  <2>1. n \in at(n) /\ at(m) \subseteq at(n) \ {n}
    BY <1>1, <1>2, <1>4
  <2>2. IsFiniteSet(at(n) \ {n}) /\ Cardinality(at(n) \ {n}) = Cardinality(at(n)) - 1
    BY <1>2, <2>1, FS_RemoveElement
  <2>3. Cardinality(at(m)) <= Cardinality(at(n) \ {n})
    BY <2>1, <2>2, FS_Subset
  <2> QED
    BY <1>3, <2>2, <2>3
<1>5. ASSUME s[n] = <<"started">> PROVE 1 <= Cardinality(at(n))
  <2>1. n \in at(n)
    BY <1>1, <1>5
  <2>2. Cardinality(at(n)) # 0
    BY <1>2, <2>1, FS_EmptySet
  <2> QED
    BY <1>3, <2>2
<1> QED
  BY <1>3, <1>4, <1>5 DEF Starts

LEMMA PastChange ==
  ASSUME TypeOK, Shape, PastInv, NEW i \in Things, Change(i)
  PROVE  PastInv'
<1>1. PICK r \in Readings(i) \ {world[i]} :
        /\ world' = [world EXCEPT ![i] = r]
        /\ past' = IF i \in Keys \/ pc = "off" THEN past
                   ELSE [past EXCEPT ![i] = Append(@, r)]
  BY DEF Change
<1>2. /\ UNCHANGED <<pc, known, primed, pending, restarts>> /\ (i \in Keys => pc = "off")
      /\ r \in Values /\ world' = [world EXCEPT ![i] = r] /\ world \in [Things -> Values]
  BY <1>1, Kinds DEF Change, watchers, Shape
<1>3. CASE pc = "off"
  <2>1. past' = past /\ primed = {} /\ pending = {}
    BY <1>1, <1>3, Waiting DEF PastInv, Pollers
  <2> QED
    BY <1>2, <1>3, <2>1 DEF PastInv, NoPhantomChange
<1>4. CASE pc # "off"
  <2>1. /\ i \in Watched /\ past \in [Watched -> Seq(Values)] /\ past[i] \in Seq(Values)
        /\ past' = [past EXCEPT ![i] = Append(past[i], r)]
    BY <1>1, <1>2, <1>4 DEF Things, Shape
  <2>2. ASSUME NEW j \in Watched
        PROVE  /\ past'[j] # <<>> /\ past'[j][Len(past'[j])] = world'[j]
               /\ \A n \in 1 .. Len(past[j]) :
                    n \in 1 .. Len(past'[j]) /\ past'[j][n] = past[j][n]
                    /\ Starts(past'[j], n) = Starts(past[j], n)
    <3>1. CASE j = i
      <4>1. past'[j] = Append(past[j], r) /\ world'[j] = r /\ past[j] \in Seq(Values)
        BY <1>2, <2>1, <3>1 DEF Things
      <4> QED
        BY <1>2, <4>1, Grows
    <3>2. CASE j # i
      <4>1. past'[j] = past[j] /\ world'[j] = world[j]
        BY <1>2, <2>1, <3>2 DEF Things
      <4> QED
        BY <1>4, <4>1 DEF PastInv
    <3> QED
      BY <3>1, <3>2
  <2>3. /\ \A j \in Watched : DOMAIN past[j] = 1 .. Len(past[j]) /\ DOMAIN past'[j] = 1 .. Len(past'[j])
    BY <1>2, <2>1 DEF Shape
  <2>4. ASSUME NEW p \in primed, NEW j \in Of(p)
        PROVE  \E n \in 1 .. Len(past'[j]) : ReadAt(j, n)'
    <3>1. j \in Watched
      BY Owners DEF TypeOK
    <3>2. PICK n \in 1 .. Len(past[j]) : ReadAt(j, n)
      BY DEF PastInv
    <3> QED
      BY <1>2, <2>2, <2>3, <3>1, <3>2 DEF ReadAt
  <2>5. NoPhantomChange'
    <3> SUFFICES ASSUME NEW c \in pending
                 PROVE  \E m, n \in DOMAIN past'[c.item] :
                          m < n /\ past'[c.item][m] = c.from /\ past'[c.item][n] = c.to
      BY <1>2 DEF NoPhantomChange
    <3>1. c.item \in Watched
      BY Waiting
    <3>2. PICK m \in DOMAIN past[c.item], n \in DOMAIN past[c.item] :
            m < n /\ past[c.item][m] = c.from /\ past[c.item][n] = c.to
      BY DEF PastInv, NoPhantomChange
    <3> QED
      BY <2>2, <2>3, <3>1, <3>2
  <2> QED
    BY <1>2, <1>4, <2>2, <2>4, <2>5 DEF PastInv
<1> QED
  BY <1>3, <1>4

LEMMA PastPoll ==
  ASSUME TypeOK, Shape, PastInv, NEW p \in Pollers, Poll(p)
  PROVE  PastInv'
<1>1. /\ pc = p /\ pc' \in {p, After(p)} /\ primed' = primed \cup {p}
      /\ known' = [i \in Watched |-> IF i \in Of(p) THEN world[i] ELSE known[i]]
      /\ UNCHANGED <<world, past>> /\ pending = {}
  BY Compared DEF outside
<1>2. pc # "off" /\ pc' # "off" /\ \A i \in Watched : past[i] # <<>> /\ past[i][Len(past[i])] = world[i]
  BY <1>1, Owners DEF PastInv, Pollers
<1>3. \A i \in Watched : /\ past[i] \in Seq(Values) /\ DOMAIN past[i] = 1 .. Len(past[i])
                         /\ Len(past[i]) \in 1 .. Len(past[i])
  BY <1>2 DEF Shape
<1>4. \A a \in Addons : restarts[a] \in Nat
  BY DEF TypeOK
<1>5. ASSUME NEW q \in primed', NEW i \in Of(q)
      PROVE  \E n \in 1 .. Len(past[i]) : ReadAt(i, n)'
  <2>0. q \in Pollers /\ i \in Watched
    BY <1>1, Owners DEF TypeOK
  <2>1. CASE q # p
    <3>1. q \in primed /\ i \notin Of(p) /\ (i \in Addons => p # "addons")
      BY <1>1, <2>0, <2>1, Owners
    <3>2. PICK n \in 1 .. Len(past[i]) : ReadAt(i, n)
      BY <3>1 DEF PastInv
    <3>3. i \in Addons => restarts'[i] = restarts[i]
      <4>1. i \notin Seen(p)
        BY <3>1 DEF Seen
      <4> QED
        BY <4>1, Compared
    <3> QED
      BY <1>1, <2>0, <3>1, <3>2, <3>3 DEF ReadAt
  <2>2. CASE q = p
    <3> DEFINE l == Len(past[i])
    <3>1. known'[i] = world[i] /\ past[i][l] = known'[i] /\ l \in DOMAIN past[i] /\ l \in 1 .. l
      BY <1>1, <1>2, <1>3, <2>0, <2>2
    <3>2. i \in Addons => restarts'[i] + One(known'[i] = <<"started">>) <= Starts(past[i], l)
      <4> SUFFICES ASSUME i \in Addons
                   PROVE  restarts'[i] + One(known'[i] = <<"started">>) <= Starts(past[i], l)
        OBVIOUS
      <4>0. p = "addons"
        BY <2>2, Owners
      <4>1. CASE p \notin primed
        <5>1. restarts'[i] = 0
          BY <4>0, <4>1, Compared DEF PastInv
        <5> QED
          BY <1>3, <2>0, <3>1, <5>1, MoreStarts DEF One
      <4>2. CASE p \in primed
        <5>1. PICK n \in 1 .. l : ReadAt(i, n)
          BY <2>2, <4>2 DEF PastInv
        <5>2. restarts[i] + One(known[i] = <<"started">>) <= Starts(past[i], n) /\ past[i][n] = known[i]
          BY <5>1 DEF ReadAt
        <5>3. restarts'[i] <= restarts[i] + One(known[i] = <<"started">>) /\ restarts'[i] \in Nat
          <6>1. restarts'[i] = IF i \in Seen(p) /\ Stops(known[i], world[i]) THEN restarts[i] + 1
                                                                            ELSE restarts[i]
            BY <4>2, Compared
          <6> QED
            BY <1>4, <6>1 DEF Stops, One
        <5>4. world[i] = <<"started">> => restarts'[i] = restarts[i]
          BY <4>2, Compared DEF Stops
        <5>5. CASE world[i] # <<"started">>
          <6>1. One(known'[i] = <<"started">>) = 0
            BY <3>1, <5>5 DEF One
          <6>2. n \in 1 .. l /\ l \in 1 .. l /\ l \in Nat /\ n <= l
            BY <1>3, <2>0, <5>1
          <6>3. /\ Starts(past[i], n) \in Nat /\ Starts(past[i], l) \in Nat
                /\ Starts(past[i], n) <= Starts(past[i], l)
            BY <1>3, <2>0, <6>2, MoreStarts
          <6>4. restarts[i] + One(known[i] = <<"started">>) \in Nat
            BY <1>4 DEF One
          <6> QED
            BY <5>2, <5>3, <6>1, <6>3, <6>4
        <5>6. CASE world[i] = <<"started">> /\ n = l
          BY <3>1, <5>2, <5>4, <5>6
        <5>7. CASE world[i] = <<"started">> /\ n # l
          <6>1. n < l /\ Starts(past[i], n) + 1 <= Starts(past[i], l)
            BY <1>3, <2>0, <3>1, <5>1, <5>7, MoreStarts
          <6> QED
            BY <1>3, <1>4, <2>0, <3>1, <5>1, <5>2, <5>4, <5>7, <6>1, MoreStarts DEF One
        <5> QED
          BY <5>5, <5>6, <5>7
      <4> QED
        BY <4>1, <4>2
    <3> QED
      BY <1>1, <3>1, <3>2 DEF ReadAt
  <2> QED
    BY <2>1, <2>2
<1>6. "addons" \notin primed' => \A a \in Addons : restarts'[a] = 0
  <2> SUFFICES ASSUME "addons" \notin primed', NEW a \in Addons PROVE restarts'[a] = 0
    OBVIOUS
  <2>1. p # "addons" /\ restarts[a] = 0 /\ a \notin Of(p)
    BY <1>1, Owners DEF PastInv
  <2> QED
    BY <2>1, Compared DEF Seen
<1>7. NoPhantomChange'
  <2> SUFFICES ASSUME NEW c \in pending'
               PROVE  \E m, n \in DOMAIN past[c.item] :
                        m < n /\ past[c.item][m] = c.from /\ past[c.item][n] = c.to
    BY <1>1 DEF NoPhantomChange
  <2>1. p \in primed
    BY <1>1, Compared
  <2>2. PICK i \in Seen(p) : \E k \in Parts(i, known[i], world[i]) :
          c = [item |-> i, part |-> k, from |-> known[i], to |-> world[i]]
    BY <2>1, Compared
  <2>3. c.item = i /\ c.from = known[i] /\ c.to = world[i] /\ known[i] # world[i] /\ i \in Of(p)
        /\ i \in Watched
    BY <2>2, SeenParts
  <2>4. PICK m \in 1 .. Len(past[i]) : ReadAt(i, m)
    BY <2>1, <2>3 DEF PastInv
  <2>5. past[i][m] = known[i] /\ past[i][Len(past[i])] = world[i] /\ m # Len(past[i])
    BY <1>2, <2>3, <2>4 DEF ReadAt
  <2> QED
    BY <1>3, <2>3, <2>4, <2>5
<1> QED
  BY <1>1, <1>2, <1>5, <1>6, <1>7 DEF PastInv

LEMMA PastStep ==
  ASSUME TypeOK, Shape, PastInv, [Next]_vars
  PROVE  PastInv'
<1>1. CASE Aside \/ Cut \/ Checkpoint \/ UNCHANGED vars \/ \E c \in pending : Record(c)
  <2>1. /\ UNCHANGED <<world, past, known, primed, restarts>> /\ pending' \subseteq pending
        /\ (pc' = "off" <=> pc = "off")
    <3>1. CASE Aside \/ Cut
      BY <3>1, AsideLeaves, CutLeaves
    <3>2. CASE Checkpoint \/ UNCHANGED vars
      BY <3>2 DEF Checkpoint, vars, outside, watchers
    <3>3. CASE \E c \in pending : Record(c)
      <4>1. pc \in Pollers
        BY <3>3, Waiting
      <4>2. pc' \in {pc, After(pc)}
        BY <3>3 DEF Record
      <4> QED
        BY <3>3, <4>1, <4>2, Owners DEF Record, outside, Pollers
    <3> QED
      BY <1>1, <3>1, <3>2, <3>3
  <2> QED
    BY <2>1 DEF PastInv, ReadAt, NoPhantomChange
<1>2. CASE \E i \in Things : Change(i)
  BY <1>2, PastChange
<1>3. CASE \E p \in Pollers : Poll(p)
  BY <1>3, PastPoll
<1>4. CASE Start
  <2>1. /\ pc = "off" /\ pc' = "addons" /\ past' = [i \in Watched |-> <<world[i]>>]
        /\ UNCHANGED <<world, known, primed, restarts, pending>>
    BY <1>4 DEF Start, watchers
  <2>2. primed = {} /\ pending = {}
    BY <2>1, Waiting DEF PastInv, Pollers
  <2> QED
    BY <2>1, <2>2 DEF PastInv, NoPhantomChange
<1>5. CASE Crash \/ PowerLoss
  BY <1>5 DEF Crash, PowerLoss, Ends, PastInv, NoPhantomChange
<1> QED
  BY <1>1, <1>2, <1>3, <1>4, <1>5 DEF Next, Check, Watch, Aside, Cut

-----------------------------------------------------------------------------
(* The versions of the operating system *)

\* A write about a key: its version, or the event that it changes.
Write(k, d) ==
  /\ k \in todo /\ Differs(k)
  /\ \/ MaySet(k) /\ d = StoredOs(k)
     \/ noted = {} /\ d = OsEvent(k)

\* What it would commit is what the system reads, and has its event.
LEMMA WritesAreRecorded ==
  ASSUME TypeOK, Shape, OsInv, NEW k \in Keys, NEW d, Write(k, d), NEW j \in Keys,
         d.meta[j] # disk.meta[j]
  PROVE  d.meta[j] = world[j] /\ (disk.meta[j] # Missing => d.event[j] = <<disk.meta[j], d.meta[j]>>)
<1>0. OsTypes /\ info[k] = world[k] /\ conn.meta[k] # info[k]
  BY TypeParts DEF OsInv, Write, Differs
<1>1. conn.meta[k] = disk.meta[k]
  BY <1>0 DEF OsInv
<1>2. CASE MaySet(k) /\ d = StoredOs(k)
  <2>1. /\ d.meta[k] = info[k] /\ d.event = conn.event
        /\ \A i \in Keys : i # k => d.meta[i] = conn.meta[i]
    BY <1>0, <1>2, Written
  <2>2. CASE j = k
    <3>1. disk.meta[k] # Missing => conn.event[k] = <<conn.meta[k], info[k]>>
      BY <1>1, <1>2 DEF MaySet, OsInv
    <3> QED
      BY <1>0, <1>1, <2>1, <2>2, <3>1
  <2>3. CASE j # k
    <3>1. d.meta[j] = conn.meta[j] /\ conn.meta[j] # disk.meta[j] /\ d.event[j] = conn.event[j]
      BY <2>1, <2>3
    <3> QED
      BY <3>1 DEF OsInv
  <2> QED
    BY <2>2, <2>3
<1>3. CASE noted = {} /\ d = OsEvent(k)
  <2>1. d.meta = conn.meta /\ \A i \in Keys : i # k => d.event[i] = conn.event[i]
    BY <1>0, <1>3, Written
  <2>2. j # k /\ conn.meta[j] # disk.meta[j] /\ d.event[j] = conn.event[j]
    BY <1>1, <2>1
  <2> QED
    BY <2>1, <2>2 DEF OsInv
<1> QED
  BY <1>2, <1>3 DEF Write

\* What the check of a key does to the database.
LEMMA CheckWrites ==
  ASSUME TypeOK, NEW k \in Keys
  PROVE  /\ NoteOsChange(k) => Write(k, OsEvent(k)) /\ Commit(OsEvent(k))
         /\ SetMeta(k) => Write(k, StoredOs(k)) /\ Commit(StoredOs(k))
         /\ CheckFails(k) => \E d : Write(k, d) /\ Abandon(d)
<1>1. NoteOsChange(k) => Write(k, OsEvent(k)) /\ Commit(OsEvent(k))
  BY DEF NoteOsChange, Write
<1>2. SetMeta(k) => Write(k, StoredOs(k)) /\ Commit(StoredOs(k))
  BY DEF SetMeta, Write, MaySet
<1>3. ASSUME CheckFails(k) PROVE \E d : Write(k, d) /\ Abandon(d)
  <2>1. CASE MaySet(k)
    <3>1. Write(k, StoredOs(k)) /\ Abandon(StoredOs(k))
      BY <1>3, <2>1 DEF CheckFails, Write
    <3> QED
      BY <3>1
  <2>2. CASE ~MaySet(k)
    <3>1. Write(k, OsEvent(k)) /\ Abandon(OsEvent(k))
      BY <1>3, <2>2 DEF CheckFails, Write
    <3> QED
      BY <3>1
  <2> QED
    BY <2>1, <2>2
<1> QED
  BY <1>1, <1>2, <1>3

\* An exception leaves what the connection has open.
LEMMA OsAbandon ==
  ASSUME TypeOK, Shape, OsInv, NEW k \in Keys, CheckFails(k)
  PROVE  OsInv'
<1>1. PICK d : Write(k, d) /\ Abandon(d)
  BY CheckWrites
<1>2. /\ conn' \in {conn, d} /\ UNCHANGED <<disk, world>>
      /\ pc' = "os" /\ todo' = {} /\ noted' = {}
  BY <1>1 DEF Abandon, CheckFails, CutPass, outside
<1>3. \A j \in Keys : conn'.meta[j] # disk'.meta[j] =>
        /\ conn'.meta[j] = world'[j]
        /\ disk'.meta[j] # Missing => conn'.event[j] = <<disk'.meta[j], conn'.meta[j]>>
  <2>1. CASE conn' = conn
    BY <1>2, <2>1 DEF OsInv
  <2>2. CASE conn' = d
    BY <1>1, <1>2, <2>2, WritesAreRecorded
  <2> QED
    BY <1>2, <2>1, <2>2
<1> QED
  BY <1>2, <1>3 DEF OsInv

\* A commit leaves nothing open.
LEMMA OsCommit ==
  ASSUME TypeOK, Shape, OsInv, NEW k \in Keys, NoteOsChange(k) \/ SetMeta(k) \/ Unchanged(k)
  PROVE  OsInv'
<1>0. OsTypes /\ pc = "check"
  BY TypeParts DEF OsTypes, NoteOsChange, SetMeta, Unchanged
<1>1. CASE NoteOsChange(k)
  <2>1. /\ conn' = OsEvent(k) /\ disk' = conn' /\ noted' = {k}
        /\ UNCHANGED <<world, pc, info, todo>>
    BY <1>1 DEF NoteOsChange, Commit, outside
  <2>2. conn'.event[k] = <<conn'.meta[k], info[k]>>
    BY <1>0, <2>1, Written
  <2> QED
    BY <2>1, <2>2 DEF OsInv
<1>2. CASE SetMeta(k)
  <2>1. conn' = disk' /\ world' = world /\ noted' = {} /\ pc' # "off"
    BY <1>0, <1>2 DEF SetMeta, Commit, Checked, MaySet, OsTypes, outside
  <2>2. todo' # {} => todo # {} /\ info' = info
    BY <1>2 DEF SetMeta, Checked
  <2> QED
    BY <2>1, <2>2 DEF OsInv
<1>3. CASE Unchanged(k)
  <2>1. /\ UNCHANGED <<conn, disk, world>> /\ noted' = {} /\ pc' # "off"
        /\ (todo' # {} => todo # {} /\ info' = info)
    BY <1>0, <1>3 DEF Unchanged, Checked, outside, db
  <2> QED
    BY <2>1 DEF OsInv
<1> QED
  BY <1>1, <1>2, <1>3

LEMMA OsStep ==
  ASSUME TypeOK, Shape, OsInv, [Next]_vars
  PROVE  OsInv'
<1>1. ASSUME NEW i \in Things, Change(i)
      PROVE  OsInv'
  <2>1. UNCHANGED <<pc, conn, disk, info, todo, noted>> /\ (i \in Keys => pc = "off")
    BY <1>1 DEF Change, os, db
  <2>2. pc # "off" => \A k \in Keys : world'[k] = world[k]
    <3> SUFFICES ASSUME pc # "off", NEW k \in Keys PROVE world'[k] = world[k]
      OBVIOUS
    <3>1. i # k /\ \E r \in Readings(i) : world' = [world EXCEPT ![i] = r]
      BY <1>1, <2>1 DEF Change
    <3> QED
      BY <3>1 DEF Shape, Things
  <2>3. pc = "off" => conn = disk /\ todo = {} /\ noted = {}
    BY Waiting DEF OsInv
  <2> QED
    BY <2>1, <2>2, <2>3 DEF OsInv
<1>2. CASE AskOs
  <2>1. /\ pc = "os" /\ pc' = "check" /\ info' = [k \in Keys |-> world[k]]
        /\ UNCHANGED <<world, conn, disk, noted>>
    BY <1>2 DEF AskOs, outside, db
  <2>2. noted = {}
    BY <2>1, Waiting
  <2> QED
    BY <2>1, <2>2 DEF OsInv
<1>3. ASSUME NEW k \in Keys, NoteOsChange(k) \/ SetMeta(k) \/ Unchanged(k)
      PROVE  OsInv'
  BY <1>3, OsCommit
<1>4. ASSUME NEW k \in Keys, CheckFails(k)
      PROVE  OsInv'
  BY <1>4, OsAbandon
<1>5. CASE AskOsFails \/ Census \/ (\E p \in Pollers : Poll(p) \/ PollFails(p))
           \/ (\E c \in pending : Record(c)) \/ Alert \/ Start
  <2>1. UNCHANGED <<world, info, todo, noted, conn, disk>> /\ pc' # "off"
    <3>1. CASE AskOsFails \/ Census \/ Start
      BY <3>1 DEF AskOsFails, Census, Start, outside, os, db
    <3>2. CASE \E p \in Pollers : Poll(p) \/ PollFails(p)
      BY <3>2, Owners DEF Poll, Compare, PollFails, outside, os, db
    <3>3. CASE (\E c \in pending : Record(c)) \/ Alert
      <4>1. pc \in Pollers /\ pc' \in {pc, After(pc)} /\ UNCHANGED <<outside, os, db>>
        BY <3>3, Waiting DEF Record, Alert
      <4> QED
        BY <4>1, Owners DEF outside, os, db, Pollers
    <3> QED
      BY <1>5, <3>1, <3>2, <3>3
  <2> QED
    BY <2>1 DEF OsInv
<1>6. CASE CensusFails \/ RecordFails
  <2>1. UNCHANGED <<world, conn, disk>> /\ pc' = "os" /\ todo' = {} /\ noted' = {}
    BY <1>6 DEF CensusFails, RecordFails, CutPass, outside, db
  <2> QED
    BY <2>1 DEF OsInv
<1>7. CASE Crash \/ PowerLoss
  <2>1. conn' = disk' /\ todo' = {} /\ noted' = {}
    BY <1>7 DEF Crash, PowerLoss, Ends
  <2> QED
    BY <2>1 DEF OsInv
<1>8. CASE Checkpoint \/ UNCHANGED vars
  <2>1. UNCHANGED <<world, pc, info, todo, noted, conn, disk>>
    BY <1>8 DEF Checkpoint, vars, outside, os, db
  <2> QED
    BY <2>1 DEF OsInv
<1> QED
  BY <1>1, <1>2, <1>3, <1>4, <1>5, <1>6, <1>7, <1>8 DEF Next, Check, Watch

-----------------------------------------------------------------------------
(* The invariant *)

LEMMA Initially ==
  Init => Inv
<1> SUFFICES ASSUME Init PROVE Inv
  OBVIOUS
<1>1. \A i \in Things : Usual(i) \in Readings(i)
  <2>1. \A i \in Addons \cup Devices \cup Scopes : Usual(i) \in Readings(i)
    BY PollersAssumption DEF Usual, Readings
  <2>2. \A i \in Interfaces : Usual(i) \in Readings(i)
    <3>1. (CHOOSE s \in Settings : TRUE) \in Settings
      BY PollersAssumption
    <3> QED
      BY <3>1, PollersAssumption DEF Usual, Readings
  <2>3. \A i \in Keys : Usual(i) \in Readings(i)
    <3>1. (CHOOSE v \in Versions : TRUE) \in Versions
      BY PollersAssumption
    <3> QED
      BY <3>1, PollersAssumption DEF Usual, Readings
  <2> QED
    BY <2>1, <2>2, <2>3 DEF Things, Watched
<1>2. world = [i \in Things |-> Usual(i)] /\ \A i \in Things : world[i] \in Readings(i)
  BY <1>1 DEF Init
<1>3. /\ conn = [meta |-> NoAnswer, event |-> [k \in Keys |-> <<>>]] /\ disk = conn /\ durable = conn
      /\ info = NoAnswer /\ known = NothingKnown /\ told = NothingKnown
      /\ past = [i \in Watched |-> <<>>] /\ restarts = [a \in Addons |-> 0]
      /\ pc = "off" /\ pending = {} /\ primed = {} /\ gaps = {} /\ todo = {} /\ noted = {}
      /\ alerting = FALSE /\ changes = 0 /\ faults = 0
  BY DEF Init
<1>4. conn \in Database
  BY <1>3, Empty DEF Database
<1>5. TypeOK
  <2>1. /\ \A i \in Watched : known[i] \in Readings(i) /\ told[i] \in Readings(i)
        /\ \A k \in Keys : info[k] \in Readings(k)
    BY <1>3, Empty
  <2>2. \A d \in {conn, disk, durable} : \A k \in Keys : d.meta[k] \in Readings(k)
    BY <1>3, Empty
  <2>3. /\ changes \in 0 .. MaxChanges /\ faults \in 0 .. MaxFaults
        /\ restarts \in [Addons -> Nat]
    BY <1>3, PollersAssumption
  <2> QED
    BY <1>2, <1>3, <2>1, <2>2, <2>3 DEF TypeOK
<1>6. Shape
  BY <1>2, <1>3, <1>4, Empty, Kinds DEF Shape
<1>7. TellInv
  BY <1>3 DEF TellInv
<1>8. PastInv
  BY <1>3, Owners DEF PastInv, NoPhantomChange
<1>9. OsInv
  BY <1>3 DEF OsInv
<1> QED
  BY <1>5, <1>6, <1>7, <1>8, <1>9 DEF Inv

LEMMA Invariance ==
  Spec => []Inv
<1>1. Inv /\ [Next]_vars => Inv'
  BY TypeStep, TellStep, PastStep, OsStep DEF Inv
<1> QED
  BY <1>1, Initially, PTL DEF Spec

-----------------------------------------------------------------------------
(* Theorems *)

\* The events of a run tell all that its watchers know, but for the changes that
\* wait to be recorded, those an exception dropped and those passed over because
\* a thing came, went or was unknown: whatever requests failed, and in whatever
\* order the changes of one answer were recorded (_slow_loop and the watchers).
THEOREM NothingGoesUntold ==
  Spec => []EventsTellAll
<1>1. Inv => EventsTellAll
  <2> SUFFICES ASSUME Inv, NEW i \in Watched, i \notin gaps, \A c \in pending : c.item # i
               PROVE  told[i] = known[i]
    BY DEF Inv, EventsTellAll
  <2> QED
    BY Settled DEF Inv
<1> QED
  BY <1>1, Invariance, PTL

\* No event is about a change that did not happen: since the process started the
\* thing read as the event says, first the one and then the other.  An answer
\* that is missing at the start does not make everything seem new (hardware.py).
THEOREM NothingIsInvented ==
  Spec => []NoPhantomChange
<1>1. Inv => NoPhantomChange
  BY DEF Inv, PastInv
<1> QED
  BY <1>1, Invariance, PTL

\* The restarts counted for an add-on happened, each at a time of its own at which
\* the add-on left "started" (addons.py).
THEOREM RestartsAreReal ==
  Spec => []RestartsHappened
<1>1. Inv => RestartsHappened
  <2> SUFFICES ASSUME Inv, NEW a \in Addons
               PROVE  restarts[a] <= Cardinality({n \in DOMAIN past[a] :
                        past[a][n] = <<"started">> /\ n < Len(past[a])})
    BY DEF RestartsHappened
  <2> DEFINE s == past[a]
             left == {n \in DOMAIN s : s[n] = <<"started">> /\ n < Len(s)}
  <2>1. s \in Seq(Values) /\ DOMAIN s = 1 .. Len(s) /\ Len(s) \in Nat /\ restarts[a] \in Nat
    <3>1. past \in [Watched -> Seq(Values)] /\ a \in Watched /\ restarts[a] \in Nat
      BY Kinds DEF Inv, Shape, TypeOK
    <3> QED
      BY <3>1
  <2>2. IsFiniteSet(left) /\ Cardinality(left) \in Nat
    <3>1. IsFiniteSet(1 .. Len(s)) /\ left \subseteq 1 .. Len(s)
      BY <2>1, FS_Interval
    <3> QED
      BY <3>1, FS_Subset, FS_CardinalityType
  <2>3. CASE "addons" \notin primed
    <3>1. restarts[a] = 0
      BY <2>3 DEF Inv, PastInv
    <3> QED
      BY <2>2, <3>1
  <2>4. CASE "addons" \in primed
    <3>1. PICK n \in 1 .. Len(s) : ReadAt(a, n)
      BY <2>4 DEF Inv, PastInv, Of
    <3>2. s[n] = known[a] /\ restarts[a] + One(known[a] = <<"started">>) <= Starts(s, n)
      BY <3>1 DEF ReadAt
    <3> DEFINE upto == {m \in DOMAIN s : s[m] = <<"started">> /\ m <= n}
    <3>3. Starts(s, n) = Cardinality(upto) /\ Starts(s, n) \in Nat
      <4>1. n <= n
        BY <2>1
      <4>2. Starts(s, n) \in Nat
        BY <2>1, <4>1, MoreStarts
      <4> QED
        BY <4>2 DEF Starts
    <3>4. IsFiniteSet(upto)
      <4>1. IsFiniteSet(1 .. Len(s)) /\ upto \subseteq 1 .. Len(s)
        BY <2>1, FS_Interval
      <4> QED
        BY <4>1, FS_Subset
    <3>5. CASE known[a] = <<"started">>
      <4>1. n \in upto /\ upto \ {n} \subseteq left
        BY <2>1, <3>2, <3>5
      <4>2. Cardinality(upto \ {n}) = Cardinality(upto) - 1
        BY <3>4, <4>1, FS_RemoveElement
      <4>3. Cardinality(upto \ {n}) <= Cardinality(left)
        BY <2>2, <4>1, FS_Subset
      <4>4. restarts[a] + 1 <= Cardinality(upto)
        BY <3>2, <3>3, <3>5 DEF One
      <4> HIDE DEF left, upto
      <4>5. Cardinality(upto) \in Nat
        BY <3>3
      <4> QED
        BY <2>1, <2>2, <4>2, <4>3, <4>4, <4>5 DEF left
    <3>6. CASE known[a] # <<"started">>
      <4>1. upto \subseteq left
        BY <2>1, <3>2, <3>6
      <4>2. Cardinality(upto) <= Cardinality(left)
        BY <2>2, <4>1, FS_Subset
      <4>3. restarts[a] <= Cardinality(upto)
        BY <2>1, <3>2, <3>3, <3>6 DEF One
      <4> HIDE DEF left, upto
      <4>4. Cardinality(upto) \in Nat
        BY <3>3
      <4> QED
        BY <2>1, <2>2, <4>2, <4>3, <4>4 DEF left
    <3> QED
      BY <3>5, <3>6
  <2> QED
    BY <2>3, <2>4
<1> QED
  BY <1>1, Invariance, PTL

\* A stored version replaces another only in a commit that has its event, or in
\* a power cut that brings back one stored before: an exception between the event
\* and the version loses neither (_check_os_change).
THEOREM OsChangesAreTold ==
  Spec => OsChangeIsRecorded
<1>1. Inv /\ [Next]_vars =>
        [\A k \in Keys :
           disk.meta[k] # Missing /\ disk'.meta[k] \notin {disk.meta[k], durable.meta[k]}
             => disk'.event[k] = <<disk.meta[k], disk'.meta[k]>>]_vars
  <2> SUFFICES ASSUME Inv, Next, NEW j \in Keys, disk.meta[j] # Missing,
                      disk'.meta[j] # disk.meta[j], disk'.meta[j] # durable.meta[j]
               PROVE  disk'.event[j] = <<disk.meta[j], disk'.meta[j]>>
    OBVIOUS
  <2>1. CASE \E k \in Keys : NoteOsChange(k) \/ SetMeta(k)
    <3>1. PICK k \in Keys : Write(k, disk')
      BY <2>1, CheckWrites DEF Inv, Commit
    <3> QED
      BY <3>1, WritesAreRecorded DEF Inv
  <2>2. CASE PowerLoss
    BY <2>2 DEF PowerLoss
  <2>3. CASE ~PowerLoss /\ ~\E k \in Keys : NoteOsChange(k) \/ SetMeta(k)
    <3>1. disk' = disk
      <4>1. CASE (\E i \in Things : Change(i)) \/ AskOs \/ AskOsFails \/ Census \/ CensusFails
                 \/ (\E k \in Keys : Unchanged(k) \/ CheckFails(k))
        BY <4>1 DEF Change, AskOs, AskOsFails, Census, CensusFails, Unchanged, CheckFails, Abandon, db
      <4>2. CASE Watch \/ (\E p \in Pollers : PollFails(p)) \/ RecordFails
        BY <4>2 DEF Watch, Poll, Record, Alert, PollFails, RecordFails, db
      <4>3. CASE Start \/ Crash \/ Checkpoint
        BY <4>3 DEF Start, Crash, Checkpoint, db
      <4> QED
        BY <2>3, <4>1, <4>2, <4>3 DEF Next, Check
    <3> QED
      BY <3>1
  <2> QED
    BY <2>1, <2>2, <2>3
<1> QED
  BY <1>1, Invariance, PTL DEF Spec, OsChangeIsRecorded
=============================================================================
