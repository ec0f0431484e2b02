------------------------------- MODULE Pollers -------------------------------
(***************************************************************************)
(* The slow loop (main.py, _slow_loop) and what it watches: the versions   *)
(* of the operating system, the add-ons (collectors/addons.py), the        *)
(* devices (hardware.py) and the network (network.py).  A watcher keeps    *)
(* the last answer as its baseline and returns what differs; the loop then *)
(* records the changes one by one.  The baseline has moved by then: an     *)
(* exception in between drops the changes that are left.                   *)
(*                                                                         *)
(* A reading is a sequence, empty when the thing is missing or unknown: an *)
(* add-on's state, a device's presence, an interface's link and settings,  *)
(* a scope's reachability, a version.  The settings stand for address,     *)
(* gateway and name servers, which are compared alike, each by itself.     *)
(*                                                                         *)
(* The versions are compared with the database: as the connection sees it  *)
(* ("conn"), as committed ("disk"), as a power cut would leave it          *)
(* ("durable").                                                            *)
(*                                                                         *)
(* A definition commented "Variant" is a mistake the definition after it   *)
(* could contain; no specification uses it.                                *)
(***************************************************************************)
EXTENDS Naturals, Sequences, FiniteSets

CONSTANTS
  Addons, Devices, Interfaces,
  Scopes,      \* of internet reachability: the host, the Supervisor
  Keys,        \* of the operating system: its version, its boot slot
  Serial,      \* the tty devices
  Primary,     \* the primary interfaces
  Settings,    \* of an interface
  Versions,    \* values of a key
  MaxChanges,  \* bound: changes of the world
  MaxFaults    \* bound: requests without answer, exceptions, kills, power cuts

ASSUME PollersAssumption ==
  /\ Serial \subseteq Devices /\ Primary \subseteq Interfaces
  /\ Addons \cap (Devices \cup Interfaces \cup Scopes \cup Keys) = {}
  /\ Devices \cap (Interfaces \cup Scopes \cup Keys) = {}
  /\ Interfaces \cap (Scopes \cup Keys) = {} /\ Scopes \cap Keys = {}
  /\ Keys # {} /\ Settings # {} /\ Versions # {}
  /\ MaxChanges \in Nat /\ MaxFaults \in Nat

Watched == Addons \cup Devices \cup Interfaces \cup Scopes
Things == Watched \cup Keys

Missing == <<>>

\* The readings of a thing.
Readings(i) ==
  {Missing} \cup
    CASE i \in Addons     -> {<<s>> : s \in {"started", "stopped", "error"}}
      [] i \in Devices    -> {<<"present">>}
      [] i \in Interfaces -> {"up", "down"} \X Settings
      [] i \in Scopes     -> {<<s>> : s \in {"online", "offline"}}
      [] i \in Keys       -> {<<v>> : v \in Versions}

VARIABLES
  world,    \* the present reading of each thing
  past,     \* history: the readings of each thing since the process started
  changes,  \* changes of the world so far
  pc,       \* where the slow loop is, or "off"
  known,    \* the watchers' baselines
  primed,   \* the watchers that have one
  pending,  \* changes found and not yet recorded
  alerting, \* the change just recorded is being alerted
  restarts, \* of each add-on: the restarts counted
  info,     \* the answer about the operating system
  todo,     \* its keys not yet checked
  noted,    \* the key whose change has been recorded
  conn, disk, durable,  \* the database
  told,     \* history: what the events of this run say of each thing
  gaps,     \* history: things whose events may have a gap
  faults    \* faults so far

outside == <<world, past, changes>>
watchers == <<known, primed, pending, alerting, restarts>>
os == <<info, todo, noted>>
db == <<conn, disk, durable>>
history == <<told, gaps>>
vars == <<outside, pc, watchers, os, db, history, faults>>

Pollers == {"addons", "hardware", "network"}

\* The things a watcher watches.
Of(p) ==
  CASE p = "addons"   -> Addons
    [] p = "hardware" -> Devices
    [] p = "network"  -> Interfaces \cup Scopes
    [] OTHER          -> {}

NothingKnown == [i \in Watched |-> Missing]
NoAnswer == [k \in Keys |-> Missing]

TypeOK ==
  /\ \A i \in Things : world[i] \in Readings(i)
  /\ changes \in 0 .. MaxChanges /\ faults \in 0 .. MaxFaults
  /\ pc \in Pollers \cup {"os", "check", "census", "off"}
  /\ \A i \in Watched : known[i] \in Readings(i) /\ told[i] \in Readings(i)
  /\ primed \subseteq Pollers /\ gaps \subseteq Watched
  /\ \A c \in pending : c.item \in Of(pc) /\ c.from # c.to
  /\ alerting \in BOOLEAN /\ (alerting => pc \in Pollers)
  /\ restarts \in [Addons -> Nat]
  /\ \A k \in Keys : info[k] \in Readings(k)
  /\ todo \subseteq Keys /\ noted \subseteq todo
  /\ (todo # {} <=> pc = "check")
  /\ \A d \in {conn, disk, durable} : \A k \in Keys : d.meta[k] \in Readings(k)

\* Where the world starts; it may change before the process does.
Usual(i) ==
  CASE i \in Addons     -> <<"started">>
    [] i \in Devices    -> <<"present">>
    [] i \in Interfaces -> <<"up", CHOOSE s \in Settings : TRUE>>
    [] i \in Scopes     -> <<"online">>
    [] i \in Keys       -> <<CHOOSE v \in Versions : TRUE>>

Init ==
  /\ world = [i \in Things |-> Usual(i)]
  /\ past = [i \in Watched |-> <<>>]
  /\ changes = 0 /\ pc = "off"
  /\ known = NothingKnown /\ primed = {} /\ pending = {} /\ alerting = FALSE
  /\ restarts = [a \in Addons |-> 0]
  /\ info = NoAnswer /\ todo = {} /\ noted = {}
  /\ conn = [meta |-> NoAnswer, event |-> [k \in Keys |-> <<>>]]
  /\ disk = conn /\ durable = conn
  /\ told = NothingKnown /\ gaps = {}
  /\ faults = 0

\* Variant: the loop is not started again.
CutPassForGood ==
  /\ pc' = "dead"
  /\ pending' = {} /\ alerting' = FALSE
  /\ gaps' = gaps \cup {c.item : c \in pending}
  /\ info' = NoAnswer /\ todo' = {} /\ noted' = {}

\* The loop after an exception: it starts over, and what it had found is gone.
CutPass ==
  /\ pc' = "os"
  /\ pending' = {} /\ alerting' = FALSE
  /\ gaps' = gaps \cup {c.item : c \in pending}
  /\ info' = NoAnswer /\ todo' = {} /\ noted' = {}

Fault == faults < MaxFaults /\ faults' = faults + 1

\* A transaction that ends in a commit, and one that raises before it does.
Commit(d) == conn' = d /\ disk' = d /\ UNCHANGED durable
Abandon(d) == conn' \in {conn, d} /\ UNCHANGED <<disk, durable>>

-----------------------------------------------------------------------------
(* The world *)

\* Something changes.  The operating system does so in a reboot only.
Change(i) ==
  /\ changes < MaxChanges
  /\ i \in Keys => pc = "off"
  /\ \E r \in Readings(i) \ {world[i]} :
       /\ world' = [world EXCEPT ![i] = r]
       /\ past' = IF i \in Keys \/ pc = "off" THEN past
                  ELSE [past EXCEPT ![i] = Append(@, r)]
  /\ changes' = changes + 1
  /\ UNCHANGED <<pc, watchers, os, db, history, faults>>

-----------------------------------------------------------------------------
(* The versions of the operating system: _check_os_change *)

\* /os/info is asked.  Without an answer the check is left out.
AskOs ==
  /\ pc = "os"
  /\ info' = [k \in Keys |-> world[k]]
  /\ todo' = Keys /\ pc' = "check"
  /\ UNCHANGED <<outside, watchers, noted, db, history, faults>>

AskOsFails ==
  /\ pc = "os" /\ Fault
  /\ pc' = "census"
  /\ UNCHANGED <<outside, watchers, os, db, history>>

Differs(k) == info[k] # Missing /\ conn.meta[k] # info[k]

\* The keys of the answer are checked in turn; this one is done.
Checked(k) ==
  /\ todo' = todo \ {k} /\ noted' = noted \ {k}
  /\ IF todo' = {} THEN pc' = "census" /\ info' = NoAnswer ELSE UNCHANGED <<pc, info>>

\* The event of a change comes first, ...
OsEvent(k) == [conn EXCEPT !.event[k] = <<conn.meta[k], info[k]>>]

NoteOsChange(k) ==
  /\ k \in todo /\ noted = {}
  /\ Differs(k) /\ conn.meta[k] # Missing
  /\ Commit(OsEvent(k))
  /\ noted' = {k}
  /\ UNCHANGED <<outside, pc, watchers, info, todo, history, faults>>

\* Variant: the event is left out.
MaySetUnnoted(k) == Differs(k)

\* ... and then the version is stored.
MaySet(k) == Differs(k) /\ (noted # {} => noted = {k}) /\ (conn.meta[k] # Missing => k \in noted)

StoredOs(k) == [conn EXCEPT !.meta[k] = info[k]]

SetMeta(k) ==
  /\ k \in todo /\ MaySet(k)
  /\ Commit(StoredOs(k)) /\ Checked(k)
  /\ UNCHANGED <<outside, watchers, history, faults>>

Unchanged(k) ==
  /\ k \in todo /\ noted = {} /\ ~Differs(k)
  /\ Checked(k)
  /\ UNCHANGED <<outside, watchers, db, history, faults>>

\* Either write raises.
CheckFails(k) ==
  /\ k \in todo /\ Fault /\ Differs(k)
  /\ IF MaySet(k) THEN Abandon(StoredOs(k)) ELSE noted = {} /\ Abandon(OsEvent(k))
  /\ CutPass
  /\ UNCHANGED <<outside, known, primed, restarts, told>>

\* What the pass does next changes nothing here, but may raise.
Census ==
  /\ pc = "census" /\ pc' = "addons"
  /\ UNCHANGED <<outside, watchers, os, db, history, faults>>

CensusFails ==
  /\ pc = "census" /\ Fault /\ CutPass
  /\ UNCHANGED <<outside, known, primed, restarts, db, told>>

-----------------------------------------------------------------------------
(* The watchers: poll_states, poll and poll *)

After(p) == CASE p = "addons" -> "hardware" [] p = "hardware" -> "network" [] OTHER -> "os"

\* Not a change: an add-on that comes or goes, a scope that is not known.
Ignored(i, was, is) ==
  was = is \/ (i \in Addons \cup Scopes /\ Missing \in {was, is})

\* The parts of an interface that changed; 0 stands for a thing as a whole.
\* Variant: the first difference hides the others.
PartsFirst(i, was, is) ==
  IF i \in Interfaces /\ Missing \notin {was, is}
  THEN {IF was[1] # is[1] THEN 1 ELSE 2}
  ELSE {0}

Parts(i, was, is) ==
  IF i \in Interfaces /\ Missing \notin {was, is}
  THEN {k \in 1 .. 2 : was[k] # is[k]}
  ELSE {0}

Found(i, was, is) ==
  {[item |-> i, part |-> k, from |-> was, to |-> is] : k \in Parts(i, was, is)}

\* Variant: every transition counts.
StopsAlways(was, is) == was # is

Stops(was, is) == was = <<"started">> /\ is # <<"started">>

\* What a watcher does with an answer, which is a reading of each of its things.
Compare(p, answer) ==
  LET seen == {i \in Of(p) : ~Ignored(i, known[i], answer[i])}
  IN  /\ known' = [i \in Watched |-> IF i \in Of(p) THEN answer[i] ELSE known[i]]
      /\ primed' = primed \cup {p}
      /\ IF p \in primed
         THEN /\ pending' = UNION {Found(i, known[i], answer[i]) : i \in seen}
              /\ restarts' = [a \in Addons |->
                   IF a \in seen /\ Stops(known[a], answer[a]) THEN restarts[a] + 1
                                                              ELSE restarts[a]]
              /\ gaps' = gaps \cup
                   {i \in Of(p) \ seen : known[i] # answer[i]}
              /\ UNCHANGED told
         ELSE /\ told' = [i \in Watched |-> IF i \in Of(p) THEN answer[i] ELSE told[i]]
              /\ UNCHANGED <<pending, restarts, gaps>>
      /\ pc' = IF pending' = {} THEN After(p) ELSE p

\* The list of add-ons is never empty: it names this one.
Poll(p) ==
  /\ pc = p /\ pending = {} /\ ~alerting
  /\ Compare(p, world)
  /\ UNCHANGED <<outside, alerting, os, db, faults>>

\* Variant: no answer is an answer without things.
PollFailsEmpty(p) ==
  /\ pc = p /\ pending = {} /\ ~alerting /\ Fault
  /\ Compare(p, NothingKnown)
  /\ UNCHANGED <<outside, alerting, os, db>>

\* The request fails.
PollFails(p) ==
  /\ pc = p /\ pending = {} /\ ~alerting /\ Fault
  /\ pc' = After(p)
  /\ UNCHANGED <<outside, watchers, os, db, history>>

-----------------------------------------------------------------------------
(* Recording the changes: _poll_addon_states, _poll_hardware, _poll_network *)

IsAlert(c) ==
  \/ c.item \in Addons /\ c.to = <<"error">>
  \/ c.item \in Serial /\ c.to = Missing
  \/ c.item \in Primary /\ c.part = 1 /\ c.to[1] = "down"

\* The account of a thing once a change of it has been recorded.
Told(c) ==
  IF c.part = 0 THEN c.to
  ELSE [n \in DOMAIN told[c.item] |-> IF n = c.part THEN c.to[n] ELSE told[c.item][n]]

Record(c) ==
  /\ c \in pending /\ ~alerting
  /\ pending' = pending \ {c}
  /\ told' = [told EXCEPT ![c.item] = Told(c)]
  /\ alerting' = IsAlert(c)
  /\ pc' = IF pending' = {} /\ ~alerting' THEN After(pc) ELSE pc
  /\ UNCHANGED <<outside, known, primed, restarts, os, db, gaps, faults>>

Alert ==
  /\ alerting /\ alerting' = FALSE
  /\ pc' = IF pending = {} THEN After(pc) ELSE pc
  /\ UNCHANGED <<outside, known, primed, pending, restarts, os, db, history, faults>>

\* Recording or alerting raises.
RecordFails ==
  /\ pending # {} \/ alerting
  /\ Fault /\ CutPass
  /\ UNCHANGED <<outside, known, primed, restarts, db, told>>

-----------------------------------------------------------------------------
(* The process *)

\* The watchers are polled once before the loops start.
Start ==
  /\ pc = "off" /\ pc' = "addons"
  /\ past' = [i \in Watched |-> <<world[i]>>]
  /\ UNCHANGED <<world, changes, watchers, os, db, history, faults>>

\* The process ends, and with it its memory and the open transaction; in a
\* power cut also the commits that had not been synced.
Ends ==
  /\ pc # "off" /\ pc' = "off" /\ Fault
  /\ known' = NothingKnown /\ primed' = {} /\ pending' = {} /\ alerting' = FALSE
  /\ restarts' = [a \in Addons |-> 0]
  /\ info' = NoAnswer /\ todo' = {} /\ noted' = {}
  /\ told' = NothingKnown /\ gaps' = {}
  /\ past' = [i \in Watched |-> <<>>]
  /\ UNCHANGED <<world, changes>>

Crash == Ends /\ conn' = disk /\ UNCHANGED <<disk, durable>>

PowerLoss == Ends /\ conn' = durable /\ disk' = durable /\ UNCHANGED durable

\* SQLite syncs what has been committed.
Checkpoint ==
  /\ durable # disk /\ durable' = disk
  /\ UNCHANGED <<outside, pc, watchers, os, conn, disk, history, faults>>

-----------------------------------------------------------------------------
Check == AskOs \/ \E k \in Keys : NoteOsChange(k) \/ SetMeta(k) \/ Unchanged(k)

Watch == (\E p \in Pollers : Poll(p)) \/ (\E c \in pending : Record(c)) \/ Alert

Next ==
  \/ \E i \in Things : Change(i)
  \/ Check \/ AskOsFails \/ \E k \in Keys : CheckFails(k)
  \/ Census \/ CensusFails
  \/ Watch \/ (\E p \in Pollers : PollFails(p)) \/ RecordFails
  \/ Start \/ Crash \/ PowerLoss \/ Checkpoint

Spec == Init /\ [][Next]_vars

\* The event loop runs the slow loop, and every request ends or times out.
FairSpec == Spec /\ WF_vars(Check \/ Census \/ Watch)

-----------------------------------------------------------------------------
(* Properties *)

\* The events of a run tell what its watchers know: where no change was dropped
\* by an exception, or passed over because a thing came, went or was unknown,
\* each change continues where the last one ended, whatever requests failed.
EventsTellAll ==
  /\ TypeOK
  /\ \A i \in Watched :
       i \in gaps \/ told[i] = known[i] \/ \E c \in pending : c.item = i

\* hardware.py: "starting the add-on would report every device on the system as
\* newly attached".  No event is about a change that did not happen: the thing
\* read as it says since the process started, first the one and then the other.
NoPhantomChange ==
  \A c \in pending : \E m, n \in DOMAIN past[c.item] :
    m < n /\ past[c.item][m] = c.from /\ past[c.item][n] = c.to

\* The restarts counted for an add-on happened: each is a time it left "started".
RestartsHappened ==
  \A a \in Addons :
    restarts[a] <= Cardinality({n \in DOMAIN past[a] :
      past[a][n] = <<"started">> /\ n < Len(past[a])})

\* A version replaces another only after the event that tells of it, whatever
\* failed in between; what a power cut brings back was stored before.
OsChangeIsRecorded ==
  [][\A k \in Keys :
       disk.meta[k] # Missing /\ disk'.meta[k] \notin {disk.meta[k], durable.meta[k]}
         => disk'.event[k] = <<disk.meta[k], disk'.meta[k]>>]_vars

\* Once requests are answered and writes succeed again, the events catch up with
\* the world, and the stored versions with the operating system.
EventsCatchUp ==
  []<>(\/ pc = "off"
       \/ /\ \A i \in Watched : i \in gaps \/ told[i] = world[i]
          /\ \A k \in Keys : world[k] \in {Missing, conn.meta[k]})

=============================================================================
