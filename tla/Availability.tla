---------------------------- MODULE Availability ----------------------------
(***************************************************************************)
(* Entity availability as seen through the websocket: the tracker          *)
(* (collectors/availability.py, AvailabilityTracker), the part of the      *)
(* recorder watcher that feeds it (collectors/recorder.py), and the parts  *)
(* of main.py that restore it, save it, map entities to integrations and   *)
(* record a multi-integration outage.                                      *)
(*                                                                         *)
(* Core's side is external: it answers the requests of a connection in the *)
(* order they were sent, and streams state_changed events to a subscriber  *)
(* in the order they happen.  What happens while nobody is connected is    *)
(* never reported.                                                         *)
(*                                                                         *)
(* A definition commented "Variant" is a mistake the definition after it    *)
(* could contain; no specification uses it.                                 *)
(***************************************************************************)
EXTENDS Naturals, Sequences, FiniteSets

CONSTANTS
  Entities,         \* entity ids
  Integration,      \* the integration of each entity, as the registry has it
  Dead, Healthy,    \* the entity states: DEAD_STATES, and all others
  Window,           \* _window
  ChronicAfter,     \* _chronic_after
  MinIntegrations,  \* _min_integrations
  MinEntities,      \* _min_entities
  RegistryAnswers,  \* what the registry request may get: subset of BOOLEAN
  ComeAndGo,        \* may Core restart, and entities be added and removed?
  StorageFails,     \* may the storage raise?
  MaxTime,          \* bound: the clock stops here
  MaxChanges,       \* bound: state changes in Core
  Backlog,          \* bound: messages in flight when a state changes
  MaxSessions,      \* bound: websocket sessions
  MaxSaves,         \* bound: passes of the slow loop
  MaxRuns           \* bound: starts of the add-on

ASSUME AvailabilityAssumption ==
  /\ Window \in Nat \ {0} /\ ChronicAfter \in Nat \ {0}
  /\ MinIntegrations \in Nat \ {0} /\ MinEntities \in Nat \ {0}
  /\ DOMAIN Integration = Entities
  /\ Dead \cap Healthy = {}
  /\ RegistryAnswers \subseteq BOOLEAN
  /\ ComeAndGo \in BOOLEAN /\ StorageFails \in BOOLEAN
  /\ MaxTime \in Nat /\ MaxChanges \in Nat
  /\ Backlog \in Nat /\ MaxSessions \in Nat
  /\ MaxSaves \in Nat /\ MaxRuns \in Nat

\* None, and the state of an entity that does not exist.
Absent == "absent"
Unknown == "unknown integration"
ASSUME AbsentIsNoState == Absent \notin Dead \cup Healthy
ASSUME UnknownIsNoIntegration ==
  Unknown \notin {Integration[e] : e \in Entities}

States == Dead \cup Healthy \cup {Absent}
Integrations == {Integration[e] : e \in Entities} \cup {Unknown}

\* The clock is a unix time: it starts more than a window after 0.
StartTime == Window + 1

Tracked == [state : States, since : Nat]
NotTracked == [state |-> Absent, since |-> 0]
\* The n-th drop of an entity at a moment.
Drops == [ts : Nat, entity : Entities, integration : Integrations, n : Nat]
Outages == [run : Nat, ts : Nat, drops : SUBSET Drops]

VARIABLES
  clock,
  core,        \* Core's entities: state and last_changed
  requests,    \* requests of this session Core has not answered yet
  subscribed,  \* Core streams events to this session
  channel,     \* answers and events on their way to the add-on
  session,     \* "down", or what the session has: "open", "seeded"
  states,      \* AvailabilityTracker._states
  mapping,     \* _mapping_source
  registry,    \* _registry_available: "unanswered", "granted" or "refused"
  fallback,    \* the mapping loop is waiting for the template's answer
  drops,       \* _drops
  lastCluster, \* _last_cluster_ts
  outage,      \* the cluster being recorded, in a sequence of at most one
  outages,     \* the multi_integration_outage events of the event log
  table,       \* the entity_availability table
  saving,      \* the rows handed to save_availability's thread, likewise
  changes, sessions, saves, run,  \* counters
  healthyAt,   \* history: when each entity was last healthy in Core; 0 if it
               \* has been absent since
  brokenUntil, \* history: when each entity last recovered after ChronicAfter
  losses,      \* history: events healthy -> dead handled in the last Window
  unrecorded   \* history: when the last outage was raised that the storage refused

network == <<requests, subscribed, channel, session>>
tracker == <<states, drops, lastCluster>>
maps == <<mapping, registry, fallback>>
storage == <<table, saving>>
counts == <<changes, sessions, saves, run>>
history == <<healthyAt, brokenUntil, losses, unrecorded>>
vars == <<clock, core, network, tracker, maps, outage, outages, storage,
          counts, history>>

Messages ==
  [kind : {"event"}, entity : Entities, old : States, new : States]
    \cup [kind : {"registry"}, granted : BOOLEAN]
    \cup [kind : {"states"}, core : [Entities -> Tracked]]

TypeOK ==
  /\ clock \in Nat /\ core \in [Entities -> Tracked]
  /\ requests \in Seq({"subscribe", "registry", "states"})
  /\ subscribed \in BOOLEAN /\ channel \in Seq(Messages)
  /\ session \in {"down", "open", "seeded"}
  /\ states \in [Entities -> Tracked] /\ drops \subseteq Drops
  /\ lastCluster \in Nat
  /\ mapping \in {"none", "entity_registry", "template_fallback"}
  /\ registry \in {"unanswered", "granted", "refused"} /\ fallback \in BOOLEAN
  /\ outage \in Seq(Outages) /\ outages \in Seq(Outages)
  /\ table \in [Entities -> Tracked] /\ saving \in Seq([Entities -> Tracked])
  /\ changes \in Nat /\ sessions \in Nat /\ saves \in Nat /\ run \in Nat
  /\ healthyAt \in [Entities -> Nat] /\ brokenUntil \in [Entities -> Nat]
  /\ losses \subseteq Drops /\ unrecorded \in Nat

Nothing == [e \in Entities |-> NotTracked]

Init ==
  /\ clock = StartTime
  /\ core \in [Entities -> [state : Dead \cup Healthy, since : {StartTime}]]
  /\ requests = <<>> /\ subscribed = FALSE /\ channel = <<>> /\ session = "down"
  /\ states = Nothing /\ drops = {} /\ lastCluster = 0
  /\ mapping = "none" /\ registry = "unanswered" /\ fallback = FALSE
  /\ outage = <<>> /\ outages = <<>>
  /\ table = Nothing /\ saving = <<>>
  /\ changes = 0 /\ sessions = 0 /\ saves = 0 /\ run = 1
  /\ healthyAt = [e \in Entities |-> StartTime]
  /\ brokenUntil = [e \in Entities |-> 0] /\ losses = {} /\ unrecorded = 0

\* _is_chronic.
IsChronic(record) ==
  record.state \in Dead /\ clock - record.since >= ChronicAfter

-----------------------------------------------------------------------------
(* Core *)

Tick ==
  /\ clock < MaxTime
  /\ clock' = clock + 1
  /\ UNCHANGED <<core, network, tracker, maps, outage, outages, storage, counts,
                 history>>

\* A state changes; an entity may be added or removed.
CoreChange ==
  /\ changes < MaxChanges /\ Len(channel) < Backlog
  /\ changes' = changes + 1
  /\ \E e \in Entities, s \in States :
       LET old == core[e].state
       IN  /\ s # old
           /\ Absent \in {s, old} => ComeAndGo
           /\ core' = [core EXCEPT ![e] = [state |-> s, since |-> clock]]
           /\ healthyAt' = [healthyAt EXCEPT ![e] =
                 CASE s = Absent -> 0
                   [] s # Absent /\ old \in Healthy -> clock
                   [] s # Absent /\ old \notin Healthy -> @]
           /\ brokenUntil' =
                IF old \in Dead /\ s \in Healthy /\ IsChronic(core[e])
                  THEN [brokenUntil EXCEPT ![e] = clock] ELSE brokenUntil
           /\ channel' = IF subscribed
                 THEN Append(channel, [kind |-> "event", entity |-> e,
                                       old |-> old, new |-> s])
                 ELSE channel
  /\ UNCHANGED <<clock, requests, subscribed, session, tracker, maps, outage,
                 outages, storage, sessions, saves, run, losses, unrecorded>>

\* Core answers the next request.
CoreAnswers ==
  /\ requests # <<>>
  /\ requests' = Tail(requests)
  /\ LET request == Head(requests)
     IN  /\ subscribed' = (subscribed \/ request = "subscribe")
         /\ \/ request = "subscribe" /\ UNCHANGED channel
            \/ /\ request = "registry"
               /\ \E granted \in RegistryAnswers :
                    channel' = Append(channel, [kind |-> "registry",
                                                granted |-> granted])
            \/ /\ request = "states"
               /\ channel' = Append(channel, [kind |-> "states", core |-> core])
  /\ UNCHANGED <<clock, core, session, tracker, maps, outage, outages, storage,
                 counts, history>>

\* The connection is lost, and what was on its way with it.
HangUp ==
  /\ requests' = <<>> /\ subscribed' = FALSE /\ channel' = <<>>
  /\ session' = "down"

Disconnect ==
  /\ session # "down"
  /\ HangUp
  /\ UNCHANGED <<clock, core, tracker, maps, outage, outages, storage, counts,
                 history>>

\* Core restarts: its entities are gone until their integrations add them.
CoreRestart ==
  /\ ComeAndGo /\ changes < MaxChanges
  /\ changes' = changes + 1
  /\ core' = Nothing
  /\ healthyAt' = [e \in Entities |-> 0]
  /\ HangUp
  /\ UNCHANGED <<clock, tracker, maps, outage, outages, storage, sessions, saves, run,
                 brokenUntil, losses, unrecorded>>

-----------------------------------------------------------------------------
(* The watcher *)

\* Variant: the snapshot is asked for before the subscription.
SnapshotFirst == <<"registry", "states", "subscribe">>

\* What _session sends once authenticated, and in which order.
SessionRequests == <<"subscribe", "registry", "states">>

Connect ==
  /\ session = "down" /\ outage = <<>> /\ sessions < MaxSessions
  /\ sessions' = sessions + 1
  /\ requests' = SessionRequests
  /\ session' = "open"
  /\ UNCHANGED <<clock, core, subscribed, channel, tracker, maps, outage,
                 outages, storage, changes, saves, run, history>>

\* The next message, unless the handler of the last one is still waiting.
Receive(kind) ==
  /\ channel # <<>> /\ outage = <<>>
  /\ Head(channel).kind = kind
  /\ channel' = Tail(channel)

PlatformFor(e) == IF mapping = "none" THEN Unknown ELSE Integration[e]

\* _prune.
Pruned(ds) == {d \in ds : d.ts + Window >= clock}

\* The integrations that qualify in check_cluster, from the drops that count.
Counted(ds, known) ==
  {d \in ds : d.integration # Unknown /\ ~IsChronic(known[d.entity])}

Affected(ds) ==
  {i \in Integrations : Cardinality({d \in ds : d.integration = i}) >= MinEntities}

\* AvailabilityTracker.observe: is this event a drop, given what is tracked?
IsDrop(m) ==
  /\ m.new \in Dead
  /\ states[m.entity].state \notin Dead /\ m.old \notin Dead

\* observe: what is tracked of the entity, afterwards.
Observed(m) ==
  IF states[m.entity].state = m.new THEN states
  ELSE [states EXCEPT ![m.entity] = [state |-> m.new, since |-> clock]]

Drop(m) ==
  [ts |-> clock, entity |-> m.entity, integration |-> PlatformFor(m.entity),
   n |-> Cardinality({d \in drops : d.ts = clock /\ d.entity = m.entity})]

\* Variants: the suppression lasts a second more, or less.
MayAlertAfter == clock - lastCluster > Window
MayAlertBefore == clock - lastCluster + 1 >= Window

\* check_cluster: one outage, one alert.
MayAlert == clock - lastCluster >= Window

\* check_cluster.
CheckCluster(ds, known) ==
  LET counted == Counted(ds, known)
  IN  IF /\ Cardinality(Affected(counted)) >= MinIntegrations
         /\ MayAlert
        THEN /\ lastCluster' = clock
             /\ outage' = <<[run |-> run, ts |-> clock, drops |->
                  {d \in counted : d.integration \in Affected(counted)}]>>
        ELSE UNCHANGED <<lastCluster, outage>>

\* _handle_event.  The removal of an entity is ignored.
HandleEvent ==
  /\ Receive("event")
  /\ LET m == Head(channel)
     IN  /\ losses' = IF m.old \in Healthy /\ m.new \in Dead /\ session = "seeded"
                        THEN Pruned(losses \cup {Drop(m)}) ELSE losses
         /\ \/ m.new = Absent /\ UNCHANGED <<tracker, outage>>
            \/ /\ m.new # Absent
               /\ states' = Observed(m)
               /\ \/ /\ IsDrop(m)
                     /\ drops' = Pruned(drops \cup {Drop(m)})
                     /\ CheckCluster(drops', states')
                  \/ ~IsDrop(m) /\ UNCHANGED <<drops, lastCluster, outage>>
  /\ UNCHANGED <<clock, core, requests, subscribed, session, maps, outages,
                 storage, counts, healthyAt, brokenUntil, unrecorded>>

\* Variant: an entity whose state is known keeps its "since".
SeededState(sent, known) ==
  IF sent.state = Absent THEN known
  ELSE [sent EXCEPT !.since = IF known.state = sent.state THEN known.since ELSE @]

\* seed, if the entity is in the snapshot.
Seeded(sent, known) == IF sent.state = Absent THEN known ELSE sent

\* _handle_states: seed every entity of the snapshot, with its last_changed.
HandleStates ==
  /\ Receive("states")
  /\ LET snapshot == Head(channel).core
     IN  states' = [e \in Entities |-> Seeded(snapshot[e], states[e])]
  /\ session' = "seeded"
  /\ UNCHANGED <<clock, core, requests, subscribed, drops, lastCluster, maps,
                 outage, outages, storage, counts, history>>

\* _handle_registry, and _handle when the request is refused.
HandleRegistry ==
  /\ Receive("registry")
  /\ \/ /\ Head(channel).granted
        /\ registry' = "granted" /\ mapping' = "entity_registry"
     \/ /\ ~Head(channel).granted
        /\ registry' = "refused" /\ UNCHANGED mapping
  /\ UNCHANGED <<clock, core, requests, subscribed, session, tracker, fallback,
                 outage, outages, storage, counts, history>>

\* _on_integration_cluster: the event is written, then the alert.
RecordOutage ==
  /\ outage # <<>>
  /\ outages' = outages \o outage
  /\ outage' = <<>>
  /\ UNCHANGED <<clock, core, network, tracker, maps, storage, counts, history>>

\* The storage raises: the exception ends the session, and _last_cluster_ts stays.
\* If it was the commit that failed, whoever writes next commits the event.
RecordOutageFails ==
  /\ StorageFails /\ outage # <<>>
  /\ outages' \in {outages, outages \o outage}
  /\ outage' = <<>> /\ unrecorded' = lastCluster
  /\ HangUp
  /\ UNCHANGED <<clock, core, tracker, maps, storage, counts, healthyAt,
                 brokenUntil, losses>>

-----------------------------------------------------------------------------
(* The other loops, and restarts *)

\* _mapping_loop: the registry was refused, so ask for the template.
AskFallback ==
  /\ registry = "refused" /\ ~fallback
  /\ fallback' = TRUE
  /\ UNCHANGED <<clock, core, network, tracker, mapping, registry, outage,
                 outages, storage, counts, history>>

\* The answer arrives; it may be empty.
AnswerFallback ==
  /\ fallback
  /\ fallback' = FALSE
  /\ mapping' \in {mapping, "template_fallback"}
  /\ UNCHANGED <<clock, core, network, tracker, registry, outage, outages,
                 storage, counts, history>>

\* _slow_loop: persistable_states, then save_availability in a thread.
TakeRows ==
  /\ saving = <<>> /\ saves < MaxSaves
  /\ saves' = saves + 1
  /\ saving' = <<[e \in Entities |-> IF states[e].state \in Dead
                                       THEN states[e] ELSE NotTracked]>>
  /\ UNCHANGED <<clock, core, network, tracker, maps, outage, outages, table,
                 changes, sessions, run, history>>

SaveRows ==
  /\ saving # <<>>
  /\ table' = Head(saving)
  /\ saving' = <<>>
  /\ UNCHANGED <<clock, core, network, tracker, maps, outage, outages, counts,
                 history>>

\* The storage raises, perhaps between the DELETE and the INSERT: the table is
\* then empty, and whoever writes next commits that.
SaveRowsFails ==
  /\ StorageFails /\ saving # <<>>
  /\ table' \in {table, Nothing}
  /\ saving' = <<>>
  /\ UNCHANGED <<clock, core, network, tracker, maps, outage, outages, counts,
                 history>>

\* The add-on is stopped or killed and started again: a new tracker is seeded
\* from the table.
Restart ==
  /\ run < MaxRuns
  /\ run' = run + 1
  /\ HangUp
  /\ states' = table /\ drops' = {} /\ lastCluster' = 0
  /\ mapping' = "none" /\ registry' = "unanswered" /\ fallback' = FALSE
  /\ outage' = <<>> /\ saving' = <<>> /\ losses' = {} /\ unrecorded' = 0
  /\ UNCHANGED <<clock, core, outages, table, changes, sessions, saves, healthyAt,
                 brokenUntil>>

Next ==
  \/ Tick \/ CoreChange \/ CoreAnswers \/ Disconnect \/ CoreRestart
  \/ Connect \/ HandleEvent \/ HandleStates \/ HandleRegistry
  \/ RecordOutage \/ RecordOutageFails
  \/ AskFallback \/ AnswerFallback \/ TakeRows \/ SaveRows \/ SaveRowsFails
  \/ Restart

Spec == Init /\ [][Next]_vars

-----------------------------------------------------------------------------
(* Properties *)

\* The tracker has been seeded in this session and has handled every message.
InSync == session = "seeded" /\ channel = <<>>

\* Once seeded and caught up, the tracker agrees with Core about every entity
\* there is, whatever was missed while disconnected: the snapshot is asked for
\* after the subscription, so no change falls between the two.
ViewConverges ==
  /\ TypeOK
  /\ InSync => \A e \in Entities :
       core[e].state # Absent => states[e].state = core[e].state

\* An entity listed as chronic has not been healthy for ChronicAfter: no stale
\* "since" survives a reconnect, a restored table or a recovery that was missed.
\* Nothing is promised of an entity that has been absent since it was healthy: a
\* snapshot without it leaves its old record as it is.
ChronicIsTrue ==
  InSync => \A e \in Entities :
    (core[e].state # Absent /\ IsChronic(states[e])) =>
      clock - healthyAt[e] >= ChronicAfter

\* The integrations that have lost enough, by the losses ds of entities that the
\* tracker does not list as chronic.
Hit(ds) ==
  Affected({d \in ds : ~IsChronic(states'[d.entity])}) \ {Unknown}

\* The last outage raised is in the event log or about to be, unless the storage
\* refused it.
LastIsRecorded ==
  lastCluster # 0 =>
    \/ outage # <<>> \/ unrecorded = lastCluster
    \/ \E i \in 1..Len(outages) :
         outages[i].run = run /\ outages[i].ts = lastCluster

\* When an event that the tracker handles makes it MinIntegrations integrations that
\* have each lost MinEntities entities within a window, an outage is raised with it,
\* or has been less than a window before; and every step leaves the last one
\* recorded.  An outage the storage refused is the exception: it is in no list, no
\* alert tells of it, and as the suppression of repeats starts with the attempt, it
\* is not raised again.  DOCS.md: "That gets its own critical event and alert".
OutageIsRaised ==
  [][/\ (losses' \ losses # {} /\ Cardinality(Hit(losses')) >= MinIntegrations)
          => clock - lastCluster' < Window
     /\ LastIsRecorded']_vars

\* The drops counted in both of two outages.
CountedTwice(i, j) == outages[i].drops \cap outages[j].drops

\* Two outages of a run are a window apart, and they share a drop only when they
\* are exactly a window apart.
OutagesAreApart ==
  \A i, j \in 1..Len(outages) : (i < j /\ outages[i].run = outages[j].run) =>
    /\ outages[i].ts + Window <= outages[j].ts
    /\ CountedTwice(i, j) # {} => outages[j].ts = outages[i].ts + Window

\* An outage counts no entity that was chronic until a moment before.
\* availability.py: "A chronically dead entity flapping is not evidence of a new
\* event."
FlappingIsNoEvidence ==
  \A i \in 1..Len(outages) : \A d \in outages[i].drops :
    brokenUntil[d.entity] \notin (d.ts - Window)..d.ts

=============================================================================
